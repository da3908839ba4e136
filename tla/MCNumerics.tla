----------------------------- MODULE MCNumerics -----------------------------
(* One behaviour runs a parallel region of Kernels or a session of         *)
(* DecoderStack; the other one's variables stay as they are.               *)
EXTENDS Kernels, DecoderStack

NoRegion ==
  /\ job = [kind |-> "none"] /\ team = 0 /\ stage = <<>> /\ y = <<>> /\ wr = <<>> /\ S = <<>>

MCNext ==
  \/ job.kind # "none" /\ KernelsNext /\ UNCHANGED decoderVars
  \/ job.kind = "none" /\ DecoderNext /\ UNCHANGED kernelVars

MCInit == (KernelsInit \/ NoRegion) /\ DecoderInit

MCSpec == MCInit /\ [][MCNext]_<<kernelVars, decoderVars>>
=============================================================================
