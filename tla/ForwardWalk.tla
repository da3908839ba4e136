----------------------------- MODULE ForwardWalk -----------------------------
(***************************************************************************)
(* The forward pass as a client of the trunk ring: forward() in            *)
(* src/src/cli/k3_run.c and engine_forward() in                            *)
(* src/agent/model/k3_engine.c.  For every token (or chunk of tokens) they *)
(* walk L = 0..NBound-1 and call bind(L), prefetch(L+1), then compute on   *)
(* the bytes bind returned.                                                *)
(*                                                                         *)
(* NBound is the layer count the pass walks: all of the packed trunk, or   *)
(* fewer under --layers / o->n_layers.  Retry tells the two callers apart: *)
(* the command line gives up after a failed forward; the engine returns -1 *)
(* to the agent, which may generate again on the same trunk (and so does   *)
(* the command line with the trunk of its draft model).                    *)
(***************************************************************************)
EXTENDS TrunkRing

CONSTANTS NBound, Retry

ASSUME WalkAssumption ==
  /\ NBound \in 1..NLayers
  /\ Retry \in BOOLEAN

VARIABLES L, phase

vars == <<trunkVars, L, phase>>

Init ==
  /\ TrunkInit
  /\ L = 0
  /\ phase = "idle"

StartForward ==
  /\ phase = "idle"
  /\ L' = 0
  /\ phase' = "bind"
  /\ UNCHANGED trunkVars

CallBind ==
  /\ phase = "bind"
  /\ Bind(L)
  /\ phase' = "binding"
  /\ UNCHANGED L

BindStep ==
  /\ phase = "binding"
  /\ InBind
  /\ UNCHANGED <<L, phase>>

BindReturns ==
  /\ phase = "binding"
  /\ pc = "out"
  /\ phase' = (IF rc = 0 THEN "hint" ELSE "failed")
  /\ UNCHANGED <<trunkVars, L>>

Hint ==
  /\ phase = "hint"
  /\ Prefetch(L + 1)
  /\ phase' = "compute"
  /\ UNCHANGED L

Compute ==
  /\ phase = "compute"
  /\ \/ L + 1 < NBound /\ L' = L + 1 /\ phase' = "bind"
     \/ L + 1 = NBound /\ L' = 0 /\ phase' = "idle"
  /\ UNCHANGED trunkVars

ForwardAgain ==
  /\ Retry
  /\ phase = "failed"
  /\ L' = 0
  /\ phase' = "bind"
  /\ UNCHANGED trunkVars

CallClose ==
  /\ phase \in {"idle", "failed"}
  /\ Close
  /\ phase' = "closed"
  /\ UNCHANGED L

CloseReturns ==
  /\ phase = "closed"
  /\ Join
  /\ UNCHANGED <<L, phase>>

Main ==
  \/ StartForward \/ CallBind \/ BindStep \/ BindReturns
  \/ Hint \/ Compute \/ ForwardAgain \/ CallClose \/ CloseReturns

ReaderStep == Reader /\ UNCHANGED <<L, phase>>

Wakeup == SpuriousWakeup /\ UNCHANGED <<L, phase>>

(* After k3_trunk_close nothing is left to happen. *)
Terminated ==
  /\ pc = "freed"
  /\ UNCHANGED vars

Next == Main \/ ReaderStep \/ Wakeup \/ Terminated

(* Both threads are scheduled, and a pread returns.  No fairness on a      *)
(* spurious wakeup, nor on the caller's decision to start another pass.    *)
Fairness ==
  /\ WF_vars(CallBind \/ BindStep \/ BindReturns \/ Hint \/ Compute
             \/ CloseReturns)
  /\ WF_vars(ReaderStep)

Spec == Init /\ [][Next]_vars

FairSpec == Spec /\ Fairness

-----------------------------------------------------------------------------
(* Every variable stays in its type. *)
TypeOK ==
  /\ TrunkTypeOK
  /\ L \in 0..(NBound - 1)
  /\ phase \in {"idle", "bind", "binding", "hint", "compute", "failed",
                "closed"}

(* From the return of bind(L) to the end of the computation on layer L,    *)
(* the buffer bind handed out holds the bytes of L and no others: neither  *)
(* the prefetch of a later layer nor a read still running from an earlier  *)
(* pass has touched it (k3_trunk_bind, k3_trunk_prefetch, trunk_io_main).  *)
ComputeSeesOwnLayer ==
  phase \in {"hint", "compute"} => Content(base, L)

(* k3_trunk.h: "The worker never publishes a layer name before its read    *)
(* succeeds", and bind unpublishes a slot before it reads into it: a slot  *)
(* that names a layer holds all of that layer.                             *)
PublishedIsComplete ==
  \A s \in Slots : layer_of[s] # None => Content(s, layer_of[s])

(* The two threads never run load_run at once: they share no slot, and the *)
(* unlocked updates of tr->bytes_read and tr->load_seconds do not race.    *)
OneLoadAtATime ==
  ~(pc = "read" /\ rpc = "read")

(* k3_run.c: "The order is fixed 0..92 every token, so the hint is never   *)
(* wrong": the layer handed to the reader is the one bound next, so no     *)
(* request is left over when a pass is done.                               *)
HintNeverWrong ==
  phase = "idle" => busy = 0 /\ done = 0

(* A streamed layer's slot_of entry, which prefetch trusts to skip a read, *)
(* always points at the slot that publishes the layer.                     *)
SlotOfAgrees ==
  \A l \in NPin..(NLayers - 1) :
     slot_of[l] # None => slot_of[l] \in Slots /\ layer_of[slot_of[l]] = l

(* Once k3_trunk_close has freed the buffers the reader is gone, even if   *)
(* close came while a prefetch was in flight.                              *)
NoReadAfterFree ==
  pc = "freed" => rpc # "read" /\ rpc # "lock"

(* A bind in progress always comes back: no wakeup between trunk_io_main   *)
(* and trunk_io_wait is lost.                                              *)
BindAlwaysReturns ==
  phase = "binding" ~> phase \in {"hint", "failed"}

(* k3_trunk_close always gets past pthread_join. *)
CloseAlwaysReturns ==
  phase = "closed" ~> pc = "freed"

-----------------------------------------------------------------------------
(* The trunk implements the layer feed: the bytes under computation are    *)
(* read off the buffer, -2 standing for a mixture of layers.               *)
Seen(b) ==
  IF \E l \in Layers : Content(b, l)
  THEN CHOOSE l \in Layers : Content(b, l)
  ELSE -2

Feed == INSTANCE LayerFeed WITH
  at <- L,
  weights <- IF phase \in {"hint", "compute"} THEN Seen(base) ELSE -1,
  status <- IF phase \in {"failed", "closed"} THEN phase ELSE "running"

(* Refinement: every behaviour of the two threads is, seen from the        *)
(* forward pass, a behaviour of LayerFeed.                                 *)
ImplementsLayerFeed == Feed!FeedSpec
=============================================================================
