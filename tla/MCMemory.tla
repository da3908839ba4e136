------------------------------ MODULE MCMemory ------------------------------
(* TrunkSizing on small trunks, and MemoryPlan on the released dimensions  *)
(* and on a tiny model whose attention needs more scratch than its KDA.    *)
EXTENDS TrunkSizing, MemoryPlan

Released ==
  [hidden |-> 7168, n_layers |-> 93, vocab |-> 163840, kda_heads |-> 96, kda_head_dim |-> 128,
   conv_k |-> 4, n_heads |-> 96, q_lora |-> 1536, kv_lora |-> 512, qk_nope |-> 128,
   qk_rope |-> 64, v_head |-> 128, latent |-> 3584, moe_inter |-> 3072, n_shared |-> 2,
   dense_inter |-> 33792, attn_res_block |-> 12, n_mla |-> 24, resident |-> 108810000]
Tiny ==
  [Released EXCEPT !.hidden = 8, !.n_layers = 4, !.vocab = 16, !.kda_heads = 1,
                   !.kda_head_dim = 4, !.n_heads = 4, !.q_lora = 2, !.kv_lora = 3,
                   !.qk_nope = 4, !.qk_rope = 2, !.v_head = 5, !.latent = 3, !.moe_inter = 2,
                   !.dense_inter = 24, !.attn_res_block = 2, !.n_mla = 2, !.resident = 1000]

Request(np, gen) ==
  [np : np, gen : gen, incremental : BOOLEAN, streamed : BOOLEAN, prior : {0},
   spec : {FALSE}, draft : {0}]
MCRequests ==
  Request({1, 5, 600}, {0, 8}) \cup Request({16000}, {100, 5000})
  \cup [np : {5}, gen : {8}, incremental : BOOLEAN, streamed : {TRUE}, prior : {0, 900},
        spec : BOOLEAN, draft : {0, 6 * GB}]

Machine(avail, total) == [avail |-> avail * GB, total |-> total * GB]
MCMachines ==
  {Machine(0, 0), Machine(6, 8), Machine(12, 16), Machine(30, 32), Machine(100, 0),
   Machine(110, 128), Machine(126, 128), Machine(240, 256), Machine(1000, 1024)}
MCLengths == {0, 1, 4, 5, 6, 13, 14, 600, 609, 900, 914, 16000}

MCCfgs == {Released, Tiny}
MCReleased == {Released}

Parked == stage = "parked" /\ nbytes = [i \in Layers |-> 0] /\ widen = 0 /\ budget = 0 /\ pass = 0
          /\ npin = 0 /\ ring_slot = 0 /\ RING = 1 /\ spent = 0
NoRequest == /\ c = Tiny /\ req = CHOOSE r \in MCRequests : TRUE
             /\ mem = Machine(0, 0) /\ decision = "none" /\ auto = FALSE /\ trunk_gb = 0
             /\ cache_gb = 0 /\ need_b = 0 /\ used = 0 /\ fwd = NoForward

MCSpec ==
  /\ (Init /\ NoRequest) \/ (MemoryInit /\ Parked)
  /\ [][\/ stage # "parked" /\ Next /\ UNCHANGED memoryVars
        \/ stage = "parked" /\ MemoryNext /\ UNCHANGED vars]_<<vars, memoryVars>>
=============================================================================
