----------------------------- MODULE MemoryPlan -----------------------------
(***************************************************************************)
(* How src/src/cli/k3_run.c decides whether a request fits the machine     *)
(* before it loads anything (presets, --preset auto, the limits, the KV    *)
(* check, the memory plan), what it then allocates, and how the kernels of *)
(* src/src/core/k3_ops.c divide the one scratch buffer among themselves.   *)
(*                                                                         *)
(* Memory is counted in kB of 1000 bytes, scratch in floats.  What the     *)
(* kernel reports as available does not change while the program starts.   *)
(***************************************************************************)
EXTENDS Integers

CONSTANTS Cfgs,        \* K3Cfg: the dimensions of the models
          MaxPrompt, MaxGen,     \* K3_MAX_PROMPT, K3_MAX_GEN
          Requests,    \* np, gen, incremental, streamed, prior, spec, draft
          Machines,    \* MemAvailable and MemTotal; 0 is not readable
          Lengths      \* how many tokens a pass may have, or find cached

ASSUME MemoryAssumption ==
  /\ \A m \in Cfgs :
       /\ {m.hidden, m.n_layers, m.attn_res_block} \subseteq Nat \ {0}
       /\ {m.vocab, m.kda_heads, m.kda_head_dim, m.conv_k, m.n_heads, m.q_lora, m.kv_lora,
           m.qk_nope, m.qk_rope, m.v_head, m.latent, m.moe_inter, m.n_shared,
           m.dense_inter} \subseteq Nat
       /\ m.dense_inter <= 6 * (m.kda_heads * m.kda_head_dim)
  /\ \A r \in Requests : {r.np, r.gen, r.prior} \subseteq Nat
                          /\ r.incremental \in BOOLEAN
  /\ Lengths \subseteq Nat

(* k3.h has 32768 and 4096. *)
ASSUME LimitsAssumption == MaxPrompt \in Nat /\ MaxGen \in Nat /\ MaxPrompt + 2 * MaxGen <= 6000000

ASSUME PlanAssumption ==
  /\ \A m \in Cfgs : m.conv_k > 0 /\ {m.n_mla, m.resident} \subseteq Nat
  /\ \A m \in Machines : m.avail \in Nat /\ m.total \in Nat

GB == 1000000
KB(floats) == floats \div 250 + 1

Presets == {<<3 * GB, 1 * GB>>, <<16 * GB, 10 * GB>>, <<60 * GB, 30 * GB>>,
            <<110 * GB, 13 * GB>>, <<110 * GB, 109 * GB>>}

VARIABLES c, req, mem,       \* the model, the request, the machine: never changed
          decision,          \* the next decision; "refused", "run"
          auto, trunk_gb, cache_gb,
          need_b,            \* the plan's total
          used,              \* what was allocated
          fwd                \* the forward pass in progress: T, cached

memoryVars == <<c, req, mem, decision, auto, trunk_gb, cache_gb, need_b, used, fwd>>

Larger(x, y) == IF x > y THEN x ELSE y
Smaller(x, y) == IF x < y THEN x ELSE y

-----------------------------------------------------------------------------
(* The sizes of the scratch, as the callers compute them. *)
mla_scratch_cached(T, cap, cached_mode) ==
  T * (c.n_heads * (c.qk_nope + c.qk_rope)) + (c.kv_lora + c.qk_rope) + c.q_lora
    + 2 * (c.n_heads * c.v_head) + Larger(cap, T)
    + IF cached_mode THEN 0
      ELSE T * (c.n_heads * (c.qk_nope + c.v_head)) + T * c.qk_rope

moe_scratch ==
  2 * c.latent + 3 * c.moe_inter + c.latent + 3 * (c.moe_inter * c.n_shared) + c.hidden

P == c.kda_heads * c.kda_head_dim

(* Mutant: one work row instead of a gate buffer and a work row. *)
kda_scratch_OneRow(T) == T * (6 * P) + T * c.kda_heads + P + c.kda_head_dim
kda_scratch(T) == T * (6 * P) + T * c.kda_heads + 2 * P + c.kda_head_dim

maxb == c.n_layers \div c.attn_res_block + 2

layer_scratch(T) ==
  T * (3 * c.hidden) + 2 * c.hidden + maxb * c.hidden + 2 * c.dense_inter
    + Larger(Larger(mla_scratch_cached(T, T, FALSE), kda_scratch(T)), moe_scratch)

Tmax == req.prior + req.np + req.gen + 1
sc_need == Larger(layer_scratch(Tmax), mla_scratch_cached(Tmax, Tmax, TRUE))

(* Where each kernel's last region ends, given where the scratch begins.   *)
(* q, ct, ql, acc, gbuf, the scores of last + 1 positions, and without a   *)
(* cache the keys and values of this pass.                                 *)
mla_end(T, cached) ==
  LET last == cached + T - 1
  IN  T * (c.n_heads * (c.qk_nope + c.qk_rope)) + (c.kv_lora + c.qk_rope) + c.q_lora
        + c.n_heads * c.v_head + c.n_heads * c.v_head + (last + 1)
        + IF req.incremental THEN 0
          ELSE T * (c.n_heads * (c.qk_nope + c.v_head)) + T * c.qk_rope

(* q, k, v, z, al, bt, o, gb, wr, fa. *)
kda_end(T) == T * P + T * P + T * P + T * P + T * P + T * c.kda_heads + T * P + P + P
                + c.kda_head_dim

(* z, accL, gu, act, edn, sgu, sact, sdn; the prefill of a chunk keeps     *)
(* less here.                                                              *)
moe_end ==
  LET SI == c.moe_inter * c.n_shared
  IN  c.latent + c.latent + 2 * c.moe_inter + c.moe_inter + c.latent + 2 * SI + SI + c.hidden

moe_chunk_end ==
  LET SI == c.moe_inter * c.n_shared
  IN  Larger(2 * c.moe_inter + c.moe_inter + c.latent, 2 * SI + SI + c.hidden)

(* pref, tmp, hin, the two folds, the source rows, dgu; behind them the    *)
(* sub-block, which the dense MLP also writes its activation to.           *)
sub_at(T) == T * (3 * c.hidden) + c.hidden + c.hidden + maxb * c.hidden + 2 * c.dense_inter

(* The rows of the source stack: a snapshot per block begun, and one. *)
src_rows(layer) == layer \div c.attn_res_block + 1 + 1

-----------------------------------------------------------------------------
(* The memory plan and the allocations, in kB. *)
kv(T) == T * KB(c.n_mla * (c.n_heads * (c.qk_nope + c.v_head) + c.qk_rope))
kda_floats == (P * c.kda_head_dim + 3 * P * (c.conv_k - 1)) * c.n_layers
w_model == KB(c.vocab * c.hidden) + KB(3 * c.hidden)       \* two bf16 matrices
w_state == KB(kda_floats)
w_buf(T) == KB(T * c.hidden) + KB(T * maxb * c.hidden) + KB(layer_scratch(T)) + KB(c.vocab)

(* Mutant: the plan forgets the KV cache. *)
w_kv_Forgotten(T) == 0
w_kv(T) == IF req.incremental THEN kv(T) ELSE 0

w_trunk == IF req.streamed THEN trunk_gb ELSE c.resident

Planned ==
  LET Tm == req.np + req.gen + 1
  IN  w_trunk + w_model + cache_gb + w_state + w_buf(Tm) + w_kv(Tm)

(* The trunk's arena stays in its budget (TrunkSizing), the expert cache's *)
(* is rounded up to a huge page.  A resumed session has its history in     *)
(* every buffer; --spec and the draft model have state of their own.       *)
Reserved ==
  w_trunk + w_model + cache_gb + 2098
    + w_state + KB(Tmax * c.hidden) + KB(Tmax * maxb * c.hidden) + KB(sc_need) + KB(c.vocab)
    + KB(Tmax + 7 + req.gen + 8)
    + (IF req.incremental THEN kv(Tmax) ELSE 0)
    + (IF req.incremental /\ (req.spec \/ req.draft > 0) THEN w_state ELSE 0)
    + (IF req.incremental /\ req.streamed /\ req.draft > 0
       THEN req.draft + 2 * w_state + kv(Tmax) ELSE 0)

-----------------------------------------------------------------------------
Refused == decision' = "refused" /\ UNCHANGED <<c, req, mem, auto, trunk_gb, cache_gb, need_b, used, fwd>>

(* --preset NAME, or the two budgets given. *)
Preset(p) ==
  /\ decision = "args"
  /\ decision' = "limits" /\ auto' = FALSE /\ trunk_gb' = p[1] /\ cache_gb' = p[2]
  /\ UNCHANGED <<c, req, mem, need_b, used, fwd>>

(* --preset auto: everything beyond the reserve, to the trunk first; below *)
(* full residency no more than keeps the process under 55% of the RAM.     *)
reserve == 2 * GB + mem.avail \div 50 + 4700000 + 1700000
usable == mem.avail - reserve
slot_min == 2500000
cache_min == 500000
trunk_full == 111 * GB
rss_ceiling == IF mem.total > 0 THEN (mem.total \div 100) * 55 ELSE usable

AutoBudget ==
  /\ decision = "args" /\ mem.avail > 0
  /\ usable >= slot_min + cache_min
  /\ decision' = "limits" /\ auto' = TRUE
  /\ IF usable - cache_min >= trunk_full
     THEN trunk_gb' = trunk_full /\ cache_gb' = usable - trunk_full
     ELSE /\ trunk_gb' = Smaller(usable - cache_min,
                                 Larger(rss_ceiling - reserve - cache_min, slot_min))
          /\ cache_gb' = cache_min
  /\ UNCHANGED <<c, req, mem, need_b, used, fwd>>

AutoRefuses ==
  /\ decision = "args" /\ (mem.avail <= 0 \/ usable < slot_min + cache_min)
  /\ Refused

(* The request's limits, and --load-state without --incremental, which is  *)
(* refused later, before anything of it is allocated.                      *)
LimitsOk ==
  /\ req.np > 0 /\ req.np <= MaxPrompt
  /\ req.gen >= 0 /\ req.gen <= MaxGen
  /\ req.np + req.gen + 1 <= MaxPrompt + MaxGen
  /\ req.prior > 0 => req.incremental

Limits ==
  /\ decision = "limits" /\ LimitsOk
  /\ decision' = "kv"
  /\ UNCHANGED <<c, req, mem, auto, trunk_gb, cache_gb, need_b, used, fwd>>

LimitsRefuse == decision = "limits" /\ ~LimitsOk /\ Refused

(* K3_KV_BYTES_PER_POS against 90% of what is available. *)
KvFits == req.incremental /\ mem.avail > 0 =>
            (req.np + req.gen + 1) * 2370 <= (mem.avail \div 10) * 9

KvCheck ==
  /\ decision = "kv" /\ KvFits
  /\ decision' = "plan"
  /\ UNCHANGED <<c, req, mem, auto, trunk_gb, cache_gb, need_b, used, fwd>>

KvRefuse == decision = "kv" /\ ~KvFits /\ Refused

(* The plan against 95%. *)
PlanFits == mem.avail > 0 => Planned <= (mem.avail \div 100) * 95

Plan ==
  /\ decision = "plan" /\ PlanFits
  /\ decision' = "load" /\ need_b' = Planned
  /\ UNCHANGED <<c, req, mem, auto, trunk_gb, cache_gb, used, fwd>>

PlanRefuse ==
  /\ decision = "plan" /\ ~PlanFits
  /\ decision' = "refused" /\ need_b' = Planned
  /\ UNCHANGED <<c, req, mem, auto, trunk_gb, cache_gb, used, fwd>>

(* Weights, cache, buffers; the check of the aggregator's rows. *)
Load ==
  /\ decision = "load" /\ layer_scratch(Tmax) >= (maxb + 2) * c.hidden
  /\ decision' = "run" /\ used' = Reserved
  /\ UNCHANGED <<c, req, mem, auto, trunk_gb, cache_gb, need_b, fwd>>

(* The trunk, a layer, the model tensors, the cache, the state file or an  *)
(* allocation fails, or the scratch is too small: the program ends.        *)
LoadRefuse == decision = "load" /\ Refused

(* A forward pass over T tokens behind the cached ones; a recomputation    *)
(* has none cached.                                                        *)
Forward(T, cached) ==
  /\ decision = "run"
  /\ T > 0 /\ cached + T <= Tmax
  /\ req.incremental \/ cached = 0
  /\ fwd' = [T |-> T, cached |-> cached]
  /\ UNCHANGED <<c, req, mem, decision, auto, trunk_gb, cache_gb, need_b, used>>

NoForward == [T |-> 0, cached |-> 0]

MemoryInit ==
  /\ c \in Cfgs /\ req \in Requests /\ mem \in Machines
  /\ decision = "args" /\ auto = FALSE /\ trunk_gb = 0 /\ cache_gb = 0
  /\ need_b = 0 /\ used = 0 /\ fwd = NoForward

MemoryNext ==
  \/ \E p \in Presets : Preset(p)
  \/ AutoBudget \/ AutoRefuses \/ Limits \/ LimitsRefuse \/ KvCheck \/ KvRefuse
  \/ Plan \/ PlanRefuse \/ Load \/ LoadRefuse
  \/ \E T, cached \in Lengths : Forward(T, cached)

MemorySpec == MemoryInit /\ [][MemoryNext]_memoryVars

-----------------------------------------------------------------------------
(* "Add up EVERYTHING before allocating anything": a request that is let   *)
(* through is given no more memory than the machine has.  This is said of  *)
(* a plain request: neither a resumed history nor the state of --spec and  *)
(* of the draft model is in the plan.                                      *)
PlanCovers ==
  decision = "run" /\ mem.avail > 0 /\ req.prior = 0 /\ ~req.spec /\ req.draft = 0 =>
    used <= mem.avail

(* "getting it wrong overruns silently": in every forward pass, at every   *)
(* layer, every region a kernel carves out of the scratch ends inside it,  *)
(* and the source rows end before the region behind them.                  *)
ScratchFits ==
  LET T == fwd.T
  IN  T > 0 =>
        /\ sub_at(T) + mla_end(T, fwd.cached) <= sc_need
        /\ sub_at(T) + kda_end(T) <= sc_need
        /\ sub_at(T) + moe_end <= sc_need
        /\ sub_at(T) + moe_chunk_end <= sc_need
        /\ sub_at(T) + c.dense_inter <= sc_need
        /\ \A layer \in 0..(c.n_layers - 1) : src_rows(layer) <= maxb
        /\ (1 + src_rows(c.n_layers - 1)) * c.hidden <= sc_need      \* the last aggregation

(* "This is the configuration auto exists for": what --preset auto chose   *)
(* for the machine is not refused by the program's own plan, for a request *)
(* whose state, buffers and KV cache stay in the 1.70 GB auto reserves.    *)
AutoStarts ==
  LET Tm == req.np + req.gen + 1
  IN  auto /\ req.streamed /\ w_state + w_buf(Tm) + w_kv(Tm) <= 1700000 =>
        ~(decision = "refused" /\ need_b > 0)
=============================================================================
