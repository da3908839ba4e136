---------------------------- MODULE DecoderStack ----------------------------
(***************************************************************************)
(* The arithmetic of a forward pass (src/src/core/k3_ops.c, and forward()  *)
(* of src/src/cli/k3_run.c): the decoder layers with their carried state,  *)
(* over one batch of ids at a time.  It is what SpecDecode takes for       *)
(* granted when it models the recurrent state by the ids it has absorbed:  *)
(* feeding a sequence in batches of any sizes, with drafts verified and    *)
(* rolled back on the way, leaves every logit as one recompute of the      *)
(* whole sequence would have it.                                           *)
(*                                                                         *)
(* A vector is one number of Floats: two results agree when they were      *)
(* computed by the same operations in the same order.                      *)
(***************************************************************************)
EXTENDS KernelOps, SequencesExt, FiniteSetsExt

CONSTANTS Vocab,           \* token ids, numbers
          NLayers,
          full_attn,       \* MLA layers as the config lists them: one-based
          first_dense,     \* layers before this one have a dense MLP
          attn_res_block,
          conv_k,          \* taps of the short convolution
          CHUNK,           \* tokens of a prefill sub-batch
          SpecN,           \* drafts of a speculative sweep
          kv_cap           \* positions of the KV cache

ASSUME DecoderAssumption ==
  /\ Vocab \subseteq Nat
  /\ {NLayers, attn_res_block, conv_k, topk, CHUNK, kv_cap} \subseteq Nat \ {0}
  /\ full_attn \subseteq 1..NLayers /\ topk <= NExperts

-----------------------------------------------------------------------------
(* The weight matrices of a layer, all different. *)
W(L, i) == ((L + 2) * 131 + i * 17) % P
MM(L, i, x) == FMul(W(L, i), x)              \* k3_mmw
RMSNorm(L, i, x) == FMul(W(L, i), Fn(5, x))
L2Norm(x) == Fn(7, x)
Sigmoid(x) == Fn(11, x)
SiTU(gate, up) == FMul(FMul(Fn(13, gate), Sigmoid(gate)), Fn(17, up))

(* exp(score - max) over the largest score, and the weighted sum that      *)
(* softmax attention and AttnRes both take, in the order of the sources.   *)
SoftMix(score, val) ==
  LET m == Max(Range(score))
      e == Vec([s \in DOMAIN score |-> Fn2(19, score[s], m)])
      z == FSum(e)
  IN  FSum([s \in DOMAIN score |-> FMul(Fn2(23, e[s], z), val[s])])

-----------------------------------------------------------------------------
(* The layer map.  The list is one-based, the layers are not. *)
is_mla(L) == L + 1 \in full_attn
is_dense(L) == L < first_dense
Layers == 0..(NLayers - 1)

(* k3_shortconv: causal taps, oldest first, over the carried inputs; the   *)
(* current input enters the sum first.                                     *)
shortconv(L, i, xs, hist) ==
  LET tap(buf, cur) ==
        FSum(<<MM(L, i + conv_k, cur)>> \o [j \in 1..Len(buf) |-> MM(L, i + j, buf[j])])
      step(acc, cur) ==
        [buf |-> IF acc.buf = <<>> THEN <<>> ELSE Append(Tail(acc.buf), cur),
         y   |-> Append(acc.y, LET a == tap(acc.buf, cur) IN FMul(a, Sigmoid(a)))]
  IN  FoldLeft(step, [buf |-> hist, y |-> <<>>], xs)

(* k3_kda_layer with k3_kda_decay: the recurrent matrix and the three      *)
(* convolution histories are updated in place.                             *)
ZeroHist == [j \in 1..(conv_k - 1) |-> 0]
ZeroKda == [S |-> 0, q |-> ZeroHist, k |-> ZeroHist, v |-> ZeroHist]

kda_layer(L, xs, st) ==
  LET proj(i) == Vec([t \in DOMAIN xs |-> MM(L, i, xs[t])])
      q == shortconv(L, 100, proj(1), st.q)
      k == shortconv(L, 110, proj(2), st.k)
      v == shortconv(L, 120, proj(3), st.v)
      beta(t) == Sigmoid(MM(L, 4, xs[t]))
      z(t) == MM(L, 6, MM(L, 5, xs[t]))
      alpha(t) == Fn(29, Sigmoid(FMul(W(L, 7), FAdd(z(t), W(L, 8)))))
      rec[t \in 0..Len(xs)] ==
        IF t = 0 THEN [S |-> st.S, o |-> 0]
        ELSE kda_step(rec[t - 1].S, FMul(L2Norm(q.y[t]), W(L, 9)), L2Norm(k.y[t]),
                      v.y[t], alpha(t), beta(t))
      gated(t) == FMul(RMSNorm(L, 10, rec[t].o), Sigmoid(MM(L, 11, xs[t])))
  IN  [out |-> Vec([t \in DOMAIN xs |-> MM(L, 12, gated(t))]),
       st  |-> [S |-> rec[Len(xs)].S, q |-> q.buf, k |-> k.buf, v |-> v.buf]]

(* k3_mla_cached: first every token of the batch writes its row at its     *)
(* absolute position, then each attends over the rows up to its own.       *)
(* Without a cache the rows live in scratch and the batch starts at 0.     *)
MlaRow(L, x) ==
  LET c == RMSNorm(L, 21, MM(L, 20, x))
  IN  [k |-> MM(L, 22, c), v |-> MM(L, 23, c), rope |-> MM(L, 24, x)]

NoRow == [k |-> 0, v |-> 0, rope |-> 0]      \* calloc

mla_cached(L, xs, rows, cached) ==
  LET kv == Vec([p \in DOMAIN rows |->
                   IF p > cached /\ p <= cached + Len(xs) THEN MlaRow(L, xs[p - cached])
                                                          ELSE rows[p]])
      q(t) == RMSNorm(L, 26, MM(L, 25, xs[t]))
      score(t) == Vec([s \in 1..(cached + t) |->
                     FAdd(FMul(MM(L, 27, q(t)), kv[s].k), FMul(MM(L, 28, q(t)), kv[s].rope))])
      attend(t) == SoftMix(score(t), [s \in 1..(cached + t) |-> kv[s].v])
  IN  [out |-> Vec([t \in DOMAIN xs |->
                      MM(L, 30, FMul(attend(t), Sigmoid(MM(L, 29, xs[t]))))]),
       kv  |-> kv]

(* k3_attn_res: the normalised sources score, the raw ones are mixed. *)
attn_res(L, i, src) ==
  SoftMix(Vec([s \in DOMAIN src |-> FMul(Fn(5, src[s]), W(L, i))]), src)
-----------------------------------------------------------------------------
(* k3_router: the bias steers the selection only. *)
Score(L, e, x) == Sigmoid(MM(L, 40 + e, x)) % 4
Choice(L, e, x) == Score(L, e, x) + (e % 2)

router(L, x) ==
  LET e == TopK([i \in 0..(NExperts - 1) |-> Choice(L, i, x)], topk)
      s == FSum([j \in 1..topk |-> Score(L, e[j], x)])
  IN  Vec([j \in 1..topk |-> [e |-> e[j], w |-> Fn2(31, Score(L, e[j], x), s)]])

(* One routed expert on the latent input, and what follows the weighted    *)
(* sum: norm of the aggregate, up-projection, the shared expert.           *)
Expert(L, e, z) == MM(L, 70 + e, SiTU(MM(L, 50 + e, z), MM(L, 60 + e, z)))
Latent(L, x) == MM(L, 80, x)
MoeTail(L, acc, x) ==
  FAdd(MM(L, 82, RMSNorm(L, 81, acc)), MM(L, 85, SiTU(MM(L, 83, x), MM(L, 84, x))))

moe(L, x) ==
  LET r == router(L, x)
  IN  MoeTail(L, FSum([j \in 1..topk |-> FMul(r[j].w, Expert(L, r[j].e, Latent(L, x)))]), x)

(* moe_prefill_chunk: the batch's experts in the order they are first      *)
(* asked for, each applied once to all the (token, slot) pairs that chose  *)
(* it; the terms are summed afterwards, in the token's own top-k order.    *)
Unique(r) ==
  LET add(acc, e) == IF e \in Range(acc) THEN acc ELSE Append(acc, e)
  IN  FoldLeft(add, <<>>, FlattenSeq([t \in DOMAIN r |-> [j \in 1..topk |-> r[t][j].e]]))

Contributions(L, xs, r) ==
  LET apply(c, e) == Vec([t \in DOMAIN xs |-> Vec([j \in 1..topk |->
                        IF r[t][j].e = e THEN Expert(L, e, Latent(L, xs[t])) ELSE c[t][j]])])
  IN  FoldLeft(apply, [t \in DOMAIN xs |-> [j \in 1..topk |-> 0]], Unique(r))

moe_prefill_chunk(L, xs) ==
  LET r == Vec([t \in DOMAIN xs |-> router(L, xs[t])])
      c == Contributions(L, xs, r)
  IN  Vec([t \in DOMAIN xs |->
         MoeTail(L, FSum([j \in 1..topk |-> FMul(r[t][j].w, c[t][j])]), xs[t])])

(* k3_moe_prefill: sub-batches of CHUNK tokens, one token on its own by    *)
(* the path that decoding uses.                                            *)
moe_prefill(L, xs) ==
  LET nsub == (Len(xs) + CHUNK - 1) \div CHUNK
      sub(i) == SubSeq(xs, (i - 1) * CHUNK + 1, Min({i * CHUNK, Len(xs)}))
      done(s) == IF Len(s) = 1 THEN <<moe(L, s[1])>> ELSE moe_prefill_chunk(L, s)
  IN  FlattenSeq([i \in 1..nsub |-> done(sub(i))])

mlp(L, xs) ==
  IF is_dense(L)
  THEN [t \in DOMAIN xs |-> MM(L, 92, SiTU(MM(L, 90, xs[t]), MM(L, 91, xs[t])))]
  ELSE moe_prefill(L, xs)
-----------------------------------------------------------------------------
(* k3_decoder_layer_inc on a batch.  f carries the hidden states h, the    *)
(* block snapshots br of every token, the KDA states ks and the KV rows    *)
(* kv of every layer.  A block boundary snapshots the residual and clears  *)
(* it.                                                                     *)
decoder_layer(L, f, cached) ==
  LET toks == DOMAIN f.h
      boundary == L % attn_res_block = 0
      h1 == Vec([t \in toks |-> IF f.br[t] = <<>> THEN f.h[t]
                                ELSE attn_res(L, 95, Append(f.br[t], f.h[t]))])
      br == IF boundary THEN Vec([t \in toks |-> Append(f.br[t], f.h[t])]) ELSE f.br
      hin == Vec([t \in toks |-> RMSNorm(L, 96, h1[t])])
      mixed(att) == Vec([t \in toks |-> IF boundary THEN att[t] ELSE FAdd(f.h[t], att[t])])
      added(pref) ==
        LET h2 == Vec([t \in toks |-> RMSNorm(L, 98, attn_res(L, 97, Append(br[t], pref[t])))])
            m == mlp(L, h2)
        IN  Vec([t \in toks |-> FAdd(pref[t], m[t])])
      kda(a) == [h |-> added(mixed(a.out)), br |-> br,
                 ks |-> [f.ks EXCEPT ![L] = a.st], kv |-> f.kv]
      mla(a) == [h |-> added(mixed(a.out)), br |-> br,
                 ks |-> f.ks, kv |-> [f.kv EXCEPT ![L] = a.kv]]
  IN  IF is_mla(L) THEN mla(mla_cached(L, hin, f.kv[L], cached))
                   ELSE kda(kda_layer(L, hin, f.ks[L]))

(* Mutant: only the position whose logits are kept is aggregated. *)
Final_LastOnly(f, t) ==
  RMSNorm(NLayers, 99, IF t = Len(f.h) THEN attn_res(NLayers, 98, Append(f.br[t], f.h[t]))
                                       ELSE f.h[t])

(* The model-level aggregator over the block snapshots, and the norm. *)
Final(f, t) == RMSNorm(NLayers, 99, attn_res(NLayers, 98, Append(f.br[t], f.h[t])))

ZeroState == [ks |-> [L \in Layers |-> ZeroKda],
              kv |-> [L \in Layers |-> [p \in 1..kv_cap |-> NoRow]]]

(* The first n layers, each on what the one before it left. *)
RECURSIVE walk(_, _, _)
walk(n, f, cached) ==
  IF n = 0 THEN f ELSE decoder_layer(n - 1, walk(n - 1, f, cached), cached)

(* forward(): embed, all layers, the model-level aggregator, the final     *)
(* norm, for every position of the batch.  Without a KV cache the KDA      *)
(* state is cleared first and every batch starts at position 0.            *)
forward(m, ids, cached) ==
  LET start == [h |-> Vec([t \in DOMAIN ids |-> FMul(ids[t], 7001)]),
                br |-> Vec([t \in DOMAIN ids |-> <<>>]), ks |-> m.ks, kv |-> m.kv]
      result(end) == [ks |-> end.ks, kv |-> end.kv,
                      out |-> Vec([t \in DOMAIN ids |-> Final(end, t)])]
  IN  result(walk(NLayers, start, cached))

Batches(n) == [1..n -> Vocab]

(* forward() without a KV cache, on every sequence that fits. *)
Recomputed ==
  [ids \in UNION {Batches(n) : n \in 0..kv_cap} |-> forward(ZeroState, ids, 0)]

-----------------------------------------------------------------------------
VARIABLES
  model,   \* the carried state [ks, kv]
  cached,  \* w.cached
  seq,     \* ids fed so far; the first `cached' of them are in the state
  batch,   \* the ids of the last forward
  out,     \* what it computed for each of them
  snap     \* spec_snap: the KDA state from before a speculative sweep

decoderVars == <<model, cached, seq, batch, out, snap>>

DecoderInit ==
  /\ model = ZeroState
  /\ cached = 0
  /\ seq = <<>> /\ batch = <<>> /\ out = <<>> /\ snap = <<>>

(* What a forward pass f over ids leaves behind. *)
Computed(ids, f) ==
  /\ model' = [ks |-> f.ks, kv |-> f.kv]
  /\ batch' = ids /\ out' = f.out

(* A batch whose ids are all kept: a prompt, the next part of a resumed    *)
(* sequence, one decoded id.                                               *)
Feed(ids) ==
  /\ snap = <<>>
  /\ cached + Len(ids) <= kv_cap
  /\ Computed(ids, forward(model, ids, cached))
  /\ cached' = cached + Len(ids)
  /\ seq' = seq \o ids
  /\ UNCHANGED snap

(* A speculative sweep: the KDA state is copied, then the pending id and   *)
(* the drafts after it go through in one batch.                            *)
Sweep(ids) ==
  /\ snap = <<>> /\ cached > 0
  /\ cached + SpecN + 1 <= kv_cap
  /\ snap' = model.ks
  /\ Computed(ids, forward(model, ids, cached))
  /\ UNCHANGED <<cached, seq>>

AcceptAll ==
  /\ snap # <<>>
  /\ cached' = cached + Len(batch)
  /\ seq' = seq \o batch
  /\ snap' = <<>>
  /\ UNCHANGED <<model, batch, out>>

(* Mutant: the replay goes on from the state that absorbed the drafts. *)
Rollback_NoRestore(n) ==
  LET ids == SubSeq(batch, 1, n)
  IN  /\ snap # <<>>
      /\ n < Len(batch)
      /\ Computed(ids, forward(model, ids, cached))
      /\ cached' = cached + n
      /\ seq' = seq \o ids
      /\ snap' = <<>>

(* The drafts after the n-th id are rejected: restore the KDA state and    *)
(* replay the accepted prefix.  KV rows past it keep what the sweep wrote. *)
Rollback(n) ==
  LET ids == SubSeq(batch, 1, n)
  IN  /\ snap # <<>>
      /\ n < Len(batch)
      /\ Computed(ids, forward([model EXCEPT !.ks = snap], ids, cached))
      /\ cached' = cached + n
      /\ seq' = seq \o ids
      /\ snap' = <<>>

DecoderNext ==
  \/ \E n \in 1..(kv_cap - cached) : \E ids \in Batches(n) : Feed(ids)
  \/ \E n \in 2..(SpecN + 1) : \E ids \in Batches(n) : Sweep(ids)
  \/ AcceptAll
  \/ \E n \in 1..SpecN : Rollback(n)

DecoderSpec == DecoderInit /\ [][DecoderNext]_decoderVars

-----------------------------------------------------------------------------
(* What every position of the last batch computed is what one recompute of *)
(* the whole sequence up to it gives, with no cache and no carried state,  *)
(* operation for operation: however the sequence was cut into batches,     *)
(* whatever drafts were rolled back before, and although a batch of        *)
(* several tokens takes the expert-major MoE path and a single one does    *)
(* not.                                                                    *)
LogitsExact ==
  LET before == IF snap # <<>> THEN seq ELSE SubSeq(seq, 1, Len(seq) - Len(batch))
      alone(t) == Recomputed[before \o SubSeq(batch, 1, t)].out
  IN  \A t \in DOMAIN batch : out[t] = alone(t)[Len(before) + t]

(* Between sweeps the carried state is a function of the ids it holds: the *)
(* KDA matrices, the convolution histories and the KV rows of the cached   *)
(* positions are those of one recompute.  Rows past `cached' may hold      *)
(* rejected drafts.                                                        *)
CarryExact ==
  LET ref == Recomputed[seq]
  IN  snap = <<>> =>
        /\ cached = Len(seq)
        /\ model.ks = ref.ks
        /\ \A L \in Layers, p \in 1..cached : model.kv[L][p] = ref.kv[L][p]
=============================================================================
