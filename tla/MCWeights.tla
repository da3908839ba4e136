----------------------------- MODULE MCWeights -----------------------------
(* Checkpoints of one layer, or of the model level, for LayerBind: as      *)
(* released, or with one thing out of the ordinary.                        *)
EXTENDS LayerBind, SequencesExt

MCc == [hidden |-> 2, kda_heads |-> 1, kda_head_dim |-> 2, conv_k |-> 2, n_heads |-> 1,
        q_lora |-> 1, kv_lora |-> 1, qk_nope |-> 1, qk_rope |-> 1, v_head |-> 1,
        mla_out_gate |-> TRUE, n_experts |-> 2, latent |-> 1, moe_inter |-> 1,
        n_shared |-> 2, dense_inter |-> 3, vocab |-> 3]

Convs == {"q_conv", "k_conv", "v_conv"}
Flat2D == {"gate", "attn_res_proj", "mlp_res_proj", "out_res_proj"}
Fp32 == Convs \cup {"A_log", "dt_bias", "o_norm", "bias"}

Shape(q) ==
  LET f == q.name[2]
      n == q.want
  IN  IF f \in Convs THEN <<n \div 2, 1, 2>>
      ELSE IF q.narrow \/ f \in Flat2D THEN IF n % 2 = 0 THEN <<n \div 2, 2>> ELSE <<n, 1>>
      ELSE <<n>>

Entry(name, dtype, shape) == [name |-> name, dtype |-> dtype, shape |-> shape]
Released(q) == Entry(q.name, IF q.name[2] \in Fp32 THEN "F32" ELSE "BF16", Shape(q))

(* A file of these entries, one behind the other from `from' on. *)
File(list, from) ==
  LET es == Vec(list)
      size == Vec([k \in 1..Len(es) |-> numel(es[k]) * elemsize(es[k].dtype)])
      o[k \in 1..(Len(es) + 1)] == IF k = 1 THEN from ELSE o[k - 1] + size[k - 1]
      off == Vec([k \in 1..(Len(es) + 1) |-> o[k]])
  IN  [hlen |-> 3, fsize |-> PREFIX + 3 + off[Len(es) + 1],
       entries |-> Vec([k \in 1..Len(es) |->
          [name |-> es[k].name, dtype |-> es[k].dtype, shape |-> es[k].shape,
           o0 |-> off[k], o1 |-> off[k + 1]]])]

(* Expert e with r rows, its parts in one of the orders. *)
Orders == {<<1, 2, 3, 4, 5, 6>>, <<6, 5, 1, 3, 2, 4>>}
Expert(e, r, ord) ==
  [k \in 1..6 |-> Entry(Part(e, ord[k]), "U8", IF ord[k] % 2 = 1 THEN <<r, 2>> ELSE <<r, 1>>)]

Gap == Entry(<<"gap">>, "U8", <<1>>)
Meta == [name |-> Metadata]

-----------------------------------------------------------------------------
(* Layers: one tensor missing, doubled, alone in another shard, behind a   *)
(* gap, of another dtype (or two of them), too long or of another rank.    *)
Plain(k) == LET q == Plans[k] IN Vec([i \in 1..Len(q) |-> Released(q[i])])

LayerDirs(k) ==
  LET p == Plain(k)
      n == Len(p)
      dt(i, d) == [p EXCEPT ![i].dtype = d]
      one(es) == <<File(es, 0)>>
  IN  {one(p), <<File(Expert(0, 1, <<1, 2, 3, 4, 5, 6>>), 0), File(p, 0)>>}
      \cup UNION {{ one(RemoveAt(p, i)), one(Append(p, p[i])), one(InsertAt(p, i, Gap)),
                    <<File(RemoveAt(p, i), 0), File(<<p[i]>>, 1)>>,
                    one([p EXCEPT ![i].shape = Append(@, 1)]),
                    one([p EXCEPT ![i].shape[1] = @ + 1]),
                    one(dt(i, "F32")), one(dt(i, "BF16")), one(dt(i, "F16")), one(dt(i, "U8")),
                    one([dt(i, "F32") EXCEPT ![n].dtype = "F32"]) } : i \in 1..n}

(* Experts and loose tensors: parts in order or not, apart, of different   *)
(* sizes, in different shards; files cut short.                            *)
Loose == <<Entry(<<"a">>, "BF16", <<3>>), Entry(<<"b">>, "U8", <<5>>), Entry(<<"f">>, "F32", <<1>>)>>

ExpertDirs ==
  LET two(o0, o1, r) == Expert(0, 1, o0) \o Expert(1, r, o1)
  IN  {<<File(Loose \o two(o, o, r), from)>> : o \in Orders, r \in {1, 3}, from \in {0, 2}}
      \cup {<<File(InsertAt(two(o, o, 1), g, Gap), 0)>> : o \in Orders, g \in {1, 5, 9}}
      \cup {<<File(RemoveAt(two(o, o, 1), g), 0), File(<<two(o, o, 1)[g]>>, 1)>> : o \in Orders, g \in {7, 10}}
      \cup {<<[File(two(o, o, 1), 0) EXCEPT !.fsize = @ - cut]>> : o \in Orders, cut \in {1, 20}}
      \cup {<<[File(Loose, 0) EXCEPT !.entries = <<Meta>> \o @ \o <<Meta>>]>>}

MCDirs(k) == LayerDirs(k) \cup (IF k = [what |-> "layer", mla |-> FALSE, dense |-> FALSE] THEN ExpertDirs ELSE {})

(* The names of a layer's tensors, each with its place in the plan. *)
Places == UNION {LET q == Plans[k] IN {<<q[i].name, i>> : i \in 1..Len(q)} : k \in Kinds}

MCNames == {<<"a">>, <<"b">>, <<"f">>, <<"gap">>} \cup {Part(e, k) : e \in {0, 1}, k \in 1..6}
           \cup {p[1] : p \in Places}
MCSample == {<<"a">>, <<"b">>, <<"f">>}

(* The parts of experts and the loose tensors collide in the last bucket,  *)
(* the tensors of a layer with a neighbour or two.                         *)
Place(n) == (CHOOSE p \in Places : p[1] = n)[2]
MCHashes == {[n \in MCNames |-> IF n[1] \in {"lay", "kda", "mla", "moe", "model"}
                                THEN 2 * (Place(n) \div 2) ELSE 1023]}
=============================================================================
