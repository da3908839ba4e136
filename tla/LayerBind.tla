----------------------------- MODULE LayerBind -----------------------------
(***************************************************************************)
(* src/src/model/k3_bind.c: the tensors of a decoder layer, or those       *)
(* outside the layers, are found, sized, laid out in one allocation and    *)
(* read (k3_bind_layer, k3_bind_model), or those of a layer are pointed at *)
(* in a packed run of the trunk (k3_bind_layer_mem), which                 *)
(* tools/pack_trunk.py wrote from the same checkpoint and                  *)
(* tools/int8_trunk.py may have quantised.  Matrices keep the checkpoint's *)
(* storage format, which one tag per layer names; vectors become fp32.     *)
(***************************************************************************)
EXTENDS Shards

CONSTANTS c,          \* K3Cfg, the dimensions
          Dirs(_),    \* the checkpoints a layer of a kind may come with
          Slack       \* the 4096 of k3_bind_widen_bytes

(* A layer, as k3_is_mla and k3_is_dense tell, or the model level. *)
Kinds == [what : {"layer"}, mla : BOOLEAN, dense : BOOLEAN]
         \cup [what : {"model"}, want_lm_head : BOOLEAN]

ASSUME CheckpointsAssumption == \A k \in Kinds : Dirs(k) \subseteq Seq(Files)

ASSUME CfgAssumption ==
  /\ c \in [hidden : Nat, kda_heads : Nat, kda_head_dim : Nat, conv_k : Nat, n_heads : Nat,
            q_lora : Nat, kv_lora : Nat, qk_nope : Nat, qk_rope : Nat, v_head : Nat,
            mla_out_gate : BOOLEAN, n_experts : Nat, latent : Nat, moe_inter : Nat,
            n_shared : Nat, dense_inter : Nat, vocab : Nat]
  /\ Slack \in Nat

VARIABLES plan_layer, \* the requests, never changed
          bound,      \* the layer as k3_bind_layer left it, or the model
          streamed    \* the layer as k3_bind_layer_mem left it

bindVars == <<plan_layer, bound, streamed>>

-----------------------------------------------------------------------------
reqw(s, f, n) == <<[name |-> <<s, f>>, narrow |-> FALSE, want |-> n, take |-> n]>>
reqn(s, f, n) == <<[name |-> <<s, f>>, narrow |-> TRUE, want |-> n, take |-> n]>>
Prefix(r, n) == <<[r[1] EXCEPT !.take = n]>>

plan_mla ==
  LET qh == c.qk_nope + c.qk_rope
      nv == c.n_heads * c.v_head
  IN  reqn("mla", "q_a", c.q_lora * c.hidden) \o reqw("mla", "q_a_norm", c.q_lora)
      \o reqn("mla", "q_b", c.n_heads * qh * c.q_lora)
      \o reqn("mla", "kv_a", (c.kv_lora + c.qk_rope) * c.hidden)
      \o reqw("mla", "kv_a_norm", c.kv_lora)
      \o reqn("mla", "kv_b", c.n_heads * (c.qk_nope + c.v_head) * c.kv_lora)
      \o reqn("mla", "o", c.hidden * nv)
      \o (IF c.mla_out_gate THEN reqn("mla", "g", nv * c.hidden) ELSE <<>>)

plan_kda ==
  LET p == c.kda_heads * c.kda_head_dim
      proj(f) == reqn("kda", f, p * c.hidden)
      conv(f) == reqw("kda", f, p * c.conv_k)
  IN  proj("q") \o proj("k") \o proj("v") \o proj("g") \o proj("o")
      \o conv("q_conv") \o conv("k_conv") \o conv("v_conv")
      \o reqn("kda", "f_a", c.kda_head_dim * c.hidden)
      \o reqn("kda", "f_b", p * c.kda_head_dim) \o reqn("kda", "b", c.kda_heads * c.hidden)
      \o Prefix(reqw("kda", "A_log", c.kda_head_dim), c.kda_heads)
      \o reqw("kda", "dt_bias", p) \o reqw("kda", "o_norm", c.kda_head_dim)

plan_mlp(dense) ==
  IF dense
  THEN reqn("lay", "dense_gate", c.dense_inter * c.hidden)
       \o reqn("lay", "dense_up", c.dense_inter * c.hidden)
       \o reqn("lay", "dense_down", c.hidden * c.dense_inter)
  ELSE LET si == c.moe_inter * c.n_shared
       IN  reqw("moe", "gate", c.n_experts * c.hidden) \o reqw("moe", "bias", c.n_experts)
           \o reqn("moe", "down", c.latent * c.hidden) \o reqn("moe", "up", c.hidden * c.latent)
           \o reqw("moe", "latent_norm", c.latent) \o reqn("moe", "sh1", si * c.hidden)
           \o reqn("moe", "sh3", si * c.hidden) \o reqn("moe", "sh2", c.hidden * si)

plan_model(want_lm_head) ==
  LET norm(f) == reqw("model", f, c.hidden)
      matrix(f) == reqn("model", f, c.vocab * c.hidden)
  IN  matrix("embed") \o norm("norm") \o norm("out_res_norm") \o norm("out_res_proj")
      \o (IF want_lm_head THEN matrix("lm_head") ELSE <<>>)

plan(k) ==
  LET norm(f) == reqw("lay", f, c.hidden)
  IN  norm("in_norm") \o norm("post_norm") \o norm("attn_res_norm") \o norm("attn_res_proj")
      \o norm("mlp_res_norm") \o norm("mlp_res_proj")
      \o (IF k.mla THEN plan_mla ELSE plan_kda) \o plan_mlp(k.dense)

Plans == [k \in Kinds |-> IF k.what = "model" THEN plan_model(k.want_lm_head) ELSE plan(k)]

(* What a caller may ask for. *)
ASSUME NamesAssumption ==
  /\ Sample \subseteq Names
  /\ \A e \in 0..(NExperts - 1), k \in 1..6 : Part(e, k) \in Names
  /\ \A k \in Kinds : \A i \in 1..Len(Plans[k]) : Plans[k][i].name \in Names

NReq == Len(plan_layer)
Reqs == 1..NReq

-----------------------------------------------------------------------------
(* A field of the bound layer: n elements of a tensor, from its first one, *)
(* held in the format fmt at [off, off + bytes) of an allocation.          *)
Field(area, off, fmt, t, n, bytes) ==
  [area |-> area, off |-> off, fmt |-> fmt, t |-> t.name, n |-> n, bytes |-> bytes]

Unbound == [ok |-> FALSE]
align8(x) == ((x + 7) \div 8) * 8

(* Mutant: the demoted tensor is widened on its own. *)
Demoted_Alone(tn) == FALSE

(* Mutant: an fp32 vector demotes the matrices too. *)
Demoted_ByVector(tn) == \E i \in Reqs : tn[i].dtype # "BF16"

Demoted(tn) == \E i \in Reqs : plan_layer[i].narrow /\ tn[i].dtype # "BF16"

(* Mutant: a narrow tensor is given room for its count of bytes, not of    *)
(* elements.                                                               *)
Width_Byte(narrow) == IF narrow THEN 1 ELSE 4
Width(narrow) == IF narrow THEN 2 ELSE 4

(* plan_resolve: every tensor is there with the size the engine expects;   *)
(* then the layout, at bf16 or, if any matrix is not, all at fp32.         *)
ResolveOk(tn) ==
  \A i \in Reqs : tn[i] # None /\ numel(tn[i]) = plan_layer[i].want
                  /\ plan_layer[i].take <= numel(tn[i])

Layout(tn, narrow_ok) ==
  LET narrow(i) == plan_layer[i].narrow /\ narrow_ok /\ tn[i].dtype = "BF16"
      end[i \in 0..NReq] ==
        IF i = 0 THEN 0 ELSE align8(end[i - 1]) + plan_layer[i].take * Width(narrow(i))
  IN  [need |-> end[NReq],
       field |-> Vec([i \in Reqs |->
          Field("blob", align8(end[i - 1]), IF narrow(i) THEN "BF16" ELSE "F32", tn[i],
                plan_layer[i].take, IF narrow(i) THEN tn[i].nbytes ELSE plan_layer[i].take * 4)])]

Loaded ==
  LET tn == Vec([i \in Reqs |-> st_find(plan_layer[i].name)])
      narrow_ok == ~Demoted(tn)
      lay == Layout(tn, narrow_ok)
  IN  IF ResolveOk(tn)
      THEN [ok |-> TRUE, wdt |-> IF narrow_ok THEN "BF16" ELSE "F32",
            nbytes |-> lay.need, field |-> lay.field]
      ELSE Unbound

(* k3_bind_layer, k3_bind_model; an allocation or a read may fail. *)
BindLayer ==
  /\ st.phase = "open" /\ io = Idle /\ ~bound.ok
  /\ bound' \in {Unbound, Loaded}
  /\ UNCHANGED <<shardVars, plan_layer, streamed>>

(* k3_bind_free, k3_bind_model_free. *)
BindFree == bound.ok /\ bound' = Unbound /\ UNCHANGED <<shardVars, plan_layer, streamed>>

(* k3_st_close comes last: the trunk is closed and the layers are free. *)
BindCloses ==
  /\ ~bound.ok /\ Close
  /\ streamed' = Unbound
  /\ UNCHANGED <<plan_layer, bound>>

-----------------------------------------------------------------------------
(* The packers.  A layer is packed when its tensors tile one run of one    *)
(* shard, byte for byte; int8_trunk.py then rewrites every bf16 matrix row *)
(* by row as a scale and its bytes, and moves what comes behind it.        *)
Mine ==
  LET names == {plan_layer[i].name : i \in Reqs}
      m[k \in 0..Len(st.t)] ==
        IF k = 0 THEN <<>>
        ELSE IF st.t[k].name \in names THEN Append(m[k - 1], st.t[k]) ELSE m[k - 1]
  IN  m[Len(st.t)]

Packable ==
  LET m == Mine
      ks == 1..Len(m)
  IN  /\ m # <<>> /\ \A k \in ks : m[k].shard = m[1].shard
      /\ Max({m[k].off + m[k].nbytes : k \in ks}) - Min({m[k].off : k \in ks})
           = Sums([k \in ks |-> m[k].nbytes])[Len(m)]

Packed(int8, t) ==
  IF int8 /\ t.dtype = "BF16" /\ Len(t.shape) = 2
  THEN [name |-> t.name, dtype |-> "I8R", nbytes |-> t.shape[1] * (4 + t.shape[2])]
  ELSE [name |-> t.name, dtype |-> t.dtype, nbytes |-> t.nbytes]

PackedRun(int8) ==
  LET m == Mine
      pk == Vec([k \in 1..Len(m) |-> Packed(int8, m[k])])
      before(k) ==
        Sums([j \in 1..Len(m) |-> IF m[j].off < m[k].off THEN pk[j].nbytes ELSE 0])[Len(m)]
  IN  Vec([k \in 1..Len(m) |-> [name |-> pk[k].name, dtype |-> pk[k].dtype,
                                 nbytes |-> pk[k].nbytes, off |-> before(k)]])

find_in_layer(run, name) ==
  LET at == {k \in 1..Len(run) : run[k].name = name}
  IN  IF at = {} THEN None ELSE run[Min(at)]

widen_bytes ==
  4 * (6 * c.hidden + c.q_lora + c.kv_lora + c.latent + c.n_experts * c.hidden) + Slack

(* How one request is served from the run: in place, through the widen     *)
(* area, or not at all.                                                    *)
I8Rows(q, e) == (e.nbytes - q.take) \div 4

Serve(q, e) ==
  LET have == e.nbytes \div (CASE e.dtype = "F32" -> 4 [] e.dtype = "U8" -> 1 [] OTHER -> 2)
  IN  IF e = None THEN "refuse"
      ELSE IF e.dtype = "I8R"
      THEN IF q.narrow THEN "place"
           ELSE IF /\ (e.nbytes - q.take) % 4 = 0 /\ I8Rows(q, e) > 0
                   /\ q.take % I8Rows(q, e) = 0 THEN "widen" ELSE "refuse"
      ELSE IF have # q.want \/ q.take > have THEN "refuse"
      ELSE IF (q.narrow /\ e.dtype = "BF16") \/ e.dtype = "F32" THEN "place"
      ELSE IF e.dtype = "BF16" THEN "widen" ELSE "refuse"

(* How far the widen area is used after each request. *)
WidenEnds(how) ==
  LET end[i \in 0..NReq] == IF i = 0 THEN 0
                            ELSE IF how[i] = "widen" THEN align8(end[i - 1]) + 4 * plan_layer[i].take
                            ELSE end[i - 1]
  IN  end

Streamed(int8) ==
  LET run == PackedRun(int8)
      q == plan_layer
      e == Vec([i \in Reqs |-> find_in_layer(run, q[i].name)])
      how == Vec([i \in Reqs |-> Serve(q[i], e[i])])
      end == WidenEnds(how)
      i8_seen == \E i \in Reqs : q[i].narrow /\ e[i].dtype = "I8R"
      narrowed_all == \A i \in Reqs : q[i].narrow => e[i].dtype \in {"BF16", "I8R"}
  IN  IF \/ \E i \in Reqs : how[i] = "refuse"
         \/ end[NReq] > widen_bytes \/ (~narrowed_all /\ ~i8_seen)
      THEN Unbound
      ELSE [ok |-> TRUE, wdt |-> IF i8_seen THEN "I8R" ELSE "BF16", int8 |-> int8,
            nbytes |-> widen_bytes,
            field |-> Vec([i \in Reqs |->
               IF how[i] = "widen"
               THEN Field("widen", align8(end[i - 1]), "F32", e[i], q[i].take, 4 * q[i].take)
               ELSE Field("run", e[i].off, e[i].dtype, e[i], q[i].take, e[i].nbytes)])]

(* k3_bind_layer_mem on the run of the packed trunk. *)
BindMem(int8) ==
  /\ st.phase = "open" /\ io = Idle /\ Packable
  /\ plan_layer[1].name[1] # "model"             \* only layers are packed
  /\ streamed' = Streamed(int8)
  /\ UNCHANGED <<shardVars, plan_layer, bound>>

-----------------------------------------------------------------------------
BindInit ==
  /\ \E k \in Kinds : plan_layer = Plans[k] /\ dir \in Dirs(k)
  /\ ShardsInit
  /\ bound = Unbound /\ streamed = Unbound

BindNext ==
  \/ ShardsNext /\ UNCHANGED bindVars
  \/ BindLayer \/ BindFree \/ BindCloses
  \/ \E int8 \in BOOLEAN : BindMem(int8)

BindSpec == BindInit /\ [][BindNext]_<<shardVars, bindVars>>

-----------------------------------------------------------------------------
(* Every matrix of a bound layer is stored in the format the layer's tag   *)
(* names, which is how k3_mmw will read it, and every vector is fp32: a    *)
(* matrix that the checkpoint holds in another format is not read under    *)
(* the wrong tag.  For an int8 trunk this is claimed when all matrices of  *)
(* the checkpoint are bf16, as int8_trunk.py expects.                      *)
AllMatricesBF16 ==
  LET matrices == {plan_layer[i].name : i \in {j \in Reqs : plan_layer[j].narrow}}
  IN  \A k \in 1..Len(st.t) :
        st.t[k].name \in matrices => st.t[k].dtype = "BF16" /\ Len(st.t[k].shape) = 2

AsTagged(b) ==
  b.ok => \A i \in Reqs : b.field[i].fmt = IF plan_layer[i].narrow THEN b.wdt ELSE "F32"

TagTellsFormat ==
  /\ AsTagged(bound)
  /\ streamed.ok /\ (streamed.int8 => AllMatricesBF16) => AsTagged(streamed)

(* No two fields of a layer share bytes, each is whole in its allocation   *)
(* and aligned for its format.                                             *)
LaidOut(b) ==
  b.ok =>
    /\ \A i, j \in Reqs :
         i # j /\ b.field[i].area = b.field[j].area =>
           \/ b.field[i].off + b.field[i].bytes <= b.field[j].off
           \/ b.field[j].off + b.field[j].bytes <= b.field[i].off
    /\ \A i \in Reqs : b.field[i].area # "run" =>
         b.field[i].off % 8 = 0 /\ b.field[i].off + b.field[i].bytes <= b.nbytes

FieldsDisjoint == LaidOut(bound) /\ LaidOut(streamed)

(* A layer streamed from an unquantised trunk is the layer loaded from the *)
(* checkpoint: the same tensor and count behind every field, under the     *)
(* same tag.                                                               *)
StreamedEqualsLoaded ==
  bound.ok /\ streamed.ok /\ ~streamed.int8 =>
    /\ bound.wdt = streamed.wdt
    /\ \A i \in Reqs : bound.field[i].t = streamed.field[i].t
                       /\ bound.field[i].n = streamed.field[i].n
                       /\ bound.field[i].fmt = streamed.field[i].fmt
=============================================================================
