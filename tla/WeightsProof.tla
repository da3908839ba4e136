---------------------------- MODULE WeightsProof ----------------------------
(***************************************************************************)
(* Proofs about the checkpoint reader and the binding of layers (Shards,   *)
(* LayerBind).                                                             *)
(***************************************************************************)
EXTENDS LayerBind, ShardsProof

(* What a step of the composition does to the reader. *)
LEMMA ReaderSteps ==
  ASSUME [BindNext]_<<shardVars, bindVars>>
  PROVE  ShardsNext \/ Close \/ UNCHANGED shardVars
<1>1. BindLayer \/ BindFree => UNCHANGED shardVars
  BY Zenon DEF BindLayer, BindFree
<1>2. BindCloses => Close
  BY Zenon DEF BindCloses
<1>3. ASSUME NEW int8, BindMem(int8) PROVE UNCHANGED shardVars
  BY Zenon, <1>3 DEF BindMem
<1> QED BY Zenon, <1>1, <1>2, <1>3 DEF BindNext

(* The fields of K3St keep their meaning through every open, refusal and   *)
(* close.                                                                  *)
THEOREM StAlways == BindSpec => [](StInv /\ DescriptorsOwned)
<1>1. BindInit => StInv /\ DescriptorsOwned
  <2> SUFFICES ASSUME BindInit PROVE StInv /\ DescriptorsOwned
    OBVIOUS
  <2>1. PICK k \in Kinds : dir \in Dirs(k)
    BY Zenon DEF BindInit
  <2>2. dir \in Seq(Files)
    BY Zenon, <2>1, CheckpointsAssumption
  <2> QED BY Zenon, <2>2, InitStInv DEF BindInit
<1>2. StInv /\ DescriptorsOwned /\ [BindNext]_<<shardVars, bindVars>> => (StInv /\ DescriptorsOwned)'
  BY Zenon, ReaderSteps, NextStInv
<1> QED BY <1>1, <1>2, PTL DEF BindSpec

(* DescriptorsOwned, for any number of shards with any headers: a refused  *)
(* checkpoint leaves no descriptor open, and none is closed under a        *)
(* structure that still records it.                                        *)
THEOREM DescriptorsAlwaysOwned == BindSpec => []DescriptorsOwned
BY StAlways, PTL

(* FindExact, for every hash function, number of tensors and header: a     *)
(* lookup is never lost behind a collision or the end of the table.        *)
THEOREM FindAlwaysExact == BindSpec => []FindExact
<1>1. StInv => FindExact
  BY Zenon, FindsAll
<1> QED BY <1>1, StAlways, PTL

(* CountHonest, for every layout of the parts, every split of a read into  *)
(* preads, every pread that fails and every chunk size of at least four    *)
(* bytes: a read that returns the full count has put every byte where it   *)
(* belongs, and one that does not has told so.  The parts of an expert are *)
(* taken to have bytes: were the part that ends the run empty, a run cut   *)
(* short before it would miss nothing and still return less.               *)
THEOREM CountAlwaysHonest == BindSpec => [](NoEmptyPart => CountHonest)
<1>1. BindInit => ReadInv(io)
  BY Zenon DEF BindInit, ShardsInit, ReadInv
<1>2. Callers
  BY Zenon, NamesAssumption DEF Callers
<1>3. StInv /\ ReadInv(io) /\ [BindNext]_<<shardVars, bindVars>> => ReadInv(io)'
  BY Zenon, <1>2, ReaderSteps, NextReadInv
<1>4. ReadInv(io) => (NoEmptyPart => CountHonest)
  BY Zenon, Honest
<1> QED BY <1>1, <1>3, <1>4, StAlways, PTL DEF BindSpec


-----------------------------------------------------------------------------
(* The requests of a plan.                                                 *)
Requests(S) == [name : S, narrow : BOOLEAN, want : Nat, take : Nat]

(* Names of one part of a layer. *)
Of(a, F) == {<<a, f>> : f \in F}

(* A matrix is taken whole; no tensor is asked for twice. *)
Asks(s, S) ==
  /\ s \in Seq(Requests(S))
  /\ \A i \in 1..Len(s) : s[i].narrow => s[i].take = s[i].want
  /\ \A i, j \in 1..Len(s) : i # j => s[i].name # s[j].name

LEMMA RequestIs ==
  ASSUME NEW S, NEW r \in Requests(S)
  PROVE  r.name \in S /\ r.narrow \in BOOLEAN /\ r.want \in Nat /\ r.take \in Nat
BY DEF Requests

LEMMA AsksAmong ==
  ASSUME NEW s, NEW S, NEW T, Asks(s, S), S \subseteq T
  PROVE  Asks(s, T)
<1>1. Requests(S) \subseteq Requests(T)
  BY DEF Requests
<1>2. s \in Seq(Requests(S))
  BY Zenon DEF Asks
<1>3. s \in Seq(Requests(T))
  BY <1>1, <1>2
<1> QED BY Zenon, <1>3 DEF Asks

LEMMA AsksBoth ==
  ASSUME NEW s, NEW t, NEW S, NEW T, Asks(s, S), Asks(t, T), S \cap T = {}
  PROVE  Asks(s \o t, S \cup T)
<1> DEFINE R == Requests(S \cup T)
           u == s \o t
           m == Len(s)
<1>1. s \in Seq(R) /\ t \in Seq(R)
  BY Zenon, AsksAmong DEF Asks
<1>2. s \in Seq(Requests(S)) /\ t \in Seq(Requests(T))
  BY Zenon DEF Asks
<1> HIDE DEF R
<1>3. u \in Seq(R) /\ Len(u) = m + Len(t) /\ m \in Nat /\ Len(t) \in Nat
  BY <1>1
<1>4. \A i \in 1..Len(u) : \/ i \in 1..m /\ u[i] = s[i]
                           \/ i - m \in 1..Len(t) /\ u[i] = t[i - m]
  BY <1>1
<1>5. (\A i \in 1..m : s[i] \in Requests(S)) /\ \A i \in 1..Len(t) : t[i] \in Requests(T)
  BY <1>2
<1> HIDE DEF u
<1>6. \A i \in 1..m : s[i].name \in S /\ (s[i].narrow => s[i].take = s[i].want)
  BY Zenon, <1>5, RequestIs DEF Asks
<1>7. \A i \in 1..Len(t) : t[i].name \in T /\ (t[i].narrow => t[i].take = t[i].want)
  BY Zenon, <1>5, RequestIs DEF Asks
<1> HIDE DEF m
<1>8. ASSUME NEW i \in 1..Len(u) PROVE u[i].narrow => u[i].take = u[i].want
  BY Zenon, <1>4, <1>6, <1>7
<1>9. ASSUME NEW i \in 1..Len(u), NEW j \in 1..Len(u), i # j PROVE u[i].name # u[j].name
  <2>1. CASE i \in 1..m /\ u[i] = s[i] /\ j \in 1..m /\ u[j] = s[j]
    BY Zenon, <1>9, <2>1 DEF Asks, m
  <2>2. CASE /\ i - m \in 1..Len(t) /\ u[i] = t[i - m]
             /\ j - m \in 1..Len(t) /\ u[j] = t[j - m]
    <3>1. i - m # j - m
      BY ONLY <1>9, <1>3, i \in 1..Len(u), j \in 1..Len(u)
    <3> QED BY Zenon, <2>2, <3>1 DEF Asks
  <2>3. CASE \/ u[i].name \in S /\ u[j].name \in T
             \/ u[i].name \in T /\ u[j].name \in S
    BY Zenon, <2>3
  <2> QED BY Zenon, <1>4, <1>6, <1>7, <2>1, <2>2, <2>3
<1>10. Asks(u, S \cup T)
  BY Zenon, <1>3, <1>8, <1>9 DEF Asks, R
<1> QED BY Zenon, <1>10 DEF u

(* One request of each kind. *)
LEMMA AsksOne ==
  ASSUME NEW a, NEW f, NEW n \in Nat
  PROVE  Asks(reqw(a, f, n), Of(a, {f})) /\ Asks(reqn(a, f, n), Of(a, {f}))
<1>1. ASSUME NEW narrow \in BOOLEAN
      PROVE  Asks(<<[name |-> <<a, f>>, narrow |-> narrow, want |-> n, take |-> n]>>, Of(a, {f}))
  <2> DEFINE r == [name |-> <<a, f>>, narrow |-> narrow, want |-> n, take |-> n]
  <2>1. r \in Requests(Of(a, {f})) /\ r.take = r.want
    BY DEF Requests, Of
  <2> HIDE DEF r
  <2>2. <<r>> \in Seq(Requests(Of(a, {f}))) /\ Len(<<r>>) = 1 /\ <<r>>[1] = r
    BY <2>1
  <2>3. \A i \in 1..1 : i = 1
    OBVIOUS
  <2>4. Asks(<<r>>, Of(a, {f}))
    BY Zenon, <2>1, <2>2, <2>3 DEF Asks
  <2> QED BY Zenon, <2>4 DEF r
<1> QED BY <1>1, Zenon DEF reqw, reqn

LEMMA AsksPrefix ==
  ASSUME NEW a, NEW f, NEW n \in Nat, NEW m \in Nat
  PROVE  Asks(Prefix(reqw(a, f, n), m), Of(a, {f}))
<1> DEFINE q == [name |-> <<a, f>>, narrow |-> FALSE, want |-> n, take |-> n]
           r == [q EXCEPT !.take = m]
<1>1. q \in Requests(Of(a, {f})) /\ ~q.narrow
  BY DEF Requests, Of
<1>2. reqw(a, f, n) = <<q>>
  BY Zenon DEF reqw
<1> HIDE DEF q
<1>3. r \in Requests(Of(a, {f})) /\ r.narrow = q.narrow
  BY <1>1 DEF Requests
<1>4. <<q>>[1] = q
  OBVIOUS
<1>5. Prefix(reqw(a, f, n), m) = <<r>>
  BY Zenon, <1>2, <1>4 DEF Prefix
<1> HIDE DEF r
<1>6. <<r>> \in Seq(Requests(Of(a, {f}))) /\ Len(<<r>>) = 1 /\ <<r>>[1] = r
  BY <1>3
<1>7. \A i \in 1..1 : i = 1
  OBVIOUS
<1> QED BY Zenon, <1>1, <1>3, <1>5, <1>6, <1>7 DEF Asks

(* The next request of the same part of a layer. *)
LEMMA AsksNext ==
  ASSUME NEW a, NEW F, NEW s, Asks(s, Of(a, F)),
         NEW f, f \notin F, NEW t, Asks(t, Of(a, {f}))
  PROVE  Asks(s \o t, Of(a, F \cup {f}))
<1>1. Of(a, F) \cap Of(a, {f}) = {}
  <2>1. ASSUME NEW g, <<a, g>> = <<a, f>> PROVE g = f
    BY <2>1
  <2> QED BY Zenon, <2>1 DEF Of
<1>2. Of(a, F) \cup Of(a, {f}) = Of(a, F \cup {f})
  BY Zenon DEF Of
<1>3. Asks(s \o t, Of(a, F) \cup Of(a, {f}))
  BY Zenon, <1>1, AsksBoth
<1> QED BY Zenon, <1>2, <1>3


LEMMA AsksMore ==
  ASSUME NEW a, NEW F, NEW s, Asks(s, Of(a, F)),
         NEW f, f \notin F, NEW n \in Nat
  PROVE  /\ Asks(s \o reqw(a, f, n), Of(a, F \cup {f}))
         /\ Asks(s \o reqn(a, f, n), Of(a, F \cup {f}))
BY Zenon, AsksOne, AsksNext

(* The dimensions are numbers, and so are their products. *)
LEMMA CfgNat ==
  /\ c.hidden \in Nat /\ c.kda_heads \in Nat /\ c.kda_head_dim \in Nat /\ c.conv_k \in Nat
  /\ c.n_heads \in Nat /\ c.q_lora \in Nat /\ c.kv_lora \in Nat /\ c.qk_nope \in Nat
  /\ c.qk_rope \in Nat /\ c.v_head \in Nat /\ c.n_experts \in Nat /\ c.latent \in Nat
  /\ c.moe_inter \in Nat /\ c.n_shared \in Nat /\ c.dense_inter \in Nat /\ c.vocab \in Nat
  /\ c.mla_out_gate \in BOOLEAN /\ Slack \in Nat
BY CfgAssumption

(* The requests of an MLA layer. *)
LEMMA PlanMla ==
  \E F : Asks(plan_mla, Of("mla", F))
<1> DEFINE qh == c.qk_nope + c.qk_rope
           nv == c.n_heads * c.v_head
           s1 == reqn("mla", "q_a", c.q_lora * c.hidden)
           s2 == s1 \o reqw("mla", "q_a_norm", c.q_lora)
           s3 == s2 \o reqn("mla", "q_b", c.n_heads * qh * c.q_lora)
           s4 == s3 \o reqn("mla", "kv_a", (c.kv_lora + c.qk_rope) * c.hidden)
           s5 == s4 \o reqw("mla", "kv_a_norm", c.kv_lora)
           s6 == s5 \o reqn("mla", "kv_b", c.n_heads * (c.qk_nope + c.v_head) * c.kv_lora)
           s7 == s6 \o reqn("mla", "o", c.hidden * nv)
           s8 == s7 \o reqn("mla", "g", nv * c.hidden)
           F1 == {"q_a"}
           F2 == F1 \cup {"q_a_norm"}
           F3 == F2 \cup {"q_b"}
           F4 == F3 \cup {"kv_a"}
           F5 == F4 \cup {"kv_a_norm"}
           F6 == F5 \cup {"kv_b"}
           F7 == F6 \cup {"o"}
           F8 == F7 \cup {"g"}
<1>1. /\ c.q_lora * c.hidden \in Nat /\ c.q_lora \in Nat /\ c.n_heads * qh * c.q_lora \in Nat
      /\ (c.kv_lora + c.qk_rope) * c.hidden \in Nat /\ c.kv_lora \in Nat /\ c.n_heads * (c.qk_nope + c.v_head) * c.kv_lora \in Nat
      /\ c.hidden * nv \in Nat /\ nv * c.hidden \in Nat
  BY CfgNat
<1>2. /\ "q_a_norm" \notin F1 /\ "q_b" \notin F2 /\ "kv_a" \notin F3
      /\ "kv_a_norm" \notin F4 /\ "kv_b" \notin F5 /\ "o" \notin F6
      /\ "g" \notin F7
  OBVIOUS
<1> HIDE DEF s1, s2, s3, s4, s5, s6, s7, s8, F1, F2, F3, F4, F5, F6, F7, F8
<1>3. Asks(s1, Of("mla", F1))
  BY Zenon, <1>1, <1>2, AsksOne DEF s1, F1
<1>4. Asks(s2, Of("mla", F2))
  BY Zenon, <1>1, <1>2, <1>3, AsksMore DEF s2, F2
<1>5. Asks(s3, Of("mla", F3))
  BY Zenon, <1>1, <1>2, <1>4, AsksMore DEF s3, F3
<1>6. Asks(s4, Of("mla", F4))
  BY Zenon, <1>1, <1>2, <1>5, AsksMore DEF s4, F4
<1>7. Asks(s5, Of("mla", F5))
  BY Zenon, <1>1, <1>2, <1>6, AsksMore DEF s5, F5
<1>8. Asks(s6, Of("mla", F6))
  BY Zenon, <1>1, <1>2, <1>7, AsksMore DEF s6, F6
<1>9. Asks(s7, Of("mla", F7))
  BY Zenon, <1>1, <1>2, <1>8, AsksMore DEF s7, F7
<1>10. Asks(s8, Of("mla", F8))
  BY Zenon, <1>1, <1>2, <1>9, AsksMore DEF s8, F8
<1>11. plan_mla = IF c.mla_out_gate THEN s8 ELSE s7 \o <<>>
  BY Zenon DEF plan_mla, s1, s2, s3, s4, s5, s6, s7, s8
<1>12. s7 \o <<>> = s7
  BY <1>9 DEF Asks
<1> QED BY Zenon, <1>9, <1>10, <1>11, <1>12

(* The requests of a KDA layer. *)
LEMMA PlanKda ==
  \E F : Asks(plan_kda, Of("kda", F))
<1> DEFINE p == c.kda_heads * c.kda_head_dim
           s1 == reqn("kda", "q", p * c.hidden)
           s2 == s1 \o reqn("kda", "k", p * c.hidden)
           s3 == s2 \o reqn("kda", "v", p * c.hidden)
           s4 == s3 \o reqn("kda", "g", p * c.hidden)
           s5 == s4 \o reqn("kda", "o", p * c.hidden)
           s6 == s5 \o reqw("kda", "q_conv", p * c.conv_k)
           s7 == s6 \o reqw("kda", "k_conv", p * c.conv_k)
           s8 == s7 \o reqw("kda", "v_conv", p * c.conv_k)
           s9 == s8 \o reqn("kda", "f_a", c.kda_head_dim * c.hidden)
           s10 == s9 \o reqn("kda", "f_b", p * c.kda_head_dim)
           s11 == s10 \o reqn("kda", "b", c.kda_heads * c.hidden)
           s12 == s11 \o Prefix(reqw("kda", "A_log", c.kda_head_dim), c.kda_heads)
           s13 == s12 \o reqw("kda", "dt_bias", p)
           s14 == s13 \o reqw("kda", "o_norm", c.kda_head_dim)
           F1 == {"q"}
           F2 == F1 \cup {"k"}
           F3 == F2 \cup {"v"}
           F4 == F3 \cup {"g"}
           F5 == F4 \cup {"o"}
           F6 == F5 \cup {"q_conv"}
           F7 == F6 \cup {"k_conv"}
           F8 == F7 \cup {"v_conv"}
           F9 == F8 \cup {"f_a"}
           F10 == F9 \cup {"f_b"}
           F11 == F10 \cup {"b"}
           F12 == F11 \cup {"A_log"}
           F13 == F12 \cup {"dt_bias"}
           F14 == F13 \cup {"o_norm"}
<1>1. /\ p \in Nat /\ c.kda_heads \in Nat /\ c.kda_head_dim \in Nat
      /\ p * c.hidden \in Nat /\ p * c.conv_k \in Nat /\ c.kda_head_dim * c.hidden \in Nat
      /\ p * c.kda_head_dim \in Nat /\ c.kda_heads * c.hidden \in Nat
  BY CfgNat
<1>2. /\ "k" \notin F1 /\ "v" \notin F2 /\ "g" \notin F3
      /\ "o" \notin F4 /\ "q_conv" \notin F5 /\ "k_conv" \notin F6
      /\ "v_conv" \notin F7 /\ "f_a" \notin F8 /\ "f_b" \notin F9
      /\ "b" \notin F10 /\ "A_log" \notin F11 /\ "dt_bias" \notin F12
      /\ "o_norm" \notin F13
  OBVIOUS
<1> HIDE DEF s1, s2, s3, s4, s5, s6, s7, s8, s9, s10, s11, s12, s13, s14, F1, F2, F3, F4, F5, F6, F7, F8, F9, F10, F11, F12, F13, F14
<1>3. Asks(s1, Of("kda", F1))
  BY Zenon, <1>1, <1>2, AsksOne DEF s1, F1
<1>4. Asks(s2, Of("kda", F2))
  BY Zenon, <1>1, <1>2, <1>3, AsksMore DEF s2, F2
<1>5. Asks(s3, Of("kda", F3))
  BY Zenon, <1>1, <1>2, <1>4, AsksMore DEF s3, F3
<1>6. Asks(s4, Of("kda", F4))
  BY Zenon, <1>1, <1>2, <1>5, AsksMore DEF s4, F4
<1>7. Asks(s5, Of("kda", F5))
  BY Zenon, <1>1, <1>2, <1>6, AsksMore DEF s5, F5
<1>8. Asks(s6, Of("kda", F6))
  BY Zenon, <1>1, <1>2, <1>7, AsksMore DEF s6, F6
<1>9. Asks(s7, Of("kda", F7))
  BY Zenon, <1>1, <1>2, <1>8, AsksMore DEF s7, F7
<1>10. Asks(s8, Of("kda", F8))
  BY Zenon, <1>1, <1>2, <1>9, AsksMore DEF s8, F8
<1>11. Asks(s9, Of("kda", F9))
  BY Zenon, <1>1, <1>2, <1>10, AsksMore DEF s9, F9
<1>12. Asks(s10, Of("kda", F10))
  BY Zenon, <1>1, <1>2, <1>11, AsksMore DEF s10, F10
<1>13. Asks(s11, Of("kda", F11))
  BY Zenon, <1>1, <1>2, <1>12, AsksMore DEF s11, F11
<1>14. Asks(s12, Of("kda", F12))
  BY Zenon, <1>1, <1>2, <1>13, AsksPrefix, AsksNext DEF s12, F12
<1>15. Asks(s13, Of("kda", F13))
  BY Zenon, <1>1, <1>2, <1>14, AsksMore DEF s13, F13
<1>16. Asks(s14, Of("kda", F14))
  BY Zenon, <1>1, <1>2, <1>15, AsksMore DEF s14, F14
<1>17. plan_kda = s14
  BY Zenon DEF plan_kda, s1, s2, s3, s4, s5, s6, s7, s8, s9, s10, s11, s12, s13, s14
<1> QED BY Zenon, <1>16, <1>17

(* The requests of an MoE. *)
LEMMA PlanMoe ==
  \E F : Asks(plan_mlp(FALSE), Of("moe", F))
<1> DEFINE si == c.moe_inter * c.n_shared
           s1 == reqw("moe", "gate", c.n_experts * c.hidden)
           s2 == s1 \o reqw("moe", "bias", c.n_experts)
           s3 == s2 \o reqn("moe", "down", c.latent * c.hidden)
           s4 == s3 \o reqn("moe", "up", c.hidden * c.latent)
           s5 == s4 \o reqw("moe", "latent_norm", c.latent)
           s6 == s5 \o reqn("moe", "sh1", si * c.hidden)
           s7 == s6 \o reqn("moe", "sh3", si * c.hidden)
           s8 == s7 \o reqn("moe", "sh2", c.hidden * si)
           F1 == {"gate"}
           F2 == F1 \cup {"bias"}
           F3 == F2 \cup {"down"}
           F4 == F3 \cup {"up"}
           F5 == F4 \cup {"latent_norm"}
           F6 == F5 \cup {"sh1"}
           F7 == F6 \cup {"sh3"}
           F8 == F7 \cup {"sh2"}
<1>1. /\ c.n_experts * c.hidden \in Nat /\ c.n_experts \in Nat /\ c.latent * c.hidden \in Nat
      /\ c.hidden * c.latent \in Nat /\ c.latent \in Nat /\ si * c.hidden \in Nat
      /\ c.hidden * si \in Nat
  BY CfgNat
<1>2. /\ "bias" \notin F1 /\ "down" \notin F2 /\ "up" \notin F3
      /\ "latent_norm" \notin F4 /\ "sh1" \notin F5 /\ "sh3" \notin F6
      /\ "sh2" \notin F7
  OBVIOUS
<1> HIDE DEF s1, s2, s3, s4, s5, s6, s7, s8, F1, F2, F3, F4, F5, F6, F7, F8
<1>3. Asks(s1, Of("moe", F1))
  BY Zenon, <1>1, <1>2, AsksOne DEF s1, F1
<1>4. Asks(s2, Of("moe", F2))
  BY Zenon, <1>1, <1>2, <1>3, AsksMore DEF s2, F2
<1>5. Asks(s3, Of("moe", F3))
  BY Zenon, <1>1, <1>2, <1>4, AsksMore DEF s3, F3
<1>6. Asks(s4, Of("moe", F4))
  BY Zenon, <1>1, <1>2, <1>5, AsksMore DEF s4, F4
<1>7. Asks(s5, Of("moe", F5))
  BY Zenon, <1>1, <1>2, <1>6, AsksMore DEF s5, F5
<1>8. Asks(s6, Of("moe", F6))
  BY Zenon, <1>1, <1>2, <1>7, AsksMore DEF s6, F6
<1>9. Asks(s7, Of("moe", F7))
  BY Zenon, <1>1, <1>2, <1>8, AsksMore DEF s7, F7
<1>10. Asks(s8, Of("moe", F8))
  BY Zenon, <1>1, <1>2, <1>9, AsksMore DEF s8, F8
<1>11. plan_mlp(FALSE) = s8
  BY Zenon DEF plan_mlp, s1, s2, s3, s4, s5, s6, s7, s8
<1> QED BY Zenon, <1>10, <1>11

(* The requests of a dense layer. *)
LEMMA PlanDense ==
  Asks(plan_mlp(TRUE), Of("lay", {"dense_gate", "dense_up", "dense_down"}))
<1> DEFINE s1 == reqn("lay", "dense_gate", c.dense_inter * c.hidden)
           s2 == s1 \o reqn("lay", "dense_up", c.dense_inter * c.hidden)
           s3 == s2 \o reqn("lay", "dense_down", c.hidden * c.dense_inter)
           F1 == {"dense_gate"}
           F2 == F1 \cup {"dense_up"}
           F3 == F2 \cup {"dense_down"}
<1>1. /\ c.dense_inter * c.hidden \in Nat /\ c.hidden * c.dense_inter \in Nat
  BY CfgNat
<1>2. /\ "dense_up" \notin F1 /\ "dense_down" \notin F2
  OBVIOUS
<1> HIDE DEF s1, s2, s3, F1, F2, F3
<1>3. Asks(s1, Of("lay", F1))
  BY Zenon, <1>1, <1>2, AsksOne DEF s1, F1
<1>4. Asks(s2, Of("lay", F2))
  BY Zenon, <1>1, <1>2, <1>3, AsksMore DEF s2, F2
<1>5. Asks(s3, Of("lay", F3))
  BY Zenon, <1>1, <1>2, <1>4, AsksMore DEF s3, F3
<1>6. plan_mlp(TRUE) = s3
  BY Zenon DEF plan_mlp, s1, s2, s3
<1>7. F3 = {"dense_gate", "dense_up", "dense_down"}
  BY Zenon DEF F1, F2, F3
<1> QED BY Zenon, <1>5, <1>6, <1>7

(* The requests outside the layers. *)
LEMMA PlanModel ==
  ASSUME NEW want \in BOOLEAN
  PROVE  \E F : Asks(plan_model(want), Of("model", F))
<1> DEFINE s1 == reqn("model", "embed", c.vocab * c.hidden)
           s2 == s1 \o reqw("model", "norm", c.hidden)
           s3 == s2 \o reqw("model", "out_res_norm", c.hidden)
           s4 == s3 \o reqw("model", "out_res_proj", c.hidden)
           s5 == s4 \o reqn("model", "lm_head", c.vocab * c.hidden)
           F1 == {"embed"}
           F2 == F1 \cup {"norm"}
           F3 == F2 \cup {"out_res_norm"}
           F4 == F3 \cup {"out_res_proj"}
           F5 == F4 \cup {"lm_head"}
<1>1. /\ c.hidden \in Nat /\ c.vocab * c.hidden \in Nat
  BY CfgNat
<1>2. /\ "norm" \notin F1 /\ "out_res_norm" \notin F2 /\ "out_res_proj" \notin F3
      /\ "lm_head" \notin F4
  OBVIOUS
<1> HIDE DEF s1, s2, s3, s4, s5, F1, F2, F3, F4, F5
<1>3. Asks(s1, Of("model", F1))
  BY Zenon, <1>1, <1>2, AsksOne DEF s1, F1
<1>4. Asks(s2, Of("model", F2))
  BY Zenon, <1>1, <1>2, <1>3, AsksMore DEF s2, F2
<1>5. Asks(s3, Of("model", F3))
  BY Zenon, <1>1, <1>2, <1>4, AsksMore DEF s3, F3
<1>6. Asks(s4, Of("model", F4))
  BY Zenon, <1>1, <1>2, <1>5, AsksMore DEF s4, F4
<1>7. Asks(s5, Of("model", F5))
  BY Zenon, <1>1, <1>2, <1>6, AsksMore DEF s5, F5
<1>8. plan_model(want) = IF want THEN s5 ELSE s4 \o <<>>
  BY Zenon DEF plan_model, s1, s2, s3, s4, s5
<1>9. s4 \o <<>> = s4
  BY <1>6 DEF Asks
<1> QED BY Zenon, <1>6, <1>7, <1>8, <1>9


LayerNorms ==
  reqw("lay", "in_norm", c.hidden) \o reqw("lay", "post_norm", c.hidden)
  \o reqw("lay", "attn_res_norm", c.hidden) \o reqw("lay", "attn_res_proj", c.hidden)
  \o reqw("lay", "mlp_res_norm", c.hidden) \o reqw("lay", "mlp_res_proj", c.hidden)

(* The norms of every layer. *)
LEMMA PlanNorms ==
  Asks(LayerNorms, Of("lay", {"in_norm", "post_norm", "attn_res_norm", "attn_res_proj", "mlp_res_norm", "mlp_res_proj"}))
<1> DEFINE s1 == reqw("lay", "in_norm", c.hidden)
           s2 == s1 \o reqw("lay", "post_norm", c.hidden)
           s3 == s2 \o reqw("lay", "attn_res_norm", c.hidden)
           s4 == s3 \o reqw("lay", "attn_res_proj", c.hidden)
           s5 == s4 \o reqw("lay", "mlp_res_norm", c.hidden)
           s6 == s5 \o reqw("lay", "mlp_res_proj", c.hidden)
           F1 == {"in_norm"}
           F2 == F1 \cup {"post_norm"}
           F3 == F2 \cup {"attn_res_norm"}
           F4 == F3 \cup {"attn_res_proj"}
           F5 == F4 \cup {"mlp_res_norm"}
           F6 == F5 \cup {"mlp_res_proj"}
<1>1. /\ c.hidden \in Nat
  BY CfgNat
<1>2. /\ "post_norm" \notin F1 /\ "attn_res_norm" \notin F2 /\ "attn_res_proj" \notin F3
      /\ "mlp_res_norm" \notin F4 /\ "mlp_res_proj" \notin F5
  OBVIOUS
<1> HIDE DEF s1, s2, s3, s4, s5, s6, F1, F2, F3, F4, F5, F6
<1>3. Asks(s1, Of("lay", F1))
  BY Zenon, <1>1, <1>2, AsksOne DEF s1, F1
<1>4. Asks(s2, Of("lay", F2))
  BY Zenon, <1>1, <1>2, <1>3, AsksMore DEF s2, F2
<1>5. Asks(s3, Of("lay", F3))
  BY Zenon, <1>1, <1>2, <1>4, AsksMore DEF s3, F3
<1>6. Asks(s4, Of("lay", F4))
  BY Zenon, <1>1, <1>2, <1>5, AsksMore DEF s4, F4
<1>7. Asks(s5, Of("lay", F5))
  BY Zenon, <1>1, <1>2, <1>6, AsksMore DEF s5, F5
<1>8. Asks(s6, Of("lay", F6))
  BY Zenon, <1>1, <1>2, <1>7, AsksMore DEF s6, F6
<1>9. LayerNorms = s6
  BY Zenon DEF LayerNorms, s1, s2, s3, s4, s5, s6
<1>10. F6 = {"in_norm", "post_norm", "attn_res_norm", "attn_res_proj", "mlp_res_norm", "mlp_res_proj"}
  BY Zenon DEF F1, F2, F3, F4, F5, F6
<1> QED BY Zenon, <1>8, <1>9, <1>10

LEMMA OfApart ==
  ASSUME NEW a, NEW b, NEW F, NEW G, a # b \/ F \cap G = {}
  PROVE  Of(a, F) \cap Of(b, G) = {}
<1>1. \A f, g : <<a, f>> = <<b, g>> => a = b /\ f = g
  OBVIOUS
<1>2. ASSUME NEW x, x \in Of(a, F), x \in Of(b, G) PROVE FALSE
  <2>1. PICK f \in F : x = <<a, f>>
    BY Zenon, <1>2 DEF Of
  <2>2. PICK g \in G : x = <<b, g>>
    BY Zenon, <1>2 DEF Of
  <2>3. a = b /\ f = g
    BY Zenon, <1>1, <2>1, <2>2
  <2> QED BY Zenon, <2>3
<1> QED BY Zenon, <1>2

(* Every plan: no tensor is asked for twice. *)
LEMMA PlansAsk ==
  ASSUME NEW k \in Kinds
  PROVE  \E S : Asks(Plans[k], S)
<1> DEFINE N == {"in_norm", "post_norm", "attn_res_norm", "attn_res_proj", "mlp_res_norm", "mlp_res_proj"}
           D == {"dense_gate", "dense_up", "dense_down"}
<1>1. Plans[k] = IF k.what = "model" THEN plan_model(k.want_lm_head) ELSE plan(k)
  BY Zenon DEF Plans
<1>2. \/ k.what = "model" /\ k.want_lm_head \in BOOLEAN
      \/ k.what # "model" /\ k.mla \in BOOLEAN /\ k.dense \in BOOLEAN
  BY DEF Kinds
<1>3. CASE k.what = "model"
  <2>1. k.want_lm_head \in BOOLEAN
    BY Zenon, <1>2, <1>3
  <2> QED BY Zenon, <1>1, <1>3, <2>1, PlanModel
<1>4. CASE k.what # "model"
  <2> DEFINE attn == IF k.mla THEN plan_mla ELSE plan_kda
  <2>1. k.mla \in BOOLEAN /\ k.dense \in BOOLEAN
    BY Zenon, <1>2, <1>4
  <2>2. Plans[k] = (LayerNorms \o attn) \o plan_mlp(k.dense)
    BY Zenon, <1>1, <1>4 DEF plan, LayerNorms
  <2>3. PICK a, F : Asks(attn, Of(a, F)) /\ a \in {"mla", "kda"}
    <3>1. "mla" \in {"mla", "kda"} /\ "kda" \in {"mla", "kda"}
      OBVIOUS
    <3> QED BY Zenon, <3>1, PlanMla, PlanKda
  <2>4. PICK b, G : Asks(plan_mlp(k.dense), Of(b, G)) /\ (b = "moe" \/ (b = "lay" /\ G = D))
    <3>1. k.dense = TRUE \/ k.dense = FALSE
      BY Zenon, <2>1
    <3>2. CASE k.dense = TRUE
      BY Zenon, <3>2, PlanDense
    <3>3. CASE k.dense = FALSE
      BY Zenon, <3>3, PlanMoe
    <3> QED BY Zenon, <3>1, <3>2, <3>3
  <2>5. Asks(LayerNorms, Of("lay", N))
    BY Zenon, PlanNorms
  <2>6. N \cap D = {} /\ "lay" # a /\ a # b /\ "lay" # "moe"
    BY <2>3, <2>4
  <2> HIDE DEF N, D, attn
  <2>7. Of("lay", N) \cap Of(a, F) = {}
    BY Zenon, <2>6, OfApart
  <2>8. Asks(LayerNorms \o attn, Of("lay", N) \cup Of(a, F))
    BY Zenon, <2>3, <2>5, <2>7, AsksBoth
  <2>9. (Of("lay", N) \cup Of(a, F)) \cap Of(b, G) = {}
    <3>1. Of(a, F) \cap Of(b, G) = {}
      BY Zenon, <2>6, OfApart
    <3>2. "lay" # b \/ N \cap G = {}
      BY Zenon, <2>4, <2>6
    <3>3. Of("lay", N) \cap Of(b, G) = {}
      BY Zenon, <3>2, OfApart
    <3> QED BY Zenon, <3>1, <3>3
  <2> DEFINE S == Of("lay", N) \cup Of(a, F)
             T == Of(b, G)
             u == LayerNorms \o attn
  <2>10. Asks(u, S) /\ Asks(plan_mlp(k.dense), T) /\ S \cap T = {}
    BY Zenon, <2>4, <2>8, <2>9
  <2> HIDE DEF S, T, u
  <2>11. Asks(u \o plan_mlp(k.dense), S \cup T)
    BY Zenon, <2>10, AsksBoth
  <2> QED BY Zenon, <2>2, <2>11 DEF u
<1> QED BY Zenon, <1>3, <1>4


-----------------------------------------------------------------------------
(* The layout of k3_bind_layer.                                            *)
LEMMA Align8Is ==
  ASSUME NEW a \in Nat
  PROVE  align8(a) \in Nat /\ align8(a) >= a /\ align8(a) % 8 = 0
<1> DEFINE q == (a + 7) \div 8
<1>1. q \in Nat /\ q * 8 >= a
  OBVIOUS
<1>2. align8(a) = q * 8
  BY Zenon DEF align8
<1> HIDE DEF q
<1>3. (q * 8) % 8 = 0
  BY <1>1
<1> QED BY <1>1, <1>2, <1>3

(* Ends that grow. *)
Grows(end, N) ==
  end \in [0..N -> Nat] /\ \A i \in 1..N : end[i] >= end[i - 1]

LEMMA GrowsOn ==
  ASSUME NEW N \in Nat, NEW end, Grows(end, N), NEW i \in 0..N, NEW j \in 0..N, i <= j
  PROVE  end[i] <= end[j]
<1> DEFINE S == {m \in 0..N : i <= m => end[i] <= end[m]}
<1>1. \A m \in 0..N : end[m] \in Nat
  BY Zenon DEF Grows
<1>2. 0 \in S
  <2>1. i <= 0 => i = 0
    OBVIOUS
  <2>2. end[0] <= end[0] /\ 0 \in 0..N
    BY <1>1
  <2> QED BY <2>1, <2>2
<1>3. ASSUME NEW m \in 1..N, m - 1 \in S PROVE m \in S
  <2>1. end[m] >= end[m - 1] /\ m - 1 \in 0..N /\ m \in 0..N
    <3>1. m - 1 \in 0..N /\ m \in 0..N
      OBVIOUS
    <3> QED BY Zenon, <3>1 DEF Grows
  <2>2. CASE i = m
    BY <1>1, <2>1, <2>2
  <2>3. CASE i # m
    <3>1. i <= m => i <= m - 1
      BY ONLY <2>3, i \in 0..N, m \in 1..N
    <3>2. i <= m => end[i] <= end[m - 1]
      BY Zenon, <1>3, <3>1
    <3>3. end[i] \in Nat /\ end[m] \in Nat /\ end[m - 1] \in Nat
      BY Zenon, <1>1, <2>1
    <3>4. i <= m => end[i] <= end[m]
      BY ONLY <2>1, <3>2, <3>3
    <3> QED BY Zenon, <2>1, <3>4
  <2> QED BY Zenon, <2>2, <2>3
<1> HIDE DEF S
<1>4. j \in S
  BY Zenon, <1>2, <1>3, UpTo
<1> QED BY Zenon, <1>4 DEF S

(* Blocks apart from each other and aligned. *)
Separate(end, N, A, off, bytes) ==
  /\ \A i, j \in A : i # j => \/ off[i] + bytes[i] <= off[j]
                              \/ off[j] + bytes[j] <= off[i]
  /\ \A i \in A : off[i] % 8 = 0 /\ off[i] + bytes[i] <= end[N]

(* Blocks that start behind the end before and stop at their own end. *)
Blocks(end, N, A, off, bytes) ==
  \A i \in A : /\ i \in 1..N /\ off[i] = align8(end[i - 1]) /\ bytes[i] \in Nat
               /\ off[i] + bytes[i] <= end[i]

LEMMA BlocksApart ==
  ASSUME NEW N \in Nat, NEW end, Grows(end, N), NEW A, NEW off, NEW bytes,
         Blocks(end, N, A, off, bytes)
  PROVE  Separate(end, N, A, off, bytes)
<1>1. \A m \in 0..N : end[m] \in Nat
  BY Zenon DEF Grows
<1>2. ASSUME NEW i \in A
      PROVE  /\ i \in 1..N /\ i - 1 \in 0..N /\ i \in 0..N /\ off[i] = align8(end[i - 1])
             /\ bytes[i] \in Nat /\ off[i] + bytes[i] <= end[i]
  <2>1. i \in 1..N
    BY Zenon DEF Blocks
  <2>2. i - 1 \in 0..N /\ i \in 0..N
    BY <2>1
  <2> QED BY Zenon, <2>1, <2>2 DEF Blocks
<1>3. ASSUME NEW i \in A, NEW j \in A, i < j PROVE off[i] + bytes[i] <= off[j]
  <2>1. i <= j - 1
    BY ONLY <1>2, <1>3
  <2>2. end[i] <= end[j - 1]
    BY Zenon, <1>2, <2>1, GrowsOn
  <2>3. end[i] \in Nat /\ end[j - 1] \in Nat /\ end[i - 1] \in Nat
    BY Zenon, <1>1, <1>2
  <2>4. off[j] \in Nat /\ off[j] >= end[j - 1] /\ off[i] \in Nat
    BY Zenon, <1>2, <2>3, Align8Is
  <2> QED BY ONLY <2>2, <2>3, <2>4, <1>2
<1>4. ASSUME NEW i \in A PROVE off[i] % 8 = 0 /\ off[i] + bytes[i] <= end[N]
  <2>1. end[i - 1] \in Nat /\ end[i] \in Nat /\ end[N] \in Nat /\ N \in 0..N /\ i <= N
    <3>1. N \in 0..N /\ i <= N
      BY <1>2
    <3> QED BY Zenon, <1>1, <1>2, <3>1
  <2>2. end[i] <= end[N]
    BY Zenon, <1>2, <2>1, GrowsOn
  <2>3. off[i] % 8 = 0 /\ off[i] \in Nat
    BY Zenon, <1>2, <2>1, Align8Is
  <2>4. off[i] + bytes[i] <= end[N]
    BY ONLY <1>2, <2>1, <2>2, <2>3
  <2> QED BY Zenon, <2>3, <2>4
<1>5. ASSUME NEW i \in A, NEW j \in A, i # j PROVE i < j \/ j < i
  BY ONLY <1>2, <1>5
<1> QED BY Zenon, <1>3, <1>4, <1>5 DEF Separate


(* Request i is kept as bf16. *)
Narrow(tn, nok, i) == plan_layer[i].narrow /\ nok /\ tn[i].dtype = "BF16"

LayoutBy(tn, nok, end) ==
  /\ end[0] = 0
  /\ \A i \in Reqs : end[i] = align8(end[i - 1]) + plan_layer[i].take * Width(Narrow(tn, nok, i))
  /\ Layout(tn, nok) =
       [need |-> end[NReq],
        field |-> [i \in Reqs |->
          Field("blob", align8(end[i - 1]), IF Narrow(tn, nok, i) THEN "BF16" ELSE "F32", tn[i],
                plan_layer[i].take,
                IF Narrow(tn, nok, i) THEN tn[i].nbytes ELSE plan_layer[i].take * 4)]]

LEMMA AskedIs ==
  ASSUME NEW S, NEW p, Asks(p, S), NEW i \in 1..Len(p)
  PROVE  p[i].name \in S /\ p[i].narrow \in BOOLEAN /\ p[i].want \in Nat /\ p[i].take \in Nat
<1>1. p \in Seq(Requests(S))
  BY Zenon DEF Asks
<1>2. p[i] \in Requests(S)
  BY <1>1
<1> QED BY Zenon, <1>2, RequestIs

LEMMA LayoutIs ==
  ASSUME NEW S, Asks(plan_layer, S), NEW tn, NEW nok \in BOOLEAN
  PROVE  \E end : Grows(end, NReq) /\ LayoutBy(tn, nok, end)
<1> DEFINE N == NReq
           room(i) == plan_layer[i].take * Width(Narrow(tn, nok, i))
           g == [x \in (1..N) \X Nat |-> align8(x[2]) + room(x[1])]
           Eq(u) == u = [i \in 0..N |-> IF i = 0 THEN 0 ELSE align8(u[i - 1]) + room(i)]
           end == CHOOSE u : Eq(u)
           fields(e) == [i \in Reqs |->
             Field("blob", align8(e[i - 1]), IF Narrow(tn, nok, i) THEN "BF16" ELSE "F32", tn[i],
                   plan_layer[i].take,
                   IF Narrow(tn, nok, i) THEN tn[i].nbytes ELSE plan_layer[i].take * 4)]
<1>1. N \in Nat /\ Reqs = 1..N /\ 0 \in Nat
  <2>1. plan_layer \in Seq(Requests(S))
    BY Zenon DEF Asks
  <2>2. Len(plan_layer) \in Nat
    BY <2>1
  <2> QED BY <2>2 DEF NReq, Reqs
<1>2. ASSUME NEW i \in 1..N PROVE room(i) \in Nat
  <2>1. plan_layer[i].take \in Nat
    BY Zenon, AskedIs DEF NReq
  <2>2. Width(Narrow(tn, nok, i)) \in Nat
    BY DEF Width
  <2> HIDE DEF Narrow
  <2> QED BY <2>1, <2>2
<1>3. Layout(tn, nok) = [need |-> end[N], field |-> Vec(fields(end))]
  BY Zenon DEF Layout, Narrow
<1> HIDE DEF room
<1>4. g \in [(1..N) \X Nat -> Nat] /\ \A i \in 1..N, a \in Nat : g[<<i, a>>] = align8(a) + room(i)
  <2>1. ASSUME NEW x \in (1..N) \X Nat PROVE align8(x[2]) + room(x[1]) \in Nat
    <3>1. x[1] \in 1..N /\ x[2] \in Nat
      OBVIOUS
    <3>2. room(x[1]) \in Nat /\ align8(x[2]) \in Nat
      BY Zenon, <1>2, <3>1, Align8Is
    <3> QED BY ONLY <3>2
  <2>2. g \in [(1..N) \X Nat -> Nat]
    BY Zenon, <2>1
  <2>3. ASSUME NEW i \in 1..N, NEW a \in Nat PROVE g[<<i, a>>] = align8(a) + room(i)
    <3>1. <<i, a>> \in (1..N) \X Nat /\ <<i, a>>[1] = i /\ <<i, a>>[2] = a
      OBVIOUS
    <3> QED BY Zenon, <3>1
  <2> QED BY Zenon, <2>2, <2>3
<1> HIDE DEF g
<1>5. PICK u : Steps(u, N, Nat, 0, g)
  BY Zenon, <1>1, <1>4, Recursion
<1>6. Eq(u)
  <2>1. ASSUME NEW i \in 1..N PROVE u[i] = align8(u[i - 1]) + room(i)
    <3>1. i - 1 \in 0..N
      BY <1>1
    <3>2. u[i - 1] \in Nat
      BY Zenon, <1>5, <3>1 DEF Steps
    <3> QED BY Zenon, <1>4, <1>5, <3>2 DEF Steps
  <2>2. \A i \in 0..N : i # 0 => i \in 1..N
    BY <1>1
  <2>3. \A i \in 0..N : u[i] = IF i = 0 THEN 0 ELSE align8(u[i - 1]) + room(i)
    BY Zenon, <1>5, <2>1, <2>2 DEF Steps
  <2> QED BY Zenon, <1>5, <2>3 DEF Steps
<1>7. Eq(end)
  <2> HIDE DEF Eq
  <2> QED BY Zenon, <1>6
<1>8. end[0] = 0 /\ \A i \in 1..N : end[i] = align8(end[i - 1]) + room(i)
  <2> HIDE DEF end
  <2>1. (\A i \in 1..N : i \in 0..N /\ i # 0) /\ 0 \in 0..N
    BY <1>1
  <2> QED BY Zenon, <1>7, <2>1
<1>9. DOMAIN end = 0..N
  <2> HIDE DEF end
  <2> QED BY Zenon, <1>7
<1> HIDE DEF end
<1>10. \A i \in 0..N : end[i] \in Nat
  <2> DEFINE T == {i \in 0..N : end[i] \in Nat}
  <2>1. 0 \in T
    BY <1>1, <1>8
  <2>2. ASSUME NEW i \in 1..N, i - 1 \in T PROVE i \in T
    <3>1. end[i] = align8(end[i - 1]) + room(i) /\ end[i - 1] \in Nat
      BY Zenon, <1>8, <2>2
    <3>2. room(i) \in Nat /\ align8(end[i - 1]) \in Nat
      BY Zenon, <1>2, <3>1, Align8Is
    <3>3. end[i] \in Nat /\ i \in 0..N
      BY ONLY <3>1, <3>2, <1>1, i \in 1..N
    <3> QED BY Zenon, <3>3
  <2> HIDE DEF T
  <2>3. \A i \in 0..N : i \in T
    BY Zenon, <1>1, <2>1, <2>2, UpTo
  <2> QED BY Zenon, <2>3 DEF T
<1>11. Grows(end, N)
  <2>1. end \in [0..N -> Nat]
    <3>1. end = [i \in 0..N |-> end[i]]
      <4>1. end = [i \in 0..N |-> IF i = 0 THEN 0 ELSE align8(end[i - 1]) + room(i)]
        BY Zenon, <1>7
      <4> QED BY Zenon, <4>1
    <3> QED BY Zenon, <3>1, <1>10
  <2>2. ASSUME NEW i \in 1..N PROVE end[i] >= end[i - 1]
    <3>1. i - 1 \in 0..N
      BY <1>1
    <3>2. end[i] = align8(end[i - 1]) + room(i) /\ end[i - 1] \in Nat /\ room(i) \in Nat
      BY Zenon, <1>2, <1>8, <1>10, <3>1
    <3>3. align8(end[i - 1]) \in Nat /\ align8(end[i - 1]) >= end[i - 1]
      BY Zenon, <3>2, Align8Is
    <3> QED BY ONLY <3>2, <3>3
  <2> QED BY Zenon, <2>1, <2>2 DEF Grows
<1>12. Vec(fields(end)) = fields(end)
  <2> DEFINE f == fields(end)
  <2>1. f = [i \in 1..N |-> f[i]]
    BY Zenon, <1>1
  <2> HIDE DEF f
  <2>2. Vec(f) = f
    BY Zenon, <1>1, <2>1, VecIs
  <2> QED BY Zenon, <2>2 DEF f
<1>13. LayoutBy(tn, nok, end)
  BY Zenon, <1>1, <1>3, <1>8, <1>12 DEF LayoutBy, room
<1> QED BY Zenon, <1>11, <1>13


(* What is known of a plan, and of a layer bound after it. *)
PlanOk(p) == (\E S : Asks(p, S)) /\ \A i \in 1..Len(p) : p[i].name \in Names

AllBF16(p, t) ==
  \A i \in 1..Len(p), k \in 1..Len(t) : p[i].narrow /\ t[k].name = p[i].name => t[k].dtype = "BF16"

Serves(p, b) == \A i \in 1..Len(p) : b.field[i].t = p[i].name /\ b.field[i].n = p[i].take

Tagged(p, b) ==
  \A i \in 1..Len(p) : b.field[i].fmt = IF p[i].narrow THEN b.wdt ELSE "F32"

Laid(p, b) ==
  /\ \A i, j \in 1..Len(p) :
       i # j /\ b.field[i].area = b.field[j].area =>
         \/ b.field[i].off + b.field[i].bytes <= b.field[j].off
         \/ b.field[j].off + b.field[j].bytes <= b.field[i].off
  /\ \A i \in 1..Len(p) : b.field[i].area # "run" =>
       b.field[i].off % 8 = 0 /\ b.field[i].off + b.field[i].bytes <= b.nbytes

BoundOk(p, t, b) ==
  b.ok => /\ Serves(p, b) /\ Tagged(p, b) /\ Laid(p, b)
          /\ b.wdt = IF AllBF16(p, t) THEN "BF16" ELSE "F32"

(* The tensors a plan finds. *)
LEMMA Resolves ==
  ASSUME StInv, st.phase = "open", PlanOk(plan_layer), NEW i \in Reqs,
         NEW t, t = st_find(plan_layer[i].name), t # None
  PROVE  /\ t \in Accepted /\ t.name = plan_layer[i].name
         /\ \A k \in 1..Len(st.t) : st.t[k].name = plan_layer[i].name => st.t[k] = t
<1>1. plan_layer[i].name \in Names
  BY Zenon DEF PlanOk, Reqs, NReq
<1>2. t \in Accepted
  BY Zenon, <1>1, FoundAccepted
<1>3. PICK k \in 1..Len(st.t) : /\ t = st.t[k] /\ st.t[k].name = plan_layer[i].name
                                /\ \A m \in 1..Len(st.t) : st.t[m].name = plan_layer[i].name => m = k
  BY Zenon, <1>1, FindIs
<1> QED BY Zenon, <1>2, <1>3

LEMMA FieldIs ==
  ASSUME NEW area, NEW off, NEW fmt, NEW t, NEW n, NEW bytes, NEW f,
         f = Field(area, off, fmt, t, n, bytes)
  PROVE  /\ f.area = area /\ f.off = off /\ f.fmt = fmt /\ f.t = t.name /\ f.n = n
         /\ f.bytes = bytes
BY DEF Field

LEMMA Elem16 == elemsize("BF16") = 2
BY DEF elemsize

(* A layer k3_bind_layer has bound. *)
LEMMA LoadedIs ==
  ASSUME StInv, st.phase = "open", PlanOk(plan_layer)
  PROVE  BoundOk(plan_layer, st.t, Loaded)
<1> DEFINE p == plan_layer
           find == [i \in Reqs |-> st_find(p[i].name)]
           tn == Vec(find)
           nok == ~Demoted(tn)
           lay == Layout(tn, nok)
           b == [ok |-> TRUE, wdt |-> IF nok THEN "BF16" ELSE "F32",
                 nbytes |-> lay.need, field |-> lay.field]
<1>1. PICK S : Asks(p, S)
  BY Zenon DEF PlanOk
<1>2. NReq \in Nat /\ Reqs = 1..NReq /\ NReq = Len(p)
  <2>1. p \in Seq(Requests(S))
    BY Zenon, <1>1 DEF Asks
  <2>2. Len(p) \in Nat
    BY <2>1
  <2> QED BY <2>2 DEF NReq, Reqs
<1>3. tn = find
  <2>1. find = [i \in 1..NReq |-> find[i]]
    BY Zenon, <1>2
  <2> HIDE DEF find
  <2> QED BY Zenon, <1>2, <2>1, VecIs
<1>4. \A i \in Reqs : tn[i] = st_find(p[i].name)
  BY Zenon, <1>3
<1>5. Loaded = IF ResolveOk(tn) THEN b ELSE Unbound
  BY Zenon DEF Loaded
<1> HIDE DEF tn
<1>6. CASE ~ResolveOk(tn)
  <2>1. ~Unbound.ok
    BY DEF Unbound
  <2> HIDE DEF b
  <2> QED BY Zenon, <1>5, <1>6, <2>1 DEF BoundOk
<1>7. CASE ResolveOk(tn)
  <2>1. PICK end : Grows(end, NReq) /\ LayoutBy(tn, nok, end)
    <3>1. nok \in BOOLEAN
      BY Zenon
    <3> QED BY Zenon, <1>1, <3>1, LayoutIs
  <2>2. ASSUME NEW i \in Reqs
        PROVE  /\ tn[i] \in Accepted /\ tn[i].name = p[i].name /\ numel(tn[i]) = p[i].want
               /\ \A k \in 1..Len(st.t) : st.t[k].name = p[i].name => st.t[k] = tn[i]
               /\ \E k \in 1..Len(st.t) : st.t[k] = tn[i]
    <3>1. tn[i] # None /\ numel(tn[i]) = p[i].want
      BY Zenon, <1>7 DEF ResolveOk
    <3>2. p[i].name \in Names
      BY Zenon, <1>2 DEF PlanOk
    <3>3. \E k \in 1..Len(st.t) : st.t[k] = tn[i]
      <4>1. tn[i] = st_find(p[i].name)
        BY Zenon, <1>4
      <4>2. st_find(p[i].name) # None
        BY Zenon, <3>1, <4>1
      <4>3. PICK k \in 1..Len(st.t) : st_find(p[i].name) = st.t[k]
        BY Zenon, <3>2, <4>2, FindIs
      <4> QED BY Zenon, <4>1, <4>3
    <3> QED BY Zenon, <1>4, <3>1, <3>3, Resolves
  <2>3. lay.need = end[NReq]
        /\ \A i \in Reqs : lay.field[i] =
             Field("blob", align8(end[i - 1]), IF Narrow(tn, nok, i) THEN "BF16" ELSE "F32", tn[i],
                   p[i].take, IF Narrow(tn, nok, i) THEN tn[i].nbytes ELSE p[i].take * 4)
    <3> DEFINE ff == [i \in Reqs |->
             Field("blob", align8(end[i - 1]), IF Narrow(tn, nok, i) THEN "BF16" ELSE "F32", tn[i],
                   p[i].take, IF Narrow(tn, nok, i) THEN tn[i].nbytes ELSE p[i].take * 4)]
    <3>1. lay = [need |-> end[NReq], field |-> ff]
      BY Zenon, <2>1 DEF LayoutBy
    <3> HIDE DEF lay, ff
    <3>2. lay.need = end[NReq] /\ lay.field = ff
      BY <3>1
    <3> QED BY Zenon, <3>2 DEF ff
  <2>4. b.ok /\ b.wdt = (IF nok THEN "BF16" ELSE "F32") /\ b.nbytes = end[NReq] /\ b.field = lay.field
    <3> HIDE DEF lay, nok
    <3> QED BY <2>3
  <2>5. nok <=> AllBF16(p, st.t)
    <3>1. nok <=> \A i \in Reqs : p[i].narrow => tn[i].dtype = "BF16"
      BY Zenon DEF Demoted
    <3> HIDE DEF nok
    <3>2. ASSUME nok, NEW i \in Reqs, NEW k \in 1..Len(st.t), p[i].narrow, st.t[k].name = p[i].name
          PROVE  st.t[k].dtype = "BF16"
      BY Zenon, <2>2, <3>1, <3>2
    <3>3. ASSUME AllBF16(p, st.t), NEW i \in Reqs, p[i].narrow PROVE tn[i].dtype = "BF16"
      <4>1. PICK k \in 1..Len(st.t) : st.t[k] = tn[i]
        BY Zenon, <2>2
      <4>2. st.t[k].name = p[i].name
        BY Zenon, <2>2, <4>1
      <4> QED BY Zenon, <1>2, <3>3, <4>1, <4>2 DEF AllBF16
    <3> QED BY Zenon, <1>2, <3>1, <3>2, <3>3 DEF AllBF16
  <2>6. \A i \in Reqs : nok /\ p[i].narrow => tn[i].dtype = "BF16"
    BY Zenon DEF Demoted
  <2> HIDE DEF lay, b, nok
  <2>7. ASSUME NEW i \in Reqs
        PROVE  /\ b.field[i].area = "blob" /\ b.field[i].off = align8(end[i - 1])
               /\ b.field[i].t = p[i].name /\ b.field[i].n = p[i].take
               /\ b.field[i].fmt = IF Narrow(tn, nok, i) THEN "BF16" ELSE "F32"
               /\ b.field[i].bytes = IF Narrow(tn, nok, i) THEN tn[i].nbytes ELSE p[i].take * 4
    <3> DEFINE at == align8(end[i - 1])
               fmt == IF Narrow(tn, nok, i) THEN "BF16" ELSE "F32"
               bytes == IF Narrow(tn, nok, i) THEN tn[i].nbytes ELSE p[i].take * 4
    <3>1. b.field[i] = Field("blob", at, fmt, tn[i], p[i].take, bytes)
      BY Zenon, <2>3, <2>4
    <3>2. tn[i].name = p[i].name
      BY Zenon, <2>2
    <3> HIDE DEF at, fmt, bytes, p
    <3>3. /\ b.field[i].area = "blob" /\ b.field[i].off = at /\ b.field[i].fmt = fmt
          /\ b.field[i].t = tn[i].name /\ b.field[i].n = p[i].take /\ b.field[i].bytes = bytes
      BY ONLY <3>1, FieldIs
    <3>4. /\ b.field[i].area = "blob" /\ b.field[i].off = at /\ b.field[i].fmt = fmt
          /\ b.field[i].t = p[i].name /\ b.field[i].n = p[i].take /\ b.field[i].bytes = bytes
      BY Zenon, <3>2, <3>3
    <3> QED BY Zenon, <3>4 DEF at, fmt, bytes
  <2>8. Serves(p, b)
    BY Zenon, <1>2, <2>7 DEF Serves
  <2>9. Tagged(p, b)
    <3>1. ASSUME NEW i \in Reqs PROVE b.field[i].fmt = IF p[i].narrow THEN b.wdt ELSE "F32"
      <4>1. Narrow(tn, nok, i) <=> p[i].narrow /\ nok
        BY Zenon, <2>6 DEF Narrow
      <4> QED BY Zenon, <2>4, <2>7, <4>1
    <3> QED BY Zenon, <1>2, <3>1 DEF Tagged
  <2>10. Laid(p, b)
    <3> DEFINE off == [i \in Reqs |-> b.field[i].off]
               bytes == [i \in Reqs |-> b.field[i].bytes]
    <3>1. ASSUME NEW i \in Reqs
          PROVE  bytes[i] \in Nat /\ off[i] + bytes[i] <= end[i]
      <4> DEFINE w == Width(Narrow(tn, nok, i))
                 e == align8(end[i - 1])
      <4>1. p[i].take \in Nat /\ (p[i].narrow => p[i].take = p[i].want)
        BY Zenon, <1>1, <1>2, AskedIs DEF Asks
      <4>2. end[i] = e + p[i].take * w
        BY Zenon, <2>1 DEF LayoutBy
      <4>3. bytes[i] = p[i].take * w /\ w \in Nat
        <5>1. CASE Narrow(tn, nok, i)
          <6>1. w = 2 /\ bytes[i] = tn[i].nbytes
            BY Zenon, <2>7, <5>1 DEF Width
          <6>2. elemsize(tn[i].dtype) = 2
            BY Zenon, <5>1, Elem16 DEF Narrow
          <6>3. tn[i].nbytes = numel(tn[i]) * elemsize(tn[i].dtype)
            BY Zenon, <2>2 DEF Accepted
          <6>4. numel(tn[i]) = p[i].take
            BY Zenon, <2>2, <4>1, <5>1 DEF Narrow
          <6>5. tn[i].nbytes = p[i].take * 2
            BY Zenon, <6>2, <6>3, <6>4
          <6>6. 2 \in Nat
            OBVIOUS
          <6> QED BY Zenon, <6>1, <6>5, <6>6
        <5>2. CASE ~Narrow(tn, nok, i)
          <6>1. 4 \in Nat
            OBVIOUS
          <6> QED BY Zenon, <2>7, <5>2, <6>1 DEF Width
        <5> QED BY Zenon, <5>1, <5>2
      <4>4. off[i] = e
        BY Zenon, <2>7
      <4>5. e \in Nat
        <5>1. i - 1 \in 0..NReq
          BY <1>2
        <5>2. end[i - 1] \in Nat
          BY Zenon, <2>1, <5>1 DEF Grows
        <5> QED BY Zenon, <5>2, Align8Is
      <4> HIDE DEF w, e, off, bytes
      <4>6. p[i].take * w \in Nat
        BY ONLY <4>1, <4>3
      <4> QED BY ONLY <4>2, <4>3, <4>4, <4>5, <4>6
    <3>2. Blocks(end, NReq, Reqs, off, bytes)
      <4>1. \A i \in Reqs : off[i] = align8(end[i - 1])
        BY Zenon, <2>7
      <4> HIDE DEF off, bytes
      <4> QED BY Zenon, <1>2, <3>1, <4>1 DEF Blocks
    <3>3. \A i \in Reqs : off[i] = b.field[i].off /\ bytes[i] = b.field[i].bytes
      BY Zenon
    <3> HIDE DEF off, bytes
    <3>4. Separate(end, NReq, Reqs, off, bytes)
      BY Zenon, <1>2, <2>1, <3>2, BlocksApart
    <3>5. ASSUME NEW i \in Reqs, NEW j \in Reqs, i # j
          PROVE  \/ b.field[i].off + b.field[i].bytes <= b.field[j].off
                 \/ b.field[j].off + b.field[j].bytes <= b.field[i].off
      BY Zenon, <3>3, <3>4, <3>5 DEF Separate
    <3>6. ASSUME NEW i \in Reqs
          PROVE  b.field[i].off % 8 = 0 /\ b.field[i].off + b.field[i].bytes <= b.nbytes
      BY Zenon, <2>4, <3>3, <3>4 DEF Separate
    <3> QED BY Zenon, <1>2, <3>5, <3>6 DEF Laid
  <2>11. BoundOk(p, st.t, b)
    BY Zenon, <2>4, <2>5, <2>8, <2>9, <2>10 DEF BoundOk
  <2> QED BY Zenon, <1>5, <1>7, <2>11
<1> QED BY Zenon, <1>6, <1>7


-----------------------------------------------------------------------------
(* The packed run.                                                         *)

(* The tensors of a plan. *)
Wanted(p, t) ==
  {t[k] : k \in {j \in 1..Len(t) : \E i \in 1..Len(p) : t[j].name = p[i].name}}

LEMMA MineIs ==
  ASSUME StInv
  PROVE  Mine \in Seq(Wanted(plan_layer, st.t))
<1> DEFINE N == Len(st.t)
           names == {plan_layer[i].name : i \in Reqs}
           V == Seq(Wanted(plan_layer, st.t))
           step(k, p) == IF st.t[k].name \in names THEN Append(p, st.t[k]) ELSE p
           g == [x \in (1..N) \X V |-> step(x[1], x[2])]
           Eq(u) == u = [k \in 0..N |-> IF k = 0 THEN <<>> ELSE step(k, u[k - 1])]
           m == CHOOSE u : Eq(u)
<1>1. N \in Nat /\ N \in 0..N
  <2>1. st.t \in Seq(Accepted)
    BY Zenon DEF StInv
  <2> QED BY <2>1
<1>2. Mine = m[N]
  BY Zenon DEF Mine
<1>3. ASSUME NEW k \in 1..N, st.t[k].name \in names PROVE st.t[k] \in Wanted(plan_layer, st.t)
  BY Zenon, <1>3 DEF Wanted, Reqs, NReq
<1>4. ASSUME NEW k \in 1..N, NEW p \in V PROVE step(k, p) \in V
  <2>1. ASSUME NEW W, NEW w \in W, NEW s \in Seq(W) PROVE Append(s, w) \in Seq(W)
    OBVIOUS
  <2> QED BY Zenon, <1>3, <2>1
<1>5. <<>> \in V
  OBVIOUS
<1> HIDE DEF V, step
<1>6. g \in [(1..N) \X V -> V] /\ \A k \in 1..N, p \in V : g[<<k, p>>] = step(k, p)
  BY <1>4
<1> HIDE DEF g
<1>7. PICK u : Steps(u, N, V, <<>>, g)
  BY Zenon, <1>1, <1>5, <1>6, Recursion
<1>8. Eq(u)
  <2>1. ASSUME NEW k \in 1..N PROVE u[k] = step(k, u[k - 1])
    <3>1. k - 1 \in 0..N
      BY <1>1
    <3>2. u[k - 1] \in V
      BY Zenon, <1>7, <3>1 DEF Steps
    <3> QED BY Zenon, <1>6, <1>7, <3>2 DEF Steps
  <2>2. \A k \in 0..N : k # 0 => k \in 1..N
    BY <1>1
  <2>3. \A k \in 0..N : u[k] = IF k = 0 THEN <<>> ELSE step(k, u[k - 1])
    BY Zenon, <1>7, <2>1, <2>2 DEF Steps
  <2> QED BY Zenon, <1>7, <2>3 DEF Steps
<1>9. Eq(m)
  <2> HIDE DEF Eq
  <2> QED BY Zenon, <1>8
<1>10. m[0] = <<>> /\ \A k \in 1..N : m[k] = step(k, m[k - 1])
  <2> HIDE DEF m
  <2>1. (\A k \in 1..N : k \in 0..N /\ k # 0) /\ 0 \in 0..N
    BY <1>1
  <2> QED BY Zenon, <1>9, <2>1
<1> HIDE DEF m
<1> DEFINE S == {k \in 0..N : m[k] \in V}
<1>11. \A k \in 0..N : k \in S
  <2>1. 0 \in S
    <3>1. 0 \in 0..N
      BY <1>1
    <3> QED BY Zenon, <1>5, <1>10, <3>1
  <2>2. ASSUME NEW k \in 1..N, k - 1 \in S PROVE k \in S
    <3>1. k \in 0..N
      BY <1>1
    <3> QED BY Zenon, <1>4, <1>10, <2>2, <3>1
  <2> HIDE DEF S
  <2> QED BY Zenon, <1>1, <2>1, <2>2, UpTo
<1> QED BY Zenon, <1>1, <1>2, <1>11 DEF V

(* A sum that is larger by d in one place and smaller in none. *)
LEMMA SumsMore ==
  ASSUME NEW N \in Nat, NEW s \in [1..N -> Nat], NEW t \in [1..N -> Nat],
         \A j \in 1..N : s[j] <= t[j], NEW a \in 1..N, NEW d \in Nat, s[a] + d <= t[a]
  PROVE  Sums(s)[N] + d <= Sums(t)[N]
<1> DEFINE x == Sums(s)
           y == Sums(t)
           more(n) == IF n >= a THEN d ELSE 0
           S == {n \in 0..N : x[n] + more(n) <= y[n]}
<1>1. SumsOf(s, N) /\ SumsOf(t, N)
  BY Zenon, SumsIs
<1>2. x[0] = 0 /\ y[0] = 0 /\ (\A k \in 1..N : x[k] = x[k - 1] + s[k] /\ y[k] = y[k - 1] + t[k])
      /\ \A k \in 0..N : x[k] \in Nat /\ y[k] \in Nat
  BY Zenon, <1>1 DEF SumsOf
<1> HIDE DEF x, y
<1>3. 0 \in S
  BY <1>2
<1>4. ASSUME NEW n \in 1..N, n - 1 \in S PROVE n \in S
  <2>1. /\ x[n] = x[n - 1] + s[n] /\ y[n] = y[n - 1] + t[n] /\ s[n] \in Nat /\ t[n] \in Nat
        /\ s[n] <= t[n]
    BY <1>2
  <2>2. n - 1 \in 0..N /\ n \in 0..N
    OBVIOUS
  <2>3. x[n - 1] \in Nat /\ y[n - 1] \in Nat /\ x[n - 1] + more(n - 1) <= y[n - 1]
    BY Zenon, <1>2, <1>4, <2>2
  <2>4. x[n] + more(n) <= y[n]
    <3>1. CASE n < a
      <4>1. more(n) = 0 /\ more(n - 1) = 0
        BY ONLY <3>1, n \in 1..N, a \in 1..N
      <4> HIDE DEF more
      <4> QED BY ONLY <2>1, <2>3, <4>1
    <3>2. CASE n = a
      <4>1. more(n) = d /\ more(n - 1) = 0
        BY ONLY <3>2, n \in 1..N, a \in 1..N
      <4>2. s[n] + d <= t[n]
        BY Zenon, <3>2
      <4> HIDE DEF more
      <4> QED BY ONLY <2>1, <2>3, <4>1, <4>2, d \in Nat
    <3>3. CASE n > a
      <4>1. more(n) = d /\ more(n - 1) = d
        BY ONLY <3>3, n \in 1..N, a \in 1..N
      <4> HIDE DEF more
      <4> QED BY ONLY <2>1, <2>3, <4>1, d \in Nat
    <3> QED BY ONLY <3>1, <3>2, <3>3, n \in 1..N, a \in 1..N
  <2> QED BY Zenon, <2>2, <2>4
<1>5. N \in 0..N /\ more(N) = d
  OBVIOUS
<1> HIDE DEF S
<1>6. N \in S
  BY Zenon, <1>3, <1>4, <1>5, UpTo
<1>7. x[N] + more(N) <= y[N]
  BY Zenon, <1>6 DEF S
<1> QED BY Zenon, <1>5, <1>7 DEF x, y


(* A tensor in the run: quantised, or as it was. *)
PackedAs(int8, t, x) ==
  /\ x.name = t.name /\ x.nbytes \in Nat
  /\ x.dtype = IF int8 /\ t.dtype = "BF16" /\ Len(t.shape) = 2 THEN "I8R" ELSE t.dtype

LEMMA PackedIs ==
  ASSUME NEW int8 \in BOOLEAN, NEW t \in Accepted
  PROVE  PackedAs(int8, t, Packed(int8, t))
<1>0. ASSUME NEW name, NEW dtype, NEW nbytes, NEW x,
             x = [name |-> name, dtype |-> dtype, nbytes |-> nbytes]
      PROVE  x.name = name /\ x.dtype = dtype /\ x.nbytes = nbytes
  BY <1>0
<1>1. CASE int8 /\ t.dtype = "BF16" /\ Len(t.shape) = 2
  <2>1. t.shape \in Seq(Nat)
    BY DEF Accepted
  <2>2. t.shape[1] \in Nat /\ t.shape[2] \in Nat
    BY <1>1, <2>1
  <2>3. t.shape[1] * (4 + t.shape[2]) \in Nat
    BY ONLY <2>2
  <2>4. Packed(int8, t) = [name |-> t.name, dtype |-> "I8R", nbytes |-> t.shape[1] * (4 + t.shape[2])]
    BY Zenon, <1>1 DEF Packed
  <2>5. Packed(int8, t).name = t.name /\ Packed(int8, t).dtype = "I8R"
        /\ Packed(int8, t).nbytes = t.shape[1] * (4 + t.shape[2])
    BY ONLY <1>0, <2>4
  <2> QED BY Zenon, <1>1, <2>3, <2>5 DEF PackedAs
<1>2. CASE ~(int8 /\ t.dtype = "BF16" /\ Len(t.shape) = 2)
  <2>1. Packed(int8, t) = [name |-> t.name, dtype |-> t.dtype, nbytes |-> t.nbytes]
    BY Zenon, <1>2 DEF Packed
  <2>2. t.nbytes \in Nat
    BY Zenon, AcceptedIs
  <2>3. Packed(int8, t).name = t.name /\ Packed(int8, t).dtype = t.dtype
        /\ Packed(int8, t).nbytes = t.nbytes
    BY ONLY <1>0, <2>1
  <2> QED BY Zenon, <1>2, <2>2, <2>3 DEF PackedAs
<1> QED BY Zenon, <1>1, <1>2

(* Entry k of the run is tensor m[k], behind all that come before it. *)
RunEntry(int8, m, run, k) ==
  /\ run[k].name = m[k].name /\ run[k].nbytes \in Nat /\ run[k].off \in Nat
  /\ run[k].dtype = IF int8 /\ m[k].dtype = "BF16" /\ Len(m[k].shape) = 2 THEN "I8R" ELSE m[k].dtype
  /\ \A j \in 1..Len(m) : m[k].off < m[j].off => run[k].off + run[k].nbytes <= run[j].off

LEMMA RunIs ==
  ASSUME NEW int8 \in BOOLEAN, Mine \in Seq(Accepted)
  PROVE  /\ Len(PackedRun(int8)) = Len(Mine) /\ Len(Mine) \in Nat
         /\ \A k \in 1..Len(Mine) : RunEntry(int8, Mine, PackedRun(int8), k)
<1> DEFINE m == Mine
           n == Len(m)
           pf == [k \in 1..n |-> Packed(int8, m[k])]
           pk == Vec(pf)
           below(k) == [j \in 1..n |-> IF m[j].off < m[k].off THEN pk[j].nbytes ELSE 0]
           before(k) == Sums(below(k))[n]
           rf == [k \in 1..n |-> [name |-> pk[k].name, dtype |-> pk[k].dtype,
                                  nbytes |-> pk[k].nbytes, off |-> before(k)]]
<1>1. PackedRun(int8) = Vec(rf)
  BY Zenon DEF PackedRun
<1>2. n \in Nat /\ \A k \in 1..n : m[k] \in Accepted
  <2> HIDE DEF m
  <2>1. m \in Seq(Accepted)
    BY Zenon DEF m
  <2> QED BY <2>1
<1> HIDE DEF m
<1>3. pk = pf
  <2>1. pf = [k \in 1..n |-> pf[k]]
    BY Zenon
  <2> HIDE DEF pf
  <2> QED BY Zenon, <1>2, <2>1, VecIs
<1>4. ASSUME NEW k \in 1..n
      PROVE  /\ pk[k].name = m[k].name /\ pk[k].nbytes \in Nat
             /\ pk[k].dtype = IF int8 /\ m[k].dtype = "BF16" /\ Len(m[k].shape) = 2
                              THEN "I8R" ELSE m[k].dtype
  <2>1. pk[k] = Packed(int8, m[k]) /\ m[k] \in Accepted
    BY Zenon, <1>2, <1>3
  <2> HIDE DEF pk
  <2>2. PackedAs(int8, m[k], pk[k])
    BY Zenon, <2>1, PackedIs
  <2> QED BY Zenon, <2>2 DEF PackedAs
<1> HIDE DEF pk, n
<1>5. Vec(rf) = rf
  <2>1. rf = [k \in 1..n |-> rf[k]]
    BY Zenon
  <2> HIDE DEF rf
  <2> QED BY Zenon, <1>2, <2>1, VecIs
<1>6. ASSUME NEW k \in 1..n PROVE below(k) \in [1..n -> Nat]
  <2>1. ASSUME NEW j \in 1..n PROVE (IF m[j].off < m[k].off THEN pk[j].nbytes ELSE 0) \in Nat
    <3>1. pk[j].nbytes \in Nat /\ 0 \in Nat
      BY <1>4
    <3> QED BY Zenon, <3>1
  <2> QED BY Zenon, <2>1
<1>7. ASSUME NEW k \in 1..n PROVE before(k) \in Nat
  <2>1. SumsOf(below(k), n)
    BY Zenon, <1>2, <1>6, SumsIs
  <2>2. n \in 0..n
    BY <1>2
  <2> QED BY Zenon, <2>1, <2>2 DEF SumsOf
<1>8. ASSUME NEW k \in 1..n, NEW j \in 1..n, m[k].off < m[j].off
      PROVE  before(k) + pk[k].nbytes <= before(j)
  <2> DEFINE s == below(k)
             t == below(j)
  <2>1. \A i \in 1..n : m[i].off \in Nat
    BY Zenon, <1>2, AcceptedIs
  <2>2. ASSUME NEW i \in 1..n PROVE s[i] <= t[i]
    <3>1. pk[i].nbytes \in Nat
      BY <1>4
    <3>2. m[i].off < m[k].off => m[i].off < m[j].off
      BY ONLY <2>1, <1>8, i \in 1..n
    <3>3. s[i] = (IF m[i].off < m[k].off THEN pk[i].nbytes ELSE 0)
          /\ t[i] = (IF m[i].off < m[j].off THEN pk[i].nbytes ELSE 0)
      BY Zenon
    <3> QED BY ONLY <3>1, <3>2, <3>3
  <2>3. s[k] + pk[k].nbytes <= t[k]
    <3>1. pk[k].nbytes \in Nat /\ ~(m[k].off < m[k].off)
      BY <1>4, <2>1
    <3>2. s[k] = 0 /\ t[k] = pk[k].nbytes
      BY Zenon, <3>1, <1>8
    <3> QED BY ONLY <3>1, <3>2
  <2>4. s \in [1..n -> Nat] /\ t \in [1..n -> Nat] /\ pk[k].nbytes \in Nat
    BY Zenon, <1>4, <1>6
  <2> HIDE DEF s, t
  <2>5. Sums(s)[n] + pk[k].nbytes <= Sums(t)[n]
    BY Zenon, <1>2, <2>2, <2>3, <2>4, SumsMore
  <2> QED BY Zenon, <2>5 DEF s, t
<1> HIDE DEF before
<1>9. ASSUME NEW k \in 1..n
      PROVE  /\ rf[k].name = pk[k].name /\ rf[k].dtype = pk[k].dtype
             /\ rf[k].nbytes = pk[k].nbytes /\ rf[k].off = before(k)
  OBVIOUS
<1>10. Len(rf) = n
  BY <1>2
<1> HIDE DEF rf
<1>11. ASSUME NEW k \in 1..n PROVE RunEntry(int8, m, rf, k)
  <2>1. ASSUME NEW j \in 1..n, m[k].off < m[j].off PROVE rf[k].off + rf[k].nbytes <= rf[j].off
    BY Zenon, <1>8, <1>9, <2>1
  <2> QED BY Zenon, <1>4, <1>7, <1>9, <2>1 DEF RunEntry, n
<1> QED BY Zenon, <1>1, <1>2, <1>5, <1>10, <1>11 DEF m, n

LEMMA FindInRun ==
  ASSUME NEW run, Len(run) \in Nat, NEW name, NEW e, e = find_in_layer(run, name), e # None
  PROVE  \E k \in 1..Len(run) : e = run[k] /\ run[k].name = name
<1> DEFINE at == {k \in 1..Len(run) : run[k].name = name}
<1>1. e = IF at = {} THEN None ELSE run[Min(at)]
  BY Zenon DEF find_in_layer
<1>2. at \in SUBSET Nat
  OBVIOUS
<1>3. \A k \in at : k \in 1..Len(run) /\ run[k].name = name
  OBVIOUS
<1> HIDE DEF at
<1>4. at # {}
  BY Zenon, <1>1
<1>5. Min(at) \in at
  BY Zenon, <1>2, <1>4, MinIs
<1> QED BY Zenon, <1>1, <1>3, <1>4, <1>5

(* What k3_bind_layer_mem does not refuse. *)
ServedAs(narrow, e, how) ==
  /\ e # None
  /\ \/ how = "place" /\ (e.dtype = "F32" \/ (narrow /\ e.dtype \in {"BF16", "I8R"}))
     \/ how = "widen" /\ ~narrow /\ e.dtype \in {"BF16", "I8R"}

LEMMA ServeIs ==
  ASSUME NEW q, q.narrow \in BOOLEAN, NEW e, Serve(q, e) # "refuse"
  PROVE  ServedAs(q.narrow, e, Serve(q, e))
BY DEF Serve, ServedAs


LEMMA WidenEndsIs ==
  ASSUME NEW S, Asks(plan_layer, S), NEW how
  PROVE  LET end == WidenEnds(how)
         IN  /\ Grows(end, NReq)
             /\ \A i \in Reqs : how[i] = "widen" =>
                                  end[i] = align8(end[i - 1]) + 4 * plan_layer[i].take
<1> DEFINE N == NReq
           room(i) == 4 * plan_layer[i].take
           step(i, a) == IF how[i] = "widen" THEN align8(a) + room(i) ELSE a
           g == [x \in (1..N) \X Nat |-> step(x[1], x[2])]
           Eq(u) == u = [i \in 0..N |-> IF i = 0 THEN 0 ELSE step(i, u[i - 1])]
           end == CHOOSE u : Eq(u)
<1>1. N \in Nat /\ Reqs = 1..N /\ 0 \in Nat
  <2>1. plan_layer \in Seq(Requests(S))
    BY Zenon DEF Asks
  <2>2. Len(plan_layer) \in Nat
    BY <2>1
  <2> QED BY <2>2 DEF NReq, Reqs
<1>2. ASSUME NEW i \in 1..N PROVE room(i) \in Nat
  <2>1. plan_layer[i].take \in Nat
    BY Zenon, AskedIs DEF NReq
  <2> QED BY <2>1
<1>3. WidenEnds(how) = end
  BY Zenon DEF WidenEnds
<1> HIDE DEF room
<1>4. ASSUME NEW i \in 1..N, NEW a \in Nat
      PROVE  step(i, a) \in Nat /\ step(i, a) >= a
  <2>1. room(i) \in Nat /\ align8(a) \in Nat /\ align8(a) >= a
    BY Zenon, <1>2, Align8Is
  <2>2. align8(a) + room(i) \in Nat /\ align8(a) + room(i) >= a /\ a >= a
    BY ONLY <2>1, a \in Nat
  <2> QED BY Zenon, <2>2
<1> HIDE DEF step
<1>5. g \in [(1..N) \X Nat -> Nat] /\ \A i \in 1..N, a \in Nat : g[<<i, a>>] = step(i, a)
  BY <1>4
<1> HIDE DEF g
<1>6. PICK u : Steps(u, N, Nat, 0, g)
  BY Zenon, <1>1, <1>5, Recursion
<1>7. Eq(u)
  <2>1. ASSUME NEW i \in 1..N PROVE u[i] = step(i, u[i - 1])
    <3>1. i - 1 \in 0..N
      BY <1>1
    <3>2. u[i - 1] \in Nat
      BY Zenon, <1>6, <3>1 DEF Steps
    <3> QED BY Zenon, <1>5, <1>6, <3>2 DEF Steps
  <2>2. \A i \in 0..N : i # 0 => i \in 1..N
    BY <1>1
  <2>3. \A i \in 0..N : u[i] = IF i = 0 THEN 0 ELSE step(i, u[i - 1])
    BY Zenon, <1>6, <2>1, <2>2 DEF Steps
  <2> QED BY Zenon, <1>6, <2>3 DEF Steps
<1>8. Eq(end)
  <2> HIDE DEF Eq
  <2> QED BY Zenon, <1>7
<1>9. end[0] = 0 /\ \A i \in 1..N : end[i] = step(i, end[i - 1])
  <2> HIDE DEF end
  <2>1. (\A i \in 1..N : i \in 0..N /\ i # 0) /\ 0 \in 0..N
    BY <1>1
  <2> QED BY Zenon, <1>8, <2>1
<1> HIDE DEF end
<1>10. \A i \in 0..N : end[i] \in Nat
  <2> DEFINE T == {i \in 0..N : end[i] \in Nat}
  <2>1. 0 \in T
    BY <1>1, <1>9
  <2>2. ASSUME NEW i \in 1..N, i - 1 \in T PROVE i \in T
    <3>1. end[i] \in Nat
      BY Zenon, <1>4, <1>9, <2>2
    <3>2. i \in 0..N
      BY <1>1
    <3> QED BY Zenon, <3>1, <3>2
  <2> HIDE DEF T
  <2>3. \A i \in 0..N : i \in T
    BY Zenon, <1>1, <2>1, <2>2, UpTo
  <2> QED BY Zenon, <2>3 DEF T
<1>11. Grows(end, N)
  <2>1. end \in [0..N -> Nat]
    <3>1. end = [i \in 0..N |-> end[i]]
      <4>1. end = [i \in 0..N |-> IF i = 0 THEN 0 ELSE step(i, end[i - 1])]
        BY Zenon, <1>8
      <4> QED BY Zenon, <4>1
    <3> QED BY Zenon, <3>1, <1>10
  <2>2. ASSUME NEW i \in 1..N PROVE end[i] >= end[i - 1]
    <3>1. i - 1 \in 0..N
      BY <1>1
    <3> QED BY Zenon, <1>4, <1>9, <1>10, <3>1
  <2> QED BY Zenon, <2>1, <2>2 DEF Grows
<1>12. \A i \in Reqs : how[i] = "widen" => end[i] = align8(end[i - 1]) + 4 * plan_layer[i].take
  BY Zenon, <1>1, <1>9 DEF step, room
<1> QED BY Zenon, <1>3, <1>11, <1>12

(* A layer bound in a packed run. *)
AllBF16Matrices(p, t) ==
  \A i \in 1..Len(p), k \in 1..Len(t) :
    p[i].narrow /\ t[k].name = p[i].name => t[k].dtype = "BF16" /\ Len(t[k].shape) = 2

OffsApart(t) ==
  \A j, k \in 1..Len(t) : j # k /\ t[j].shard = t[k].shard => t[j].off # t[k].off

StreamOk(p, t, b) ==
  b.ok => /\ Serves(p, b)
          /\ (b.int8 => AllBF16Matrices(p, t)) => Tagged(p, b)
          /\ ~b.int8 => b.wdt = "BF16" /\ AllBF16(p, t)
          /\ OffsApart(t) => Laid(p, b)


(* Entry x of the run serves request i: it is tensor a of the checkpoint. *)
From(int8, i, x, k, a) ==
  /\ k \in 1..Len(Mine) /\ a \in 1..Len(st.t) /\ Mine[k] = st.t[a]
  /\ st.t[a].name = plan_layer[i].name /\ st.t[a].dtype \in Formats
  /\ x = PackedRun(int8)[k] /\ x.name = plan_layer[i].name
  /\ RunEntry(int8, Mine, PackedRun(int8), k)

LEMMA ServedFrom ==
  ASSUME StInv, NEW int8 \in BOOLEAN, NEW i \in Reqs, NEW x,
         x = find_in_layer(PackedRun(int8), plan_layer[i].name), x # None
  PROVE  \E k, a : From(int8, i, x, k, a)
<1> DEFINE m == Mine
           run == PackedRun(int8)
           W == Wanted(plan_layer, st.t)
<1>1. st.t \in Seq(Accepted)
  BY Zenon DEF StInv
<1>2. \A a \in 1..Len(st.t) : st.t[a] \in Accepted
  BY <1>1
<1>3. m \in Seq(W)
  BY Zenon, MineIs
<1>4. \A w \in W : \E a \in 1..Len(st.t) : w = st.t[a]
  BY Zenon DEF Wanted
<1>5. m \in Seq(Accepted)
  <2>1. W \subseteq Accepted
    BY Zenon, <1>2, <1>4
  <2> HIDE DEF W, m
  <2> QED BY <1>3, <2>1
<1>6. Len(run) = Len(m) /\ Len(m) \in Nat /\ \A k \in 1..Len(m) : RunEntry(int8, m, run, k)
  BY Zenon, <1>5, RunIs
<1>7. PICK k \in 1..Len(run) : x = run[k] /\ run[k].name = plan_layer[i].name
  <2>1. Len(run) \in Nat /\ x = find_in_layer(run, plan_layer[i].name)
    BY Zenon, <1>6
  <2> HIDE DEF run, m
  <2> QED BY <2>1, FindInRun
<1>8. k \in 1..Len(m) /\ RunEntry(int8, m, run, k)
  BY Zenon, <1>6
<1>9. m[k] \in W
  <2> HIDE DEF W, m
  <2> QED BY <1>3, <1>8
<1>10. PICK a \in 1..Len(st.t) : m[k] = st.t[a]
  BY Zenon, <1>4, <1>9
<1>11. st.t[a].name = plan_layer[i].name
  BY Zenon, <1>7, <1>8, <1>10 DEF RunEntry
<1>12. st.t[a].dtype \in Formats
  <2>1. st.t[a] \in Accepted
    BY Zenon, <1>2
  <2> HIDE DEF m, run
  <2> QED BY <2>1 DEF Accepted
<1>13. From(int8, i, x, k, a)
  BY Zenon, <1>7, <1>8, <1>10, <1>11, <1>12 DEF From
<1> QED BY Zenon, <1>13

(* No tensor of an open checkpoint has the name of another. *)
LEMMA OneOfAName ==
  ASSUME StInv, st.phase = "open", NEW j \in 1..Len(st.t), NEW k \in 1..Len(st.t),
         st.t[j].name = st.t[k].name, st.t[j].name \in Names
  PROVE  j = k
BY Zenon, FindIs

(* The parts of k3_bind_layer_mem's result. *)
StreamParts(int8, e, how) ==
  /\ \A i \in Reqs : /\ e[i] = find_in_layer(PackedRun(int8), plan_layer[i].name)
                     /\ how[i] = Serve(plan_layer[i], e[i])
  /\ LET end == WidenEnds(how)
         i8_seen == \E i \in Reqs : plan_layer[i].narrow /\ e[i].dtype = "I8R"
         narrowed_all == \A i \in Reqs : plan_layer[i].narrow => e[i].dtype \in {"BF16", "I8R"}
         b == Streamed(int8)
     IN  b.ok => /\ \A i \in Reqs : how[i] # "refuse"
                 /\ ~(end[NReq] > widen_bytes) /\ (narrowed_all \/ i8_seen)
                 /\ b.wdt = (IF i8_seen THEN "I8R" ELSE "BF16") /\ b.int8 = int8
                 /\ b.nbytes = widen_bytes
                 /\ \A i \in Reqs :
                      b.field[i] =
                        IF how[i] = "widen"
                        THEN Field("widen", align8(end[i - 1]), "F32", e[i], plan_layer[i].take,
                                   4 * plan_layer[i].take)
                        ELSE Field("run", e[i].off, e[i].dtype, e[i], plan_layer[i].take, e[i].nbytes)

LEMMA StreamPartsAre ==
  ASSUME NEW int8 \in BOOLEAN, NReq \in Nat
  PROVE  \E e, how : StreamParts(int8, e, how)
<1> DEFINE q == plan_layer
           ef == [i \in Reqs |-> find_in_layer(PackedRun(int8), q[i].name)]
           e == Vec(ef)
           hf == [i \in Reqs |-> Serve(q[i], e[i])]
           how == Vec(hf)
           end == WidenEnds(how)
           i8_seen == \E i \in Reqs : q[i].narrow /\ e[i].dtype = "I8R"
           narrowed_all == \A i \in Reqs : q[i].narrow => e[i].dtype \in {"BF16", "I8R"}
           ff == [i \in Reqs |->
                    IF how[i] = "widen"
                    THEN Field("widen", align8(end[i - 1]), "F32", e[i], q[i].take, 4 * q[i].take)
                    ELSE Field("run", e[i].off, e[i].dtype, e[i], q[i].take, e[i].nbytes)]
           refused == \/ \E i \in Reqs : how[i] = "refuse"
                      \/ end[NReq] > widen_bytes \/ (~narrowed_all /\ ~i8_seen)
           wdt == IF i8_seen THEN "I8R" ELSE "BF16"
           r == [ok |-> TRUE, wdt |-> wdt, int8 |-> int8, nbytes |-> widen_bytes, field |-> Vec(ff)]
           b == Streamed(int8)
<1>1. b = IF refused THEN Unbound ELSE r
  BY Zenon DEF Streamed
<1>2. ASSUME NEW f, f = [i \in Reqs |-> f[i]] PROVE Vec(f) = f
  <2>1. f = [i \in 1..NReq |-> f[i]]
    BY Zenon, <1>2 DEF Reqs
  <2> QED BY Zenon, <2>1, VecIs
<1>3. e = ef
  <2>1. ef = [i \in Reqs |-> ef[i]]
    BY Zenon
  <2> HIDE DEF ef
  <2> QED BY Zenon, <1>2, <2>1
<1>4. \A i \in Reqs : e[i] = find_in_layer(PackedRun(int8), q[i].name)
  BY Zenon, <1>3
<1> HIDE DEF e
<1>5. how = hf
  <2>1. hf = [i \in Reqs |-> hf[i]]
    BY Zenon
  <2> HIDE DEF hf
  <2> QED BY Zenon, <1>2, <2>1
<1>6. \A i \in Reqs : how[i] = Serve(q[i], e[i])
  BY Zenon, <1>5
<1> HIDE DEF how
<1>7. Vec(ff) = ff
  <2>1. ff = [i \in Reqs |-> ff[i]]
    BY Zenon
  <2> HIDE DEF ff
  <2> QED BY Zenon, <1>2, <2>1
<1>8. b.ok => ~refused
  <2>1. ~Unbound.ok
    BY DEF Unbound
  <2> HIDE DEF refused, r, b
  <2> QED BY Zenon, <1>1, <2>1
<1>9. b.ok => /\ b.wdt = wdt /\ b.int8 = int8 /\ b.nbytes = widen_bytes /\ b.field = ff
  <2> HIDE DEF refused, ff, b, wdt
  <2>1. b.ok => b = r
    BY Zenon, <1>1, <1>8
  <2>2. r.wdt = wdt /\ r.int8 = int8 /\ r.nbytes = widen_bytes /\ r.field = Vec(ff)
    OBVIOUS
  <2> HIDE DEF r
  <2> QED BY Zenon, <1>7, <2>1, <2>2
<1>10. b.ok => \A i \in Reqs :
         b.field[i] = IF how[i] = "widen"
                      THEN Field("widen", align8(end[i - 1]), "F32", e[i], q[i].take, 4 * q[i].take)
                      ELSE Field("run", e[i].off, e[i].dtype, e[i], q[i].take, e[i].nbytes)
  <2> HIDE DEF b, end
  <2> QED BY Zenon, <1>9
<1> HIDE DEF b, end, ff, r
<1>11. StreamParts(int8, e, how)
  BY Zenon, <1>4, <1>6, <1>8, <1>9, <1>10 DEF StreamParts, b, end
<1> QED BY Zenon, <1>11

(* The widen area's size. *)
LEMMA WidenNat == widen_bytes \in Nat
<1> DEFINE x == c.n_experts * c.hidden
<1>1. x \in Nat /\ c.hidden \in Nat /\ c.q_lora \in Nat /\ c.kv_lora \in Nat
      /\ c.latent \in Nat /\ Slack \in Nat
  BY CfgNat
<1>2. widen_bytes = 4 * (6 * c.hidden + c.q_lora + c.kv_lora + c.latent + x) + Slack
  BY Zenon DEF widen_bytes
<1> HIDE DEF x
<1> QED BY ONLY <1>1, <1>2

LEMMA PlaceNotWiden == "place" # "widen"
OBVIOUS

(* A layer k3_bind_layer_mem has bound. *)
LEMMA StreamedIs ==
  ASSUME StInv, st.phase = "open", PlanOk(plan_layer), Packable, NEW int8 \in BOOLEAN
  PROVE  StreamOk(plan_layer, st.t, Streamed(int8))
<1> DEFINE p == plan_layer
           b == Streamed(int8)
<1> SUFFICES ASSUME b.ok
             PROVE  /\ Serves(p, b)
                    /\ (b.int8 => AllBF16Matrices(p, st.t)) => Tagged(p, b)
                    /\ ~b.int8 => b.wdt = "BF16" /\ AllBF16(p, st.t)
                    /\ OffsApart(st.t) => Laid(p, b)
  BY Zenon DEF StreamOk
<1>1. PICK S : Asks(p, S)
  BY Zenon DEF PlanOk
<1>2. NReq \in Nat /\ Reqs = 1..NReq /\ NReq = Len(p)
  <2>1. p \in Seq(Requests(S))
    BY Zenon, <1>1 DEF Asks
  <2>2. Len(p) \in Nat
    BY <2>1
  <2> QED BY <2>2 DEF NReq, Reqs
<1>3. PICK e, how : StreamParts(int8, e, how)
  BY Zenon, <1>2, StreamPartsAre
<1> DEFINE end == WidenEnds(how)
           i8_seen == \E i \in Reqs : p[i].narrow /\ e[i].dtype = "I8R"
<1>4. (\A i \in Reqs : p[i].narrow => e[i].dtype \in {"BF16", "I8R"}) \/ i8_seen
  BY Zenon, <1>3 DEF StreamParts
<1>5. /\ ~(end[NReq] > widen_bytes)
      /\ b.wdt = (IF i8_seen THEN "I8R" ELSE "BF16") /\ b.int8 = int8 /\ b.nbytes = widen_bytes
  BY Zenon, <1>3 DEF StreamParts
<1>6. ASSUME NEW i \in Reqs
      PROVE  /\ e[i] = find_in_layer(PackedRun(int8), p[i].name)
             /\ how[i] = Serve(p[i], e[i]) /\ how[i] # "refuse"
  BY Zenon, <1>3 DEF StreamParts
<1>7. ASSUME NEW i \in Reqs
      PROVE  b.field[i] =
               IF how[i] = "widen"
               THEN Field("widen", align8(end[i - 1]), "F32", e[i], p[i].take, 4 * p[i].take)
               ELSE Field("run", e[i].off, e[i].dtype, e[i], p[i].take, e[i].nbytes)
  BY Zenon, <1>3 DEF StreamParts
<1> HIDE DEF b, end
<1>8. ASSUME NEW i \in Reqs
      PROVE  p[i].narrow \in BOOLEAN /\ p[i].take \in Nat /\ p[i].name \in Names
  BY Zenon, <1>1, <1>2, AskedIs DEF PlanOk
<1>9. ASSUME NEW i \in Reqs PROVE ServedAs(p[i].narrow, e[i], how[i])
  <2>1. how[i] = Serve(p[i], e[i]) /\ Serve(p[i], e[i]) # "refuse" /\ p[i].narrow \in BOOLEAN
    BY Zenon, <1>6, <1>8
  <2>2. ServedAs(p[i].narrow, e[i], Serve(p[i], e[i]))
    BY ONLY <2>1, ServeIs
  <2> QED BY Zenon, <2>1, <2>2
<1>10. ASSUME NEW i \in Reqs PROVE \E k, a : From(int8, i, e[i], k, a)
  <2>1. e[i] # None
    BY Zenon, <1>9 DEF ServedAs
  <2> QED BY Zenon, <1>6, <2>1, ServedFrom
<1>11. ASSUME NEW i \in Reqs
       PROVE  /\ how[i] = "widen" =>
                   /\ b.field[i].area = "widen" /\ b.field[i].off = align8(end[i - 1])
                   /\ b.field[i].fmt = "F32" /\ b.field[i].bytes = 4 * p[i].take
              /\ how[i] # "widen" =>
                   /\ b.field[i].area = "run" /\ b.field[i].off = e[i].off
                   /\ b.field[i].fmt = e[i].dtype /\ b.field[i].bytes = e[i].nbytes
              /\ b.field[i].t = e[i].name /\ b.field[i].n = p[i].take
  <2> DEFINE at == align8(end[i - 1])
             room == 4 * p[i].take
             take == p[i].take
             f == b.field[i]
  <2>1. CASE how[i] = "widen"
    <3>1. f = Field("widen", at, "F32", e[i], take, room)
      BY Zenon, <1>7, <2>1
    <3> HIDE DEF at, room, take, f
    <3>2. f.area = "widen" /\ f.off = at /\ f.fmt = "F32" /\ f.bytes = room /\ f.t = e[i].name /\ f.n = take
      BY ONLY <3>1, FieldIs
    <3> QED BY Zenon, <2>1, <3>2 DEF at, room, take, f
  <2>2. CASE how[i] # "widen"
    <3>1. f = Field("run", e[i].off, e[i].dtype, e[i], take, e[i].nbytes)
      BY Zenon, <1>7, <2>2
    <3> HIDE DEF take, f
    <3>2. /\ f.area = "run" /\ f.off = e[i].off /\ f.fmt = e[i].dtype /\ f.bytes = e[i].nbytes
          /\ f.t = e[i].name /\ f.n = take
      BY ONLY <3>1, FieldIs
    <3> QED BY Zenon, <2>2, <3>2 DEF take, f
  <2> QED BY Zenon, <2>1, <2>2
<1>12. Serves(p, b)
  <2>1. ASSUME NEW i \in Reqs PROVE e[i].name = p[i].name
    BY Zenon, <1>10 DEF From
  <2>2. ASSUME NEW i \in Reqs PROVE b.field[i].t = p[i].name /\ b.field[i].n = p[i].take
    BY Zenon, <1>11, <2>1
  <2> QED BY Zenon, <1>2, <2>2 DEF Serves
<1>13. ASSUME NEW i \in Reqs
       PROVE  \E a \in 1..Len(st.t) :
                /\ st.t[a].name = p[i].name /\ st.t[a].dtype \in Formats
                /\ e[i].dtype = IF int8 /\ st.t[a].dtype = "BF16" /\ Len(st.t[a].shape) = 2
                                THEN "I8R" ELSE st.t[a].dtype
  <2>1. PICK k, a : From(int8, i, e[i], k, a)
    BY Zenon, <1>10
  <2> QED BY Zenon, <2>1 DEF From, RunEntry
<1>14. ~b.int8 => b.wdt = "BF16" /\ \A i \in Reqs : p[i].narrow => e[i].dtype = "BF16"
  <2> SUFFICES ASSUME ~int8
               PROVE  b.wdt = "BF16" /\ \A i \in Reqs : p[i].narrow => e[i].dtype = "BF16"
    BY Zenon, <1>5
  <2>1. \A f \in Formats : f # "I8R"
    BY DEF Formats
  <2>2. ASSUME NEW i \in Reqs PROVE e[i].dtype # "I8R"
    BY Zenon, <1>13, <2>1
  <2>3. ~i8_seen
    BY Zenon, <2>2
  <2>4. ASSUME NEW i \in Reqs, p[i].narrow PROVE e[i].dtype = "BF16"
    BY <1>4, <2>2, <2>3, <2>4
  <2> QED BY Zenon, <1>5, <2>3, <2>4
<1>15. ASSUME NEW i \in Reqs, p[i].narrow, AllBF16Matrices(p, st.t), int8
       PROVE  e[i].dtype = "I8R"
  BY Zenon, <1>2, <1>13, <1>15 DEF AllBF16Matrices
<1>16. (b.int8 => AllBF16Matrices(p, st.t)) => Tagged(p, b)
  <2> SUFFICES ASSUME int8 => AllBF16Matrices(p, st.t), NEW i \in Reqs
               PROVE  b.field[i].fmt = IF p[i].narrow THEN b.wdt ELSE "F32"
    BY Zenon, <1>2, <1>5 DEF Tagged
  <2>1. CASE ~p[i].narrow
    <3>1. how[i] = "widen" \/ e[i].dtype = "F32"
      BY Zenon, <1>9, <2>1 DEF ServedAs
    <3>2. b.field[i].fmt = "F32"
      BY Zenon, <1>11, <3>1
    <3> QED BY Zenon, <2>1, <3>2
  <2>2. CASE p[i].narrow
    <3>1. b.field[i].fmt = e[i].dtype
      <4>1. how[i] # "widen"
        BY Zenon, <1>9, <2>2, PlaceNotWiden DEF ServedAs
      <4> QED BY Zenon, <1>11, <4>1
    <3>2. e[i].dtype = b.wdt
      BY Zenon, <1>5, <1>14, <1>15, <2>2
    <3> QED BY Zenon, <2>2, <3>1, <3>2
  <2> QED BY Zenon, <2>1, <2>2
<1>17. ~b.int8 => AllBF16(p, st.t)
  <2> SUFFICES ASSUME ~b.int8, NEW i \in Reqs, NEW k \in 1..Len(st.t), p[i].narrow,
                      st.t[k].name = p[i].name
               PROVE  st.t[k].dtype = "BF16"
    BY Zenon, <1>2 DEF AllBF16
  <2>1. PICK a \in 1..Len(st.t) :
          /\ st.t[a].name = p[i].name
          /\ e[i].dtype = IF int8 /\ st.t[a].dtype = "BF16" /\ Len(st.t[a].shape) = 2
                          THEN "I8R" ELSE st.t[a].dtype
    BY Zenon, <1>13
  <2>2. a = k
    BY Zenon, <1>8, <2>1, OneOfAName
  <2> QED BY Zenon, <1>5, <1>14, <2>1, <2>2
<1>18. ASSUME OffsApart(st.t) PROVE Laid(p, b)
  <2> DEFINE A == {i \in Reqs : how[i] = "widen"}
             off == [i \in Reqs |-> b.field[i].off]
             bytes == [i \in Reqs |-> b.field[i].bytes]
  <2>1. Grows(end, NReq)
        /\ \A i \in Reqs : how[i] = "widen" => end[i] = align8(end[i - 1]) + 4 * p[i].take
    BY Zenon, <1>1, WidenEndsIs DEF end
  <2>2. ASSUME NEW i \in A
        PROVE  /\ i \in 1..NReq /\ off[i] = align8(end[i - 1]) /\ bytes[i] \in Nat
               /\ off[i] + bytes[i] <= end[i]
    <3>1. i \in Reqs /\ how[i] = "widen"
      BY Zenon
    <3>2. off[i] = align8(end[i - 1]) /\ bytes[i] = 4 * p[i].take
      BY Zenon, <1>11, <3>1
    <3>3. p[i].take \in Nat
      BY Zenon, <1>8, <3>1
    <3>4. align8(end[i - 1]) \in Nat
      <4>1. i - 1 \in 0..NReq
        BY <1>2, <3>1
      <4>2. end[i - 1] \in Nat
        BY Zenon, <2>1, <4>1 DEF Grows
      <4> QED BY Zenon, <4>2, Align8Is
    <3>5. end[i] = align8(end[i - 1]) + 4 * p[i].take
      BY Zenon, <2>1, <3>1
    <3> HIDE DEF off, bytes
    <3>6. bytes[i] \in Nat /\ off[i] + bytes[i] <= end[i]
      BY ONLY <3>2, <3>3, <3>4, <3>5
    <3> QED BY Zenon, <1>2, <3>1, <3>2, <3>6
  <2>3. \A i \in Reqs : off[i] = b.field[i].off /\ bytes[i] = b.field[i].bytes
    BY Zenon
  <2> HIDE DEF off, bytes
  <2>4. Separate(end, NReq, A, off, bytes)
    <3>1. Blocks(end, NReq, A, off, bytes)
      BY Zenon, <2>2 DEF Blocks
    <3> HIDE DEF A
    <3> QED BY Zenon, <1>2, <2>1, <3>1, BlocksApart
  <2>5. ASSUME NEW i \in Reqs, b.field[i].area # "run"
        PROVE  b.field[i].off % 8 = 0 /\ b.field[i].off + b.field[i].bytes <= b.nbytes
    <3>1. i \in A
      BY Zenon, <1>11, <2>5
    <3>2. off[i] % 8 = 0 /\ off[i] + bytes[i] <= end[NReq]
      BY Zenon, <2>4, <3>1 DEF Separate
    <3>3. off[i] \in Nat /\ bytes[i] \in Nat /\ end[NReq] \in Nat /\ widen_bytes \in Nat
      <4>1. i - 1 \in 0..NReq /\ NReq \in 0..NReq
        BY <1>2
      <4>2. end[i - 1] \in Nat /\ end[NReq] \in Nat
        BY Zenon, <2>1, <4>1 DEF Grows
      <4>3. off[i] \in Nat /\ bytes[i] \in Nat
        BY Zenon, <2>2, <3>1, <4>2, Align8Is
      <4> QED BY Zenon, <4>2, <4>3, WidenNat
    <3>4. off[i] + bytes[i] <= widen_bytes
      BY ONLY <1>5, <3>2, <3>3
    <3> QED BY Zenon, <1>5, <2>3, <3>2, <3>4
  <2>6. ASSUME NEW i \in Reqs, NEW j \in Reqs, i # j, b.field[i].area = b.field[j].area
        PROVE  \/ b.field[i].off + b.field[i].bytes <= b.field[j].off
               \/ b.field[j].off + b.field[j].bytes <= b.field[i].off
    <3>0. "widen" # "run"
      OBVIOUS
    <3>1. CASE how[i] = "widen" /\ how[j] = "widen"
      <4>1. i \in A /\ j \in A
        BY Zenon, <3>1
      <4>2. off[i] + bytes[i] <= off[j] \/ off[j] + bytes[j] <= off[i]
        BY Zenon, <2>4, <2>6, <4>1 DEF Separate
      <4> QED BY Zenon, <2>3, <4>2
    <3>2. CASE how[i] # "widen" /\ how[j] # "widen"
      <4>1. PICK k, a : From(int8, i, e[i], k, a)
        BY Zenon, <1>10
      <4>2. PICK l, d : From(int8, j, e[j], l, d)
        BY Zenon, <1>10
      <4>3. e[i].off + e[i].nbytes <= e[j].off \/ e[j].off + e[j].nbytes <= e[i].off
        <5>1. p[i].name # p[j].name
          BY Zenon, <1>1, <1>2, <2>6 DEF Asks
        <5>2. a # d /\ a \in 1..Len(st.t) /\ d \in 1..Len(st.t)
          BY Zenon, <4>1, <4>2, <5>1 DEF From
        <5>3. st.t[a].shard = st.t[d].shard
          <6>1. \A n \in 1..Len(Mine) : Mine[n].shard = Mine[1].shard
            BY Zenon DEF Packable
          <6> QED BY Zenon, <4>1, <4>2, <6>1 DEF From
        <5>4. st.t[a].off # st.t[d].off
          BY Zenon, <1>18, <5>2, <5>3 DEF OffsApart
        <5>5. st.t[a].off < st.t[d].off \/ st.t[d].off < st.t[a].off
          <6>1. st.t \in Seq(Accepted)
            BY Zenon DEF StInv
          <6>2. st.t[a] \in Accepted /\ st.t[d] \in Accepted
            BY ONLY <5>2, <6>1
          <6>3. st.t[a].off \in Nat /\ st.t[d].off \in Nat
            BY Zenon, <6>2, AcceptedIs
          <6> QED BY ONLY <5>4, <6>3
        <5>6. Mine[k].off < Mine[l].off \/ Mine[l].off < Mine[k].off
          BY Zenon, <4>1, <4>2, <5>5 DEF From
        <5> QED BY Zenon, <4>1, <4>2, <5>6 DEF From, RunEntry
      <4> QED BY Zenon, <1>11, <3>2, <4>3
    <3> QED BY Zenon, <1>11, <2>6, <3>0, <3>1, <3>2
  <2> QED BY Zenon, <1>2, <2>5, <2>6 DEF Laid
<1> QED BY Zenon, <1>12, <1>14, <1>16, <1>17, <1>18


-----------------------------------------------------------------------------
(* What stays true of the layers: they are bound from an open checkpoint,  *)
(* which does not change under them.                                       *)
LayerInv ==
  /\ PlanOk(plan_layer)
  /\ bound.ok => st.phase = "open"
  /\ streamed.ok => st.phase = "open"
  /\ BoundOk(plan_layer, st.t, bound)
  /\ StreamOk(plan_layer, st.t, streamed)

(* Until it is closed an open checkpoint stays as it is. *)
LEMMA OpenStays ==
  ASSUME ShardsNext, st.phase = "open"
  PROVE  st' = st
<1>1. st.phase # "closed" /\ st.phase # "scan"
  OBVIOUS
<1>2. ~StartOpen /\ ~ScanRefused /\ ~Index /\ ~(\E direct \in BOOLEAN : ScanShard(direct))
  BY Zenon, <1>1 DEF StartOpen, ScanRefused, Index, ScanShard
<1>3. Dropped \/ PreadNothing => st' = st
  BY Zenon DEF Dropped, PreadNothing
<1>4. ASSUME NEW n, Pread(n) PROVE st' = st
  BY Zenon, <1>4 DEF Pread
<1>5. ASSUME NEW r, StartRead(r) PROVE st' = st
  BY Zenon, <1>5 DEF StartRead
<1>6. ASSUME NEW e, ExpertDirect(e) PROVE st' = st
  BY Zenon, <1>5, <1>6 DEF ExpertDirect, ExpertLoad
<1>7. ASSUME NEW t, Read(t) \/ ReadF32(t) PROVE st' = st
  BY Zenon, <1>5, <1>7 DEF Read, ReadF32
<1> QED BY Zenon, <1>2, <1>3, <1>4, <1>6, <1>7 DEF ShardsNext

(* No layer is bound yet. *)
LEMMA UnboundOk ==
  ASSUME NEW p, NEW t
  PROVE  ~Unbound.ok /\ BoundOk(p, t, Unbound) /\ StreamOk(p, t, Unbound)
<1>1. ~Unbound.ok
  BY DEF Unbound
<1> QED BY Zenon, <1>1 DEF BoundOk, StreamOk

LEMMA InitLayerInv ==
  ASSUME BindInit
  PROVE  LayerInv
<1>1. PICK k \in Kinds : plan_layer = Plans[k]
  BY Zenon DEF BindInit
<1>2. PlanOk(plan_layer)
  BY Zenon, <1>1, PlansAsk, NamesAssumption DEF PlanOk
<1>3. bound = Unbound /\ streamed = Unbound
  BY Zenon DEF BindInit
<1> QED BY Zenon, <1>2, <1>3, UnboundOk DEF LayerInv

LEMMA NextLayerInv ==
  ASSUME StInv, LayerInv, [BindNext]_<<shardVars, bindVars>>
  PROVE  LayerInv'
<1>1. CASE st' = st /\ UNCHANGED bindVars
  <2>1. plan_layer' = plan_layer /\ bound' = bound /\ streamed' = streamed
    BY Zenon, <1>1 DEF bindVars
  <2> QED BY Zenon, <1>1, <2>1 DEF LayerInv
<1>2. CASE ShardsNext /\ UNCHANGED bindVars
  <2>1. CASE st.phase = "open"
    BY Zenon, <1>1, <1>2, <2>1, OpenStays
  <2>2. CASE st.phase # "open"
    <3>1. plan_layer' = plan_layer /\ bound' = bound /\ streamed' = streamed
      BY Zenon, <1>2 DEF bindVars
    <3>2. ~bound'.ok /\ ~streamed'.ok
      BY Zenon, <2>2, <3>1 DEF LayerInv
    <3> QED BY Zenon, <3>1, <3>2 DEF LayerInv, BoundOk, StreamOk
  <2> QED BY Zenon, <2>1, <2>2
<1>3. CASE BindLayer
  <2>1. st.phase = "open" /\ bound' \in {Unbound, Loaded}
    BY Zenon, <1>3 DEF BindLayer
  <2>2. st' = st /\ plan_layer' = plan_layer /\ streamed' = streamed
    BY Zenon, <1>3 DEF BindLayer, shardVars
  <2>3. BoundOk(plan_layer, st.t, Loaded)
    BY Zenon, <2>1, LoadedIs DEF LayerInv
  <2>4. BoundOk(plan_layer, st.t, bound')
    BY Zenon, <2>1, <2>3, UnboundOk
  <2> QED BY Zenon, <2>1, <2>2, <2>4 DEF LayerInv
<1>4. CASE BindFree
  <2>1. bound' = Unbound
    BY Zenon, <1>4 DEF BindFree
  <2>2. st' = st /\ plan_layer' = plan_layer /\ streamed' = streamed
    BY Zenon, <1>4 DEF BindFree, shardVars
  <2> QED BY Zenon, <2>1, <2>2, UnboundOk DEF LayerInv
<1>5. CASE BindCloses
  <2>1. ~bound.ok /\ streamed' = Unbound /\ plan_layer' = plan_layer /\ bound' = bound
    BY Zenon, <1>5 DEF BindCloses
  <2> QED BY Zenon, <2>1, UnboundOk DEF LayerInv, BoundOk
<1>6. ASSUME NEW int8 \in BOOLEAN, BindMem(int8) PROVE LayerInv'
  <2>1. st.phase = "open" /\ Packable /\ streamed' = Streamed(int8)
    BY Zenon, <1>6 DEF BindMem
  <2>2. st' = st /\ plan_layer' = plan_layer /\ bound' = bound
    BY Zenon, <1>6 DEF BindMem, shardVars
  <2>3. StreamOk(plan_layer, st.t, Streamed(int8))
    BY Zenon, <2>1, StreamedIs DEF LayerInv
  <2> QED BY Zenon, <2>1, <2>2, <2>3 DEF LayerInv
<1>7. UNCHANGED <<shardVars, bindVars>> => st' = st /\ UNCHANGED bindVars
  BY Zenon DEF shardVars
<1> QED BY Zenon, <1>1, <1>2, <1>3, <1>4, <1>5, <1>6, <1>7 DEF BindNext

(* A bound or streamed layer keeps what it was bound with, whatever the    *)
(* checkpoint reader does meanwhile.                                       *)
THEOREM LayerAlways == BindSpec => []LayerInv
<1>1. BindInit => LayerInv
  BY Zenon, InitLayerInv
<1>2. StInv /\ LayerInv /\ [BindNext]_<<shardVars, bindVars>> => LayerInv'
  BY Zenon, NextLayerInv
<1> QED BY <1>1, <1>2, StAlways, PTL DEF BindSpec

(* The requests, as the properties of LayerBind number them. *)
LEMMA ReqsAre == Reqs = 1..Len(plan_layer)
BY Zenon DEF Reqs, NReq

(* TagTellsFormat, for every dimension of the model, every checkpoint and  *)
(* every kind of layer: the one tag of a layer tells how each of its       *)
(* matrices is stored, and its vectors are fp32.                           *)
THEOREM TagAlwaysTells == BindSpec => []TagTellsFormat
<1>1. LayerInv => TagTellsFormat
  <2> SUFFICES ASSUME LayerInv PROVE TagTellsFormat
    OBVIOUS
  <2>1. ASSUME NEW b, b.ok => Tagged(plan_layer, b) PROVE AsTagged(b)
    BY Zenon, <2>1, ReqsAre DEF AsTagged, Tagged
  <2>2. AsTagged(bound)
    BY Zenon, <2>1 DEF LayerInv, BoundOk
  <2>3. AllMatricesBF16 => AllBF16Matrices(plan_layer, st.t)
    BY Zenon, ReqsAre DEF AllMatricesBF16, AllBF16Matrices
  <2>4. ASSUME streamed.ok, streamed.int8 => AllMatricesBF16 PROVE AsTagged(streamed)
    BY Zenon, <2>1, <2>3, <2>4 DEF LayerInv, StreamOk
  <2> QED BY Zenon, <2>2, <2>4 DEF TagTellsFormat
<1> QED BY <1>1, LayerAlways, PTL

(* StreamedEqualsLoaded, for every dimension of the model, every           *)
(* checkpoint and every kind of layer: the packed trunk serves the layer   *)
(* that the checkpoint holds.                                              *)
THEOREM StreamedAlwaysEqual == BindSpec => []StreamedEqualsLoaded
<1>1. LayerInv => StreamedEqualsLoaded
  <2> SUFFICES ASSUME LayerInv, bound.ok, streamed.ok, ~streamed.int8
               PROVE  /\ bound.wdt = streamed.wdt
                      /\ \A i \in Reqs : bound.field[i].t = streamed.field[i].t
                                         /\ bound.field[i].n = streamed.field[i].n
                                         /\ bound.field[i].fmt = streamed.field[i].fmt
    BY Zenon DEF StreamedEqualsLoaded
  <2>1. Serves(plan_layer, bound) /\ Tagged(plan_layer, bound)
        /\ bound.wdt = IF AllBF16(plan_layer, st.t) THEN "BF16" ELSE "F32"
    BY Zenon DEF LayerInv, BoundOk
  <2>2. Serves(plan_layer, streamed) /\ Tagged(plan_layer, streamed)
        /\ streamed.wdt = "BF16" /\ AllBF16(plan_layer, st.t)
    BY Zenon DEF LayerInv, StreamOk
  <2>3. bound.wdt = streamed.wdt
    BY Zenon, <2>1, <2>2
  <2>4. ASSUME NEW i \in Reqs
        PROVE  /\ bound.field[i].t = streamed.field[i].t
               /\ bound.field[i].n = streamed.field[i].n
               /\ bound.field[i].fmt = streamed.field[i].fmt
    <3>1. i \in 1..Len(plan_layer)
      BY Zenon, ReqsAre
    <3>2. bound.field[i].t = streamed.field[i].t /\ bound.field[i].n = streamed.field[i].n
      BY Zenon, <2>1, <2>2, <3>1 DEF Serves
    <3>3. bound.field[i].fmt = streamed.field[i].fmt
      BY Zenon, <2>1, <2>2, <2>3, <3>1 DEF Tagged
    <3> QED BY Zenon, <3>2, <3>3
  <2> QED BY Zenon, <2>3, <2>4
<1> QED BY <1>1, LayerAlways, PTL

(* FieldsDisjoint, for every dimension of the model, every checkpoint and  *)
(* every kind of layer: the fields of a loaded layer never overlap, nor do *)
(* those of a streamed one when no two tensors of a shard begin at the     *)
(* same byte, as in a file whose tensors have bytes and do not overlap.    *)
THEOREM FieldsAlwaysDisjoint == BindSpec => [](LaidOut(bound) /\ (OffsApart(st.t) => FieldsDisjoint))
<1>1. LayerInv => LaidOut(bound) /\ (OffsApart(st.t) => FieldsDisjoint)
  <2> SUFFICES ASSUME LayerInv PROVE LaidOut(bound) /\ (OffsApart(st.t) => FieldsDisjoint)
    OBVIOUS
  <2>1. ASSUME NEW b, b.ok => Laid(plan_layer, b) PROVE LaidOut(b)
    BY Zenon, <2>1, ReqsAre DEF LaidOut, Laid
  <2>2. LaidOut(bound)
    BY Zenon, <2>1 DEF LayerInv, BoundOk
  <2>3. OffsApart(st.t) => LaidOut(streamed)
    BY Zenon, <2>1 DEF LayerInv, StreamOk
  <2> QED BY Zenon, <2>2, <2>3 DEF FieldsDisjoint
<1> QED BY <1>1, LayerAlways, PTL
=============================================================================
