-------------------------- MODULE SpecDecodeProof --------------------------
(***************************************************************************)
(* Speculation is exact for every model, prompt, draft length and run of   *)
(* the program: the inductive invariant of SpecDecode, that every step     *)
(* keeps it, first those without a draft, then those that draft ids and    *)
(* verify them, and the properties that follow.  The argument rests on one *)
(* notion, a model state that is that of a prefix of a sequence, and on    *)
(* two facts about it: feeding the ids that come next keeps it, and its    *)
(* logits are those of the exact model.                                    *)
(***************************************************************************)
EXTENDS SpecDecode, Integers, TLAPS
LOCAL INSTANCE WellFoundedInduction

(* The argmax is the index of a logit. *)
ArgmaxInVocab == \A a \in Archs, s \in Seq(Vocab) : Argmax(a, s) \in Vocab

Ids == Vocab \cup {Torn}
Model == [ks : Seq(Ids), kv : Seq(Seq(Ids)), cached : Nat]

DecodeTypeOK ==
  /\ pc \in {"off", "first", "step", "draft", "verify", "serial", "emit", "save"}
  /\ mode \in {"recompute", "serial", "ngram", "hybrid"}
  /\ pc # "off" => arch \in Archs
  /\ seq \in Seq(Vocab) /\ d \in Seq(Vocab) /\ emit \in Seq(Vocab)
  /\ w \in Model /\ dw \in Model /\ dsnap \in Seq(Ids)
  /\ gen \in Nat /\ nout \in Nat /\ Tmax \in Nat

(* Where the buffers end: room for every id that is still to come and one  *)
(* more, and rows for what is cached (k3_run.c:1034).                      *)
RoomInv ==
  /\ w.cached <= Len(w.kv) /\ dw.cached <= Len(dw.kv)
  /\ Len(w.kv) <= Tmax /\ Len(dw.kv) <= Tmax
  /\ nout <= gen
  /\ pc # "off" => Tmax = T + (gen - nout) + 1

(* The state file, from its first byte on. *)
FileGood ==
  /\ file \in [part : 0..SaveParts, arch : Archs, seq : Seq(Vocab), w : Model]
  /\ IsPrefixState(file.w, file.seq) /\ file.w.cached < Len(file.seq)
  /\ Len(file.w.kv) = file.w.cached

FileInv ==
  /\ file = NoFile \/ FileGood
  /\ pc = "save" => FileGood /\ file.part < SaveParts

(* The exact model's state, before the first step and between two. *)
ExactInv ==
  /\ pc = "first" => IsPrefixState(w, seq) /\ w.cached < T /\ dw = Blank /\ nout = 0
  /\ pc = "step" /\ mode # "recompute" => IsPrefixState(w, seq) /\ w.cached = T - 1
  /\ pc \in {"draft", "verify", "serial"} =>
       mode # "recompute" /\ IsPrefixState(w, seq) /\ w.cached = T - 1
  /\ pc \in {"step", "draft", "verify", "serial", "emit"} => T > 0

(* Each id of e is the exact model's choice after s and those before it. *)
Greedy(s, e) ==
  \A i \in 1..Len(e) : e[i] = Argmax(arch, SubSeq(s \o e, 1, Len(s) + i - 1))

(* The ids that are about to be appended are the exact model's. *)
EmitInv ==
  pc = "emit" =>
    /\ Len(emit) > 0 /\ Len(emit) <= gen - nout
    /\ Greedy(seq, emit)
    /\ mode # "recompute" =>
         IsPrefixState(w, seq \o emit) /\ w.cached = T + Len(emit) - 1

(* A draft fits the buffers. *)
DraftRoomInv ==
  /\ pc \in {"draft", "verify"} => DraftRoom /\ Len(d) <= SpecN
  /\ pc = "draft" => mode = "hybrid" /\ Len(d) < SpecN
  /\ pc = "verify" => mode \in {"ngram", "hybrid"} /\ Len(d) > 0
  /\ pc = "serial" => d = << >> /\ nout < gen

(* The draft model's state, and the copy of it that a rejection restores. *)
DraftInv ==
  mode = "hybrid" =>
    /\ pc = "step" => dw.cached = w.cached /\ (torn \/ IsPrefixState(dw, seq))
    /\ pc = "emit" => dw.cached = w.cached /\ (torn \/ IsPrefixState(dw, seq \o emit))
    /\ pc \in {"draft", "verify", "serial"} =>
         dw.cached = w.cached + Len(d) /\ (torn \/ IsPrefixState(dw, seq \o d))
    /\ pc \in {"draft", "verify"} => torn \/ dsnap = SubSeq(seq, 1, w.cached)

(* The inductive invariant. *)
DecodeInv ==
  /\ DecodeTypeOK
  /\ RoomInv
  /\ FileInv
  /\ ExactInv
  /\ EmitInv
  /\ DraftRoomInv
  /\ DraftInv

-----------------------------------------------------------------------------
(* Sequences. *)

(* A function on 1..n is a sequence. *)
LEMMA SeqOfFunction ==
  ASSUME NEW S, NEW n \in Nat, NEW f \in [1..n -> S]
  PROVE  f \in Seq(S) /\ Len(f) = n
OBVIOUS

(* A sequence is a function on 1..Len(s). *)
LEMMA LenProperties ==
  ASSUME NEW S, NEW s \in Seq(S)
  PROVE  Len(s) \in Nat /\ s \in [1..Len(s) -> S]
OBVIOUS

(* Its elements. *)
LEMMA ElementOfSeq ==
  ASSUME NEW S, NEW s \in Seq(S), NEW n \in 1..Len(s)
  PROVE  s[n] \in S
OBVIOUS

(* The empty sequence. *)
LEMMA EmptySeq ==
  ASSUME NEW S
  PROVE  << >> \in Seq(S) /\ \A s \in Seq(S) : Len(s) = 0 <=> s = << >>
OBVIOUS

(* Two parts. *)
LEMMA ConcatProperties ==
  ASSUME NEW S, NEW s \in Seq(S), NEW t \in Seq(S)
  PROVE  s \o t \in Seq(S) /\ Len(s \o t) = Len(s) + Len(t)
OBVIOUS

(* What two parts hold. *)
LEMMA ConcatElement ==
  ASSUME NEW S, NEW s \in Seq(S), NEW t \in Seq(S), NEW i \in 1..(Len(s) + Len(t))
  PROVE  (s \o t)[i] = IF i <= Len(s) THEN s[i] ELSE t[i - Len(s)]
OBVIOUS

(* The n elements behind the first c. *)
Slice(s, c, n) == SubSeq(s, c + 1, c + n)

(* What a slice holds. *)
LEMMA SliceOf ==
  ASSUME NEW S, NEW s \in Seq(S), NEW c \in Nat, NEW n \in Nat, c + n <= Len(s),
         NEW i \in 1..n
  PROVE  Slice(s, c, n)[i] = s[c + i]
BY DEF Slice

(* Its type and its length. *)
LEMMA SliceTyped ==
  ASSUME NEW S, NEW s \in Seq(S), NEW c \in Nat, NEW n \in Nat, c + n <= Len(s)
  PROVE  Slice(s, c, n) \in Seq(S) /\ n = Len(Slice(s, c, n))
BY DEF Slice

(* One element as a slice. *)
LEMMA OneSlice ==
  ASSUME NEW S, NEW s \in Seq(S), NEW c \in Nat, c + 1 <= Len(s)
  PROVE  Slice(s, c, 1) = <<s[c + 1]>> /\ Slice(s, c, 1) \in Seq(S) /\ 1 = Len(Slice(s, c, 1))
<1>1. Slice(s, c, 1) \in Seq(S) /\ Len(Slice(s, c, 1)) = 1 /\ Slice(s, c, 1)[1] = s[c + 1]
  BY DEF Slice
<1> QED BY <1>1

(* The whole sequence as a slice and as a prefix. *)
LEMMA WholeSlice ==
  ASSUME NEW S, NEW s \in Seq(S)
  PROVE  Slice(s, 0, Len(s)) = s /\ SubSeq(s, 1, Len(s)) = s
BY DEF Slice

(* What a prefix holds. *)
LEMMA PrefixFacts ==
  ASSUME NEW S, NEW s \in Seq(S), NEW n \in Nat, n <= Len(s)
  PROVE  /\ SubSeq(s, 1, n) \in Seq(S)
         /\ Len(SubSeq(s, 1, n)) = n
         /\ \A i \in 1..n : SubSeq(s, 1, n)[i] = s[i]
OBVIOUS

(* A prefix of a slice. *)
LEMMA PrefixOfSlice ==
  ASSUME NEW S, NEW s \in Seq(S), NEW c \in Nat, NEW n \in Nat, c + n <= Len(s),
         NEW i \in Nat, i <= n
  PROVE  SubSeq(Slice(s, c, n), 1, i) = Slice(s, c, i)
BY DEF Slice

(* A prefix of a prefix. *)
LEMMA PrefixOfPrefix ==
  ASSUME NEW S, NEW s \in Seq(S), NEW n \in Nat, n <= Len(s), NEW i \in Nat, i <= n
  PROVE  SubSeq(SubSeq(s, 1, n), 1, i) = SubSeq(s, 1, i)
OBVIOUS

(* A prefix and the slice behind it. *)
LEMMA PrefixThenSlice ==
  ASSUME NEW S, NEW s \in Seq(S), NEW c \in Nat, NEW n \in Nat, c + n <= Len(s)
  PROVE  SubSeq(s, 1, c) \o Slice(s, c, n) = SubSeq(s, 1, c + n)
BY DEF Slice

(* A prefix of the first of two parts. *)
LEMMA PrefixOfConcat ==
  ASSUME NEW S, NEW s \in Seq(S), NEW t \in Seq(S), NEW n \in Nat, n <= Len(s)
  PROVE  SubSeq(s \o t, 1, n) = SubSeq(s, 1, n)
OBVIOUS

(* A prefix that reaches into the second of two parts. *)
LEMMA PrefixIntoConcat ==
  ASSUME NEW S, NEW s \in Seq(S), NEW t \in Seq(S), NEW n \in Nat, n <= Len(t)
  PROVE  SubSeq(s \o t, 1, Len(s) + n) = s \o SubSeq(t, 1, n)
OBVIOUS

(* Appending to the second of two parts. *)
LEMMA ConcatAppend ==
  ASSUME NEW S, NEW s \in Seq(S), NEW t \in Seq(S), NEW v \in S
  PROVE  s \o Append(t, v) = (s \o t) \o <<v>>
OBVIOUS

(* Max is what it is meant to be; MaxFacts below proves it. *)
MaxIsLargest ==
  \A n \in Nat : \A S \in SUBSET (0..n) :
    S # {} => Max(S) \in S /\ \A y \in S : y <= Max(S)

(* The larger of two numbers. *)
LEMMA MaxOfTwo ==
  ASSUME NEW a \in Nat, NEW b \in Nat
  PROVE  Max({a, b}) = IF a >= b THEN a ELSE b
<1>1. \E x \in {a, b} : \A y \in {a, b} : x >= y
  OBVIOUS
<1>2. Max({a, b}) \in {a, b} /\ \A y \in {a, b} : Max({a, b}) >= y
  BY Zenon, <1>1 DEF Max
<1> QED BY <1>2

-----------------------------------------------------------------------------
(* Prefix states. *)

(* A state with c cached ids whose rows fit a buffer of N. *)
Sized(m, c, N) == m \in Model /\ m.cached = c /\ c <= Len(m.kv) /\ Len(m.kv) <= N

(* The parts of a state with c cached ids after k more. *)
ForwardIs(m, c, b, k) ==
  LET f == Forward(m, b)
      a == Absorb(m, b)
      n == c + k
      rows == IF Len(m.kv) >= n THEN Len(m.kv) ELSE n
  IN  /\ a \in Model /\ a.cached = c /\ a.ks = m.ks \o b
      /\ f \in Model /\ f.cached = n /\ f.ks = m.ks \o b /\ f.kv = a.kv
      /\ Len(f.kv) = rows
      /\ \A p \in 1..rows :
           f.kv[p] = IF p > c /\ p <= n THEN m.ks \o SubSeq(b, 1, p - c) ELSE m.kv[p]

(* What Absorb and Forward do to the parts of a state. *)
LEMMA ForwardParts ==
  ASSUME NEW m \in Model, NEW c \in Nat, c = m.cached, NEW b \in Seq(Ids),
         NEW k \in Nat, k = Len(b), c <= Len(m.kv)
  PROVE  ForwardIs(m, c, b, k)
<1> DEFINE n == c + k
           rows == IF Len(m.kv) >= n THEN Len(m.kv) ELSE n
           row(p) == IF p > c /\ p <= n THEN m.ks \o SubSeq(b, 1, p - c) ELSE m.kv[p]
           kv == [p \in 1..rows |-> row(p)]
           a == Absorb(m, b)
           f == Forward(m, b)
<1>1. m.ks \in Seq(Ids) /\ m.kv \in Seq(Seq(Ids))
  BY DEF Model
<1>2. Len(m.kv) \in Nat /\ Len(b) \in Nat /\ n \in Nat /\ rows \in Nat
  BY <1>1, LenProperties
<1>3. Max({Len(m.kv), n}) = rows
  BY Zenon, <1>2, MaxOfTwo
<1>4. ASSUME NEW p \in 1..rows PROVE row(p) \in Seq(Ids)
  <2>1. CASE p > c /\ p <= n
    <3>1. p - c \in Nat /\ p - c <= Len(b)
      BY <1>2, <2>1
    <3>2. SubSeq(b, 1, p - c) \in Seq(Ids)
      BY <3>1, PrefixFacts
    <3> QED BY <1>1, <2>1, <3>2, ConcatProperties
  <2>2. CASE ~(p > c /\ p <= n)
    <3>1. p \in 1..Len(m.kv)
      BY <1>2, <2>2
    <3> QED BY <1>1, <2>2, <3>1, ElementOfSeq
  <2> QED BY <2>1, <2>2
<1>5. kv \in Seq(Seq(Ids)) /\ Len(kv) = rows
  <2>1. kv \in [1..rows -> Seq(Ids)]
    BY <1>4
  <2> HIDE DEF kv, rows
  <2> QED BY <1>2, <2>1, SeqOfFunction
<1>6. \A p \in 1..rows : kv[p] = row(p)
  OBVIOUS
<1>7. m.ks \o b \in Seq(Ids)
  BY <1>1, ConcatProperties
<1>8. a = [m EXCEPT !.ks = m.ks \o b, !.kv = kv]
  BY Zenon, <1>3 DEF Absorb
<1> HIDE DEF kv, rows
<1>9. a.ks = m.ks \o b /\ a.kv = kv /\ a.cached = c /\ a \in Model
  BY Zenon, <1>5, <1>7, <1>8 DEF Model
<1> HIDE DEF a
<1>10. f = [a EXCEPT !.cached = @ + Len(b)]
  BY DEF Forward, a
<1>11. f.ks = a.ks /\ f.kv = a.kv /\ f.cached = n /\ f \in Model
  BY Zenon, <1>2, <1>9, <1>10 DEF Model
<1> HIDE DEF f, row
<1> QED BY Zenon, <1>5, <1>6, <1>9, <1>11 DEF ForwardIs, rows, row, a, f

(* A forward stays inside the buffer when its rows do. *)
LEMMA ForwardSized ==
  ASSUME NEW m, NEW c \in Nat, NEW N \in Nat, Sized(m, c, N),
         NEW b \in Seq(Ids), NEW k \in Nat, k = Len(b), c + k <= N
  PROVE  Sized(Forward(m, b), c + k, N)
<1>1. m \in Model /\ c = m.cached /\ c <= Len(m.kv) /\ Len(m.kv) <= N
  BY Zenon DEF Sized
<1>2. ForwardIs(m, c, b, k)
  BY Zenon, <1>1, ForwardParts
<1> DEFINE f == Forward(m, b)
<1>3. /\ f \in Model /\ f.cached = c + k
      /\ Len(f.kv) = IF Len(m.kv) >= c + k THEN Len(m.kv) ELSE c + k
  BY Zenon, <1>2 DEF ForwardIs
<1>4. Len(m.kv) \in Nat
  BY <1>1, LenProperties DEF Model
<1> HIDE DEF f
<1>5. c + k <= Len(f.kv) /\ Len(f.kv) <= N
  BY <1>1, <1>3, <1>4
<1> QED BY Zenon, <1>3, <1>5 DEF Sized, f

(* Only the cached ids matter. *)
LEMMA PrefixStateOf ==
  ASSUME NEW m \in Model, NEW c \in Nat, c = m.cached,
         NEW s \in Seq(Ids), NEW t \in Seq(Ids), IsPrefixState(m, s),
         c <= Len(t), SubSeq(s, 1, c) = SubSeq(t, 1, c)
  PROVE  IsPrefixState(m, t)
<1>1. /\ c <= Len(s) /\ m.ks = SubSeq(s, 1, c)
      /\ \A p \in 1..c : m.kv[p] = SubSeq(s, 1, p)
  BY Zenon DEF IsPrefixState
<1>2. ASSUME NEW p \in 1..c PROVE m.kv[p] = SubSeq(t, 1, p)
  <2>1. p \in Nat /\ p <= c
    OBVIOUS
  <2>2. SubSeq(s, 1, p) = SubSeq(SubSeq(s, 1, c), 1, p)
    BY <1>1, <2>1, PrefixOfPrefix
  <2>3. SubSeq(t, 1, p) = SubSeq(SubSeq(t, 1, c), 1, p)
    BY <2>1, PrefixOfPrefix
  <2> QED BY Zenon, <1>1, <2>2, <2>3
<1> QED BY Zenon, <1>1, <1>2 DEF IsPrefixState

(* A prefix state of s is one of s and anything behind it. *)
LEMMA PrefixStateOfConcat ==
  ASSUME NEW m \in Model, NEW s \in Seq(Ids), NEW t \in Seq(Ids), IsPrefixState(m, s)
  PROVE  IsPrefixState(m, s \o t)
<1>1. PICK c \in Nat : c = m.cached
  BY DEF Model
<1>2. c <= Len(s)
  BY Zenon, <1>1 DEF IsPrefixState
<1>3. SubSeq(s \o t, 1, c) = SubSeq(s, 1, c)
  BY <1>2, PrefixOfConcat
<1>4. s \o t \in Seq(Ids) /\ Len(s \o t) = Len(s) + Len(t) /\ Len(s) \in Nat /\ Len(t) \in Nat
  BY ConcatProperties, LenProperties
<1>5. c <= Len(s \o t)
  BY <1>2, <1>4
<1> QED BY Zenon, <1>1, <1>3, <1>4, <1>5, PrefixStateOf

(* Feeding the next n ids of the sequence keeps the state one of a prefix. *)
LEMMA ForwardKeepsPrefix ==
  ASSUME NEW m \in Model, NEW c \in Nat, c = m.cached, c <= Len(m.kv),
         NEW s \in Seq(Ids), IsPrefixState(m, s), NEW n \in Nat, c + n <= Len(s)
  PROVE  IsPrefixState(Forward(m, Slice(s, c, n)), s)
<1> DEFINE b == Slice(s, c, n)
           f == Forward(m, b)
<1>1. /\ c <= Len(s) /\ m.ks = SubSeq(s, 1, c)
      /\ \A p \in 1..c : m.kv[p] = SubSeq(s, 1, p)
  BY Zenon DEF IsPrefixState
<1>2. b \in Seq(Ids) /\ n = Len(b)
  BY Zenon, SliceTyped
<1>3. /\ f.cached = c + n /\ f.ks = m.ks \o b
      /\ \A p \in 1..(c + n) :
            f.kv[p] = IF p > c THEN m.ks \o SubSeq(b, 1, p - c) ELSE m.kv[p]
  <2> HIDE DEF b
  <2> DEFINE rows == IF Len(m.kv) >= c + n THEN Len(m.kv) ELSE c + n
  <2>1. ForwardIs(m, c, b, n)
    BY Zenon, <1>2, ForwardParts
  <2>2. /\ f.cached = c + n /\ f.ks = m.ks \o b
        /\ \A p \in 1..rows :
             f.kv[p] = IF p > c /\ p <= c + n
                       THEN m.ks \o SubSeq(b, 1, p - c) ELSE m.kv[p]
    BY Zenon, <2>1 DEF ForwardIs
  <2> HIDE DEF f
  <2>3. \A p \in 1..(c + n) : p \in 1..rows /\ p <= c + n
    BY LenProperties DEF Model
  <2> QED BY Zenon, <2>2, <2>3
<1> HIDE DEF f
<1>4. f.ks = SubSeq(s, 1, c + n)
  <2>1. SubSeq(s, 1, c) \o Slice(s, c, n) = SubSeq(s, 1, c + n)
    BY Zenon, PrefixThenSlice
  <2> QED BY Zenon, <1>1, <1>3, <2>1
<1>5. ASSUME NEW p \in 1..(c + n) PROVE f.kv[p] = SubSeq(s, 1, p)
  <2>1. CASE p <= c
    <3>1. p \in 1..c /\ ~(p > c)
      BY <2>1
    <3> QED BY Zenon, <1>1, <1>3, <3>1
  <2>2. CASE p > c
    <3>1. PICK q \in Nat : q = p - c
      BY <2>2
    <3>2. q <= n /\ c + q <= Len(s)
      BY <2>2, <3>1, LenProperties
    <3>3. c + q = p
      BY <3>1
    <3>4. f.kv[p] = m.ks \o SubSeq(b, 1, q)
      BY Zenon, <1>3, <2>2, <3>1
    <3>5. SubSeq(b, 1, q) = Slice(s, c, q)
      BY Zenon, <3>2, PrefixOfSlice
    <3>6. SubSeq(s, 1, c) \o Slice(s, c, q) = SubSeq(s, 1, c + q)
      BY Zenon, <3>2, PrefixThenSlice
    <3> QED BY Zenon, <1>1, <3>3, <3>4, <3>5, <3>6
  <2> QED BY <2>1, <2>2
<1> QED BY Zenon, <1>3, <1>4, <1>5 DEF IsPrefixState, b, f

(* After i ids of the n that follow the first c, the logits are exact. *)
ExactLogit(m, s, c, n, i) ==
  Logit(m, Slice(s, c, n), i) = Argmax(arch, SubSeq(s, 1, c + i))

(* The logits of a prefix state are those of the exact model. *)
LEMMA LogitIsExact ==
  ASSUME NEW m \in Model, NEW c \in Nat, c = m.cached, NEW s \in Seq(Ids), IsPrefixState(m, s),
         NEW n \in Nat, c + n <= Len(s), NEW i \in Nat, i <= n
  PROVE  ExactLogit(m, s, c, n, i)
<1> DEFINE b == Slice(s, c, n)
           ctx == m.ks \o SubSeq(b, 1, i)
<1>1. /\ m.ks = SubSeq(s, 1, c)
      /\ \A p \in 1..c : m.kv[p] = SubSeq(s, 1, p)
  BY Zenon DEF IsPrefixState
<1>2. SubSeq(b, 1, i) = Slice(s, c, i)
  BY Zenon, PrefixOfSlice
<1>3. c + i \in Nat /\ c + i <= Len(s)
  BY LenProperties
<1>4. SubSeq(s, 1, c) \o Slice(s, c, i) = SubSeq(s, 1, c + i)
  BY Zenon, <1>3, PrefixThenSlice
<1> HIDE DEF b
<1>5. ctx = SubSeq(s, 1, c + i)
  BY Zenon, <1>1, <1>2, <1>4
<1> HIDE DEF ctx
<1>6. Len(ctx) = c + i
  BY Zenon, <1>3, <1>5, PrefixFacts
<1>7. ASSUME NEW p \in 1..c PROVE m.kv[p] = SubSeq(ctx, 1, p)
  <2>1. p \in Nat /\ p <= c + i
    OBVIOUS
  <2>2. SubSeq(SubSeq(s, 1, c + i), 1, p) = SubSeq(s, 1, p)
    BY Zenon, <1>3, <2>1, PrefixOfPrefix
  <2> QED BY Zenon, <1>1, <1>5, <2>2
<1>8. Logit(m, b, i) = Argmax(arch, ctx)
  BY Zenon, <1>6, <1>7 DEF Logit, ctx
<1> QED BY Zenon, <1>5, <1>8 DEF ExactLogit, b

-----------------------------------------------------------------------------
(* What the steps have in common. *)

(* --spec is at least one when a step drafts. *)
LEMMA SpecNFacts ==
  SpecN \in Nat /\ SpecN > 0
BY DecodeAssumption DEF DecodeAssumption

(* Token ids are ids. *)
LEMMA VocabIds ==
  ASSUME NEW s \in Seq(Vocab) PROVE s \in Seq(Ids)
<1>1. Len(s) \in Nat /\ s \in [1..Len(s) -> Vocab]
  BY LenProperties
<1>2. s \in [1..Len(s) -> Ids]
  BY <1>1 DEF Ids
<1> QED BY Zenon, <1>1, <1>2, SeqOfFunction

(* A context that has absorbed nothing. *)
LEMMA BlankFacts ==
  ASSUME NEW N \in Nat, NEW s \in Seq(Ids)
  PROVE  Sized(Blank, 0, N) /\ IsPrefixState(Blank, s)
<1>1. Blank.ks = << >> /\ Blank.kv = << >> /\ Blank.cached = 0 /\ Blank \in Model
  BY EmptySeq DEF Blank, Model
<1>2. Len(<< >>) = 0 /\ Len(s) \in Nat
  BY LenProperties
<1>3. Sized(Blank, 0, N)
  BY <1>1, <1>2 DEF Sized
<1>4. SubSeq(s, 1, 0) = << >>
  BY <1>2, PrefixFacts, EmptySeq
<1>5. IsPrefixState(Blank, s)
  BY <1>1, <1>2, <1>4 DEF IsPrefixState
<1> QED BY <1>3, <1>5

(* The exact model's choice is an id. *)
LEMMA ArgmaxFacts ==
  ASSUME ArgmaxInVocab, arch \in Archs, NEW s \in Seq(Vocab), NEW n \in Nat, n <= Len(s)
  PROVE  Argmax(arch, SubSeq(s, 1, n)) \in Vocab
<1>1. SubSeq(s, 1, n) \in Seq(Vocab)
  BY PrefixFacts
<1> QED BY Zenon, <1>1 DEF ArgmaxInVocab

(* A step that appends the model's choice after the whole sequence. *)
LEMMA OneGreedy ==
  ASSUME NEW s \in Seq(Vocab), NEW v \in Vocab, v = Argmax(arch, s)
  PROVE  <<v>> \in Seq(Vocab) /\ Len(<<v>>) = 1 /\ Greedy(s, <<v>>)
<1> DEFINE e == <<v>>
<1>1. e \in Seq(Vocab) /\ Len(e) = 1 /\ e[1] = v /\ Len(s) \in Nat
  BY LenProperties
<1> HIDE DEF e
<1>2. SubSeq(s \o e, 1, Len(s)) = SubSeq(s, 1, Len(s))
  BY <1>1, PrefixOfConcat
<1>3. SubSeq(s, 1, Len(s)) = s
  BY Zenon, WholeSlice
<1>4. \A i \in 1..Len(e) : i = 1 /\ Len(s) + i - 1 = Len(s)
  BY <1>1
<1>5. Greedy(s, e)
  BY Zenon, <1>1, <1>2, <1>3, <1>4 DEF Greedy
<1> QED BY <1>1, <1>5 DEF e

(* The state file is not touched. *)
LEMMA FileKept ==
  ASSUME FileInv, file' = file, pc' # "save"
  PROVE  FileInv'
BY Zenon DEF FileInv, FileGood, IsPrefixState

(* The end of a process. *)
LEMMA ExitsKeeps ==
  ASSUME Exits, (file = NoFile \/ FileGood)'
  PROVE  DecodeInv'
<1>1. Blank \in Model /\ Blank.cached = 0 /\ Len(Blank.kv) = 0
  BY EmptySeq DEF Blank, Model
<1>2. << >> \in Seq(Vocab) /\ << >> \in Seq(Ids)
  BY EmptySeq
<1>3. DecodeTypeOK'
  BY <1>1, <1>2 DEF Exits, DecodeTypeOK
<1>4. RoomInv'
  BY <1>1 DEF Exits, RoomInv
<1>5. FileInv'
  BY Zenon DEF Exits, FileInv
<1>6. ExactInv' /\ EmitInv' /\ DraftRoomInv' /\ DraftInv'
  BY DEF Exits, ExactInv, EmitInv, DraftRoomInv, DraftInv
<1> QED BY Zenon, <1>3, <1>4, <1>5, <1>6 DEF DecodeInv

(* The ids of a step are found; its iteration's tail comes next. *)
LEMMA FoundKeeps ==
  ASSUME DecodeInv, pc # "off", T > 0, pc' = "emit",
         UNCHANGED <<runVars, seq, nout, dsnap, d, torn, file>>,
         emit' \in Seq(Vocab), Len(emit') > 0, Len(emit') <= gen - nout, Greedy(seq, emit'),
         Sized(w', w'.cached, Tmax), Sized(dw', dw'.cached, Tmax),
         mode # "recompute" =>
            IsPrefixState(w', seq \o emit') /\ w'.cached = T + Len(emit') - 1,
         mode = "hybrid" =>
            dw'.cached = w'.cached /\ (torn \/ IsPrefixState(dw', seq \o emit'))
  PROVE  DecodeInv'
<1>1. DecodeTypeOK' /\ RoomInv'
  BY DEF DecodeInv, DecodeTypeOK, RoomInv, Sized, runVars, T
<1>2. FileInv'
  BY Zenon, FileKept DEF DecodeInv
<1>3. ExactInv'
  BY DEF ExactInv, T
<1>4. Greedy(seq, emit)' <=> Greedy(seq, emit')
  BY Zenon DEF Greedy, runVars
<1>5. EmitInv'
  BY Zenon, <1>4 DEF EmitInv, IsPrefixState, runVars, T
<1>6. DraftRoomInv'
  BY DEF DraftRoomInv
<1>7. DraftInv'
  BY Zenon DEF DraftInv, IsPrefixState, runVars
<1> QED BY Zenon, <1>1, <1>2, <1>3, <1>5, <1>6, <1>7 DEF DecodeInv

-----------------------------------------------------------------------------
(* The steps, one lemma each. *)

(* A process starts. *)
LEMMA StartKeeps ==
  ASSUME DecodeInv, NEW a \in Archs, NEW md \in Modes, NEW g \in Gens, NEW p \in Prompts,
         Start(a, md, g, p)
  PROVE  DecodeInv'
<1>1. /\ p \in Seq(Vocab) /\ p # << >> /\ g \in Nat
      /\ md \in {"recompute", "serial", "ngram", "hybrid"}
  BY DecodeAssumption DEF DecodeAssumption
<1>2. Len(p) \in Nat /\ Len(p) > 0
  BY <1>1, LenProperties, EmptySeq
<1>3. /\ pc' = "first" /\ arch' = a /\ mode' = md /\ gen' = g /\ Tmax' = Len(seq') + g + 1
      /\ nout' = 0 /\ dw' = Blank /\ dsnap' = << >> /\ d' = << >> /\ emit' = << >>
      /\ torn' = FALSE /\ file' = file
  BY DEF Start
<1>4. /\ seq' \in Seq(Vocab) /\ Len(seq') \in Nat
      /\ Sized(w', w'.cached, Len(seq')) /\ w'.cached < Len(seq') /\ IsPrefixState(w', seq')
  <2>1. CASE seq' = p /\ w' = Blank
    <3>1. Sized(Blank, 0, Len(p)) /\ IsPrefixState(Blank, p) /\ Blank.cached = 0
      BY Zenon, <1>1, <1>2, VocabIds, BlankFacts DEF Sized
    <3> QED BY <1>1, <1>2, <2>1, <3>1
  <2>2. CASE file.part # 0 /\ seq' = file.seq \o p /\ w' = file.w
    <3>1. FileGood
      BY <2>2 DEF DecodeInv, FileInv, NoFile
    <3>2. /\ file.seq \in Seq(Vocab) /\ file.w \in Model
          /\ IsPrefixState(file.w, file.seq) /\ file.w.cached < Len(file.seq)
          /\ Len(file.w.kv) = file.w.cached
      BY <3>1 DEF FileGood
    <3>3. /\ seq' \in Seq(Vocab) /\ Len(seq') = Len(file.seq) + Len(p)
          /\ Len(file.seq) \in Nat
      BY <1>1, <2>2, <3>2, ConcatProperties, LenProperties
    <3>4. IsPrefixState(w', seq')
      BY Zenon, <1>1, <2>2, <3>2, VocabIds, PrefixStateOfConcat
    <3>5. w'.cached \in Nat
      BY <2>2, <3>2 DEF Model
    <3> QED BY <1>2, <2>2, <3>2, <3>3, <3>4, <3>5 DEF Sized
  <2> QED BY Zenon, <2>1, <2>2 DEF Start
<1>5. Sized(Blank, 0, Tmax')
  <2>1. Tmax' \in Nat
    BY <1>1, <1>3, <1>4
  <2> QED BY Zenon, <1>1, <2>1, VocabIds, BlankFacts
<1>6. << >> \in Seq(Vocab) /\ << >> \in Seq(Ids)
  BY EmptySeq
<1>7. DecodeTypeOK'
  BY <1>1, <1>3, <1>4, <1>5, <1>6 DEF DecodeTypeOK, Sized
<1>8. Len(w'.kv) \in Nat
  BY <1>4, LenProperties DEF Sized, Model
<1>9. RoomInv'
  BY <1>1, <1>3, <1>4, <1>5, <1>8 DEF RoomInv, Sized, T
<1>10. FileInv'
  BY Zenon, <1>3, FileKept DEF DecodeInv
<1>11. ExactInv'
  BY Zenon, <1>3, <1>4 DEF ExactInv, T, IsPrefixState
<1>12. EmitInv' /\ DraftRoomInv' /\ DraftInv'
  BY <1>3 DEF EmitInv, DraftRoomInv, DraftInv
<1> QED BY Zenon, <1>7, <1>9, <1>10, <1>11, <1>12 DEF DecodeInv

(* Prefill: everything that is not cached is fed, to both models. *)
LEMMA PrefillKeeps ==
  ASSUME ArgmaxInVocab, DecodeInv, Prefill
  PROVE  DecodeInv'
<1>1. /\ pc = "first" /\ nout < gen /\ mode # "recompute" /\ pc' = "emit"
      /\ UNCHANGED <<runVars, seq, nout, dsnap, d, torn, file>>
  BY DEF Prefill
<1>2. /\ seq \in Seq(Vocab) /\ w \in Model /\ dw = Blank /\ arch \in Archs
      /\ gen \in Nat /\ nout \in Nat /\ Tmax \in Nat
      /\ IsPrefixState(w, seq) /\ w.cached < T /\ Tmax = T + (gen - nout) + 1
      /\ w.cached <= Len(w.kv) /\ Len(w.kv) <= Tmax
  BY Zenon, <1>1 DEF DecodeInv, DecodeTypeOK, ExactInv, RoomInv
<1>3. PICK c \in Nat : c = w.cached
  BY <1>2 DEF Model
<1>4. PICK t \in Nat : t = Len(seq)
  BY <1>2, LenProperties
<1>5. PICK n \in Nat : c + n = t
  <2>1. t - c \in Nat /\ c + (t - c) = t
    BY <1>2, <1>3, <1>4 DEF T
  <2> QED BY <2>1
<1>6. seq \in Seq(Ids) /\ c + n <= Len(seq) /\ t <= Len(seq) /\ t <= Tmax /\ t > 0
  <2>1. seq \in Seq(Ids)
    BY Zenon, <1>2, VocabIds
  <2> QED BY <1>1, <1>2, <1>3, <1>4, <1>5, <2>1 DEF T
<1>7. FirstBatch = Slice(seq, c, n)
  BY Zenon, <1>3, <1>4, <1>5 DEF FirstBatch, Slice, T
<1>8. Slice(seq, c, n) \in Seq(Ids) /\ n = Len(Slice(seq, c, n))
  BY Zenon, <1>6, SliceTyped
<1>9. emit' = <<Argmax(arch, seq)>>
  <2>1. emit' = <<Logit(w, Slice(seq, c, n), n)>>
    BY Zenon, <1>7, <1>8 DEF Prefill
  <2>2. n <= n
    OBVIOUS
  <2>3. ExactLogit(w, seq, c, n, n)
    BY Zenon, <1>2, <1>3, <1>6, <2>2, LogitIsExact
  <2>4. SubSeq(seq, 1, c + n) = seq
    BY Zenon, <1>2, <1>4, <1>5, WholeSlice
  <2> QED BY Zenon, <2>1, <2>3, <2>4 DEF ExactLogit
<1>10. emit' \in Seq(Vocab) /\ Len(emit') = 1 /\ Greedy(seq, emit')
  <2>1. Argmax(arch, seq) \in Vocab
    BY Zenon, <1>2 DEF ArgmaxInVocab
  <2> QED BY Zenon, <1>2, <1>9, <2>1, OneGreedy
<1>11. Sized(w', t, Tmax) /\ IsPrefixState(w', seq)
  <2>1. w' = Forward(w, Slice(seq, c, n))
    BY Zenon, <1>7 DEF Prefill
  <2>2. Sized(w, c, Tmax)
    BY Zenon, <1>2, <1>3 DEF Sized
  <2>3. c + n <= Tmax
    BY <1>5, <1>6
  <2>4. Sized(w', c + n, Tmax)
    BY Zenon, <1>2, <1>8, <2>1, <2>2, <2>3, ForwardSized
  <2>5. IsPrefixState(w', seq)
    BY Zenon, <1>2, <1>3, <1>6, <2>1, ForwardKeepsPrefix
  <2> QED BY Zenon, <1>5, <2>4, <2>5
<1>12. IF mode = "hybrid" THEN Sized(dw', t, Tmax) /\ IsPrefixState(dw', seq) ELSE dw' = Blank
  <2>1. CASE mode # "hybrid"
    BY <1>2, <2>1 DEF Prefill
  <2>2. CASE mode = "hybrid"
    <3>1. dw' = Forward(Blank, seq) /\ seq = Slice(seq, 0, t)
      BY Zenon, <1>2, <1>4, <2>2, WholeSlice DEF Prefill
    <3>2. Sized(Blank, 0, Tmax) /\ IsPrefixState(Blank, seq)
      BY Zenon, <1>2, <1>6, BlankFacts
    <3>3. Blank \in Model /\ 0 = Blank.cached /\ 0 <= Len(Blank.kv) /\ 0 \in Nat
      BY <3>2 DEF Sized
    <3>4. 0 + t = t /\ 0 + t <= Tmax /\ 0 + t <= Len(seq)
      BY <1>4, <1>6
    <3>5. Sized(dw', 0 + t, Tmax)
      BY Zenon, <1>2, <1>4, <1>6, <3>1, <3>2, <3>3, <3>4, ForwardSized
    <3>6. IsPrefixState(Forward(Blank, Slice(seq, 0, t)), seq)
      BY Zenon, <1>6, <3>2, <3>3, <3>4, ForwardKeepsPrefix
    <3> QED BY Zenon, <2>2, <3>1, <3>4, <3>5, <3>6
  <2> QED BY <2>1, <2>2
<1>13. Sized(dw', dw'.cached, Tmax)
  <2>1. Sized(Blank, 0, Tmax)
    BY Zenon, <1>2, <1>6, BlankFacts
  <2> QED BY Zenon, <1>12, <2>1 DEF Sized
<1>14. IsPrefixState(w', seq \o emit') /\ (mode = "hybrid" => IsPrefixState(dw', seq \o emit'))
  <2>1. w' \in Model /\ dw' \in Model /\ emit' \in Seq(Ids)
    BY Zenon, <1>10, <1>11, <1>13, VocabIds DEF Sized
  <2> QED BY Zenon, <1>6, <1>11, <1>12, <2>1, PrefixStateOfConcat
<1>15. w'.cached = T + Len(emit') - 1 /\ (mode = "hybrid" => dw'.cached = w'.cached)
  BY <1>4, <1>10, <1>11, <1>12 DEF Sized, T
<1>16. Sized(w', w'.cached, Tmax)
  BY Zenon, <1>11 DEF Sized
<1>17. pc # "off" /\ T > 0 /\ Len(emit') > 0 /\ Len(emit') <= gen - nout
  BY <1>1, <1>2, <1>4, <1>6, <1>10 DEF T
<1> QED BY Zenon, <1>1, <1>10, <1>13, <1>14, <1>15, <1>16, <1>17, FoundKeeps

(* Full recompute: a fresh state absorbs the whole sequence. *)
LEMMA RecomputeKeeps ==
  ASSUME ArgmaxInVocab, DecodeInv, Recompute
  PROVE  DecodeInv'
<1>1. /\ pc \in {"first", "step"} /\ nout < gen /\ mode = "recompute" /\ pc' = "emit"
      /\ w' = w /\ dw' = dw /\ UNCHANGED <<runVars, seq, nout, dsnap, d, torn, file>>
  BY DEF Recompute
<1>2. /\ seq \in Seq(Vocab) /\ w \in Model /\ dw \in Model /\ arch \in Archs
      /\ gen \in Nat /\ nout \in Nat /\ Tmax \in Nat
  BY Zenon, <1>1 DEF DecodeInv, DecodeTypeOK
<1>3. PICK t \in Nat : t = Len(seq)
  BY <1>2, LenProperties
<1>4. T > 0
  BY <1>1, <1>2, <1>3 DEF DecodeInv, ExactInv, Model, T
<1>5. emit' = <<Argmax(arch, seq)>>
  <2>1. seq \in Seq(Ids) /\ 0 \in Nat
    BY Zenon, <1>2, VocabIds
  <2>2. Sized(Blank, 0, Tmax) /\ IsPrefixState(Blank, seq)
    BY Zenon, <1>2, <2>1, BlankFacts
  <2>3. Blank \in Model /\ 0 = Blank.cached
    BY Zenon, <2>2 DEF Sized
  <2>4. 0 + t <= Len(seq) /\ t <= t /\ 0 + t = t
    BY <1>3
  <2>5. ExactLogit(Blank, seq, 0, t, t)
    BY Zenon, <2>1, <2>2, <2>3, <2>4, LogitIsExact
  <2>6. Slice(seq, 0, t) = seq /\ SubSeq(seq, 1, t) = seq
    BY Zenon, <1>2, <1>3, WholeSlice
  <2> QED BY Zenon, <1>3, <2>4, <2>5, <2>6 DEF Recompute, ExactLogit, T
<1>6. emit' \in Seq(Vocab) /\ Len(emit') = 1 /\ Greedy(seq, emit')
  <2>1. Argmax(arch, seq) \in Vocab
    BY Zenon, <1>2 DEF ArgmaxInVocab
  <2> QED BY Zenon, <1>2, <1>5, <2>1, OneGreedy
<1>7. Sized(w', w'.cached, Tmax) /\ Sized(dw', dw'.cached, Tmax)
  BY Zenon, <1>1, <1>2 DEF Sized, DecodeInv, RoomInv
<1>8. pc # "off" /\ Len(emit') > 0 /\ Len(emit') <= gen - nout /\ mode # "hybrid"
  BY <1>1, <1>2, <1>6
<1> QED BY Zenon, <1>1, <1>4, <1>6, <1>7, <1>8, FoundKeeps

(* A serial step: the pending id is fed, to both models. *)
LEMMA SerialKeeps ==
  ASSUME ArgmaxInVocab, DecodeInv, Serial
  PROVE  DecodeInv'
<1>1. /\ pc = "serial" /\ pc' = "emit"
      /\ UNCHANGED <<runVars, seq, nout, dsnap, d, torn, file>>
  BY DEF Serial
<1>2. /\ seq \in Seq(Vocab) /\ w \in Model /\ dw \in Model /\ arch \in Archs
      /\ gen \in Nat /\ nout \in Nat /\ Tmax \in Nat
      /\ IsPrefixState(w, seq) /\ w.cached = T - 1 /\ Tmax = T + (gen - nout) + 1 /\ T > 0
      /\ mode # "recompute" /\ d = << >> /\ nout < gen
  BY Zenon, <1>1 DEF DecodeInv, DecodeTypeOK, ExactInv, RoomInv, DraftRoomInv
<1>3. PICK c \in Nat : c = w.cached
  BY <1>2 DEF Model
<1>4. PICK t \in Nat : t = Len(seq)
  BY <1>2, LenProperties
<1>5. t = c + 1 /\ c + 1 <= Len(seq) /\ c + 1 <= Tmax /\ 1 \in Nat /\ 1 <= 1
  BY <1>2, <1>3, <1>4 DEF T
<1>6. seq \in Seq(Ids)
  BY Zenon, <1>2, VocabIds
<1> DEFINE b == Slice(seq, c, 1)
<1>7. b = <<seq[w.cached + 1]>>
  BY Zenon, <1>2, <1>3, <1>5, OneSlice
<1>8. b \in Seq(Ids) /\ 1 = Len(b)
  BY Zenon, <1>5, <1>6, OneSlice
<1>9. emit' = <<Argmax(arch, seq)>>
  <2>1. emit' = <<Logit(w, b, 1)>>
    BY Zenon, <1>7 DEF Serial
  <2>2. ExactLogit(w, seq, c, 1, 1)
    BY Zenon, <1>2, <1>3, <1>5, <1>6, LogitIsExact
  <2>3. SubSeq(seq, 1, c + 1) = seq
    BY Zenon, <1>2, <1>4, <1>5, WholeSlice
  <2> QED BY Zenon, <2>1, <2>2, <2>3 DEF ExactLogit
<1>10. emit' \in Seq(Vocab) /\ Len(emit') = 1 /\ Greedy(seq, emit')
  <2>1. Argmax(arch, seq) \in Vocab
    BY Zenon, <1>2 DEF ArgmaxInVocab
  <2> QED BY Zenon, <1>2, <1>9, <2>1, OneGreedy
<1>11. Sized(w, c, Tmax) /\ Sized(dw, dw.cached, Tmax)
  BY Zenon, <1>2, <1>3 DEF Sized, DecodeInv, RoomInv
<1>12. Sized(w', c + 1, Tmax) /\ IsPrefixState(w', seq)
  <2>1. w' = Forward(w, b)
    BY Zenon, <1>7 DEF Serial
  <2>2. c <= Len(w.kv)
    BY Zenon, <1>11 DEF Sized
  <2>3. Sized(Forward(w, b), c + 1, Tmax)
    BY Zenon, <1>2, <1>5, <1>8, <1>11, ForwardSized
  <2>4. IsPrefixState(Forward(w, b), seq)
    BY Zenon, <1>2, <1>3, <1>5, <1>6, <2>2, ForwardKeepsPrefix
  <2> QED BY Zenon, <2>1, <2>3, <2>4
<1>13. mode = "hybrid" =>
         Sized(dw', c + 1, Tmax) /\ (torn \/ IsPrefixState(dw', seq))
  <2> SUFFICES ASSUME mode = "hybrid"
               PROVE  Sized(dw', c + 1, Tmax) /\ (torn \/ IsPrefixState(dw', seq))
    OBVIOUS
  <2>1. dw.cached = c + Len(d) /\ (torn \/ IsPrefixState(dw, seq \o d))
    BY Zenon, <1>1, <1>3 DEF DecodeInv, DraftInv
  <2>2. Len(d) = 0 /\ c + 0 = c /\ seq \o d = seq
    BY <1>2, <1>6
  <2>3. c = dw.cached /\ (torn \/ IsPrefixState(dw, seq)) /\ Sized(dw, c, Tmax) /\ c <= Len(dw.kv)
    BY Zenon, <1>11, <2>1, <2>2 DEF Sized
  <2>4. ForwardIs(dw, c, b, 1)
    BY Zenon, <1>2, <1>5, <1>8, <2>3, ForwardParts
  <2>5. dw' = [Absorb(dw, b) EXCEPT !.cached = w.cached + 1]
    BY Zenon, <1>7 DEF Serial
  <2>6. Absorb(dw, b).cached = c
    BY Zenon, <2>4 DEF ForwardIs
  <2>7. dw' = Forward(dw, b)
    BY Zenon, <1>3, <1>8, <2>5, <2>6 DEF Forward
  <2>8. Sized(Forward(dw, b), c + 1, Tmax)
    BY Zenon, <1>2, <1>5, <1>8, <2>3, ForwardSized
  <2>9. torn \/ IsPrefixState(Forward(dw, b), seq)
    BY Zenon, <1>2, <1>5, <1>6, <2>3, ForwardKeepsPrefix
  <2> QED BY Zenon, <2>7, <2>8, <2>9
<1>14. mode # "hybrid" => dw' = dw
  BY DEF Serial
<1>15. Sized(w', w'.cached, Tmax) /\ Sized(dw', dw'.cached, Tmax)
  BY Zenon, <1>11, <1>12, <1>13, <1>14 DEF Sized
<1>16. /\ IsPrefixState(w', seq \o emit')
       /\ mode = "hybrid" => torn \/ IsPrefixState(dw', seq \o emit')
  <2>1. w' \in Model /\ dw' \in Model /\ emit' \in Seq(Ids)
    BY Zenon, <1>10, <1>15, VocabIds DEF Sized
  <2> QED BY Zenon, <1>6, <1>12, <1>13, <2>1, PrefixStateOfConcat
<1>17. w'.cached = T + Len(emit') - 1 /\ (mode = "hybrid" => dw'.cached = w'.cached)
  BY <1>4, <1>5, <1>10, <1>12, <1>13 DEF Sized, T
<1>18. pc # "off" /\ T > 0 /\ Len(emit') > 0 /\ Len(emit') <= gen - nout
  BY <1>1, <1>2, <1>10
<1> QED BY Zenon, <1>1, <1>10, <1>15, <1>16, <1>17, <1>18, FoundKeeps

(* The tail of an iteration: room is left for every id of the step, so      *)
(* none is cut off.                                                        *)
LEMMA EmitAppends ==
  ASSUME DecodeInv, Emit
  PROVE  seq' = seq \o emit /\ nout' = nout + Len(emit)
<1>1. /\ emit \in Seq(Vocab) /\ seq \in Seq(Vocab) /\ gen \in Nat /\ nout \in Nat
      /\ Tmax = T + (gen - nout) + 1 /\ Len(emit) <= gen - nout
  BY DEF Emit, DecodeInv, DecodeTypeOK, RoomInv, EmitInv
<1>2. Len(emit) \in Nat /\ Len(seq) \in Nat
  BY <1>1, LenProperties
<1> DEFINE S == {Len(emit), gen - nout, Tmax - T}
<1>3. Tmax - T = (gen - nout) + 1 /\ gen - nout \in Nat
  BY <1>1, <1>2 DEF T
<1>4. S \in SUBSET Nat /\ S # {} /\ Len(emit) \in S /\ \A y \in S : Len(emit) <= y
  BY <1>1, <1>2, <1>3
<1>5. Min(S) \in S /\ \A y \in S : Min(S) <= y
  <2> HIDE DEF S
  <2> QED BY Zenon, <1>4 DEF Min
<1>6. Min(S) = Len(emit)
  <2>1. Min(S) <= Len(emit) /\ Len(emit) <= Min(S) /\ Min(S) \in Nat
    BY Zenon, <1>4, <1>5
  <2> HIDE DEF S
  <2> QED BY <1>2, <2>1
<1>7. SubSeq(emit, 1, Len(emit)) = emit
  BY Zenon, <1>1, WholeSlice
<1> QED BY Zenon, <1>6, <1>7 DEF Emit

(* The tail of an iteration keeps the invariant. *)
LEMMA EmitKeeps ==
  ASSUME DecodeInv, Emit
  PROVE  DecodeInv'
<1>1. /\ pc = "emit" /\ emit' = << >> /\ d' = << >> /\ pc' = "step"
      /\ UNCHANGED <<runVars, w, dw, dsnap, torn, file>>
  BY DEF Emit
<1>2. seq' = seq \o emit /\ nout' = nout + Len(emit)
  BY Zenon, EmitAppends
<1>3. /\ emit \in Seq(Vocab) /\ seq \in Seq(Vocab) /\ gen \in Nat /\ nout \in Nat
      /\ Tmax = T + (gen - nout) + 1 /\ Len(emit) <= gen - nout
  BY DEF Emit, DecodeInv, DecodeTypeOK, RoomInv, EmitInv
<1>4. /\ Len(emit) \in Nat /\ Len(seq) \in Nat
      /\ seq' \in Seq(Vocab) /\ Len(seq') = Len(seq) + Len(emit)
  BY <1>2, <1>3, LenProperties, ConcatProperties
<1>5. << >> \in Seq(Vocab)
  BY EmptySeq
<1>6. DecodeTypeOK'
  BY <1>1, <1>2, <1>3, <1>4, <1>5 DEF DecodeInv, DecodeTypeOK, runVars
<1>7. RoomInv'
  <2>1. w'.cached <= Len(w'.kv) /\ dw'.cached <= Len(dw'.kv) /\ Len(w'.kv) <= Tmax' /\ Len(dw'.kv) <= Tmax'
    BY Zenon, <1>1 DEF DecodeInv, RoomInv, runVars
  <2>2. nout' <= gen' /\ Tmax' = Len(seq') + (gen' - nout') + 1
    BY <1>1, <1>2, <1>3, <1>4 DEF T, runVars
  <2> QED BY Zenon, <2>1, <2>2 DEF RoomInv, T
<1>8. FileInv'
  BY <1>1, FileKept DEF DecodeInv
<1>9. ExactInv'
  <2>1. mode # "recompute" => IsPrefixState(w, seq \o emit) /\ w.cached = T + Len(emit) - 1
    BY Zenon, <1>1 DEF DecodeInv, EmitInv
  <2>2. Len(seq') > 0 /\ Len(seq') - 1 = T + Len(emit) - 1
    BY <1>1, <1>4 DEF DecodeInv, ExactInv, T
  <2> QED BY <1>1, <1>2, <2>1, <2>2 DEF ExactInv, IsPrefixState, T, runVars
<1>10. EmitInv' /\ DraftRoomInv'
  BY <1>1 DEF EmitInv, DraftRoomInv
<1>11. DraftInv'
  BY Zenon, <1>1, <1>2 DEF DecodeInv, DraftInv, IsPrefixState, runVars
<1> QED BY Zenon, <1>6, <1>7, <1>8, <1>9, <1>10, <1>11 DEF DecodeInv

(* The state file is begun: the cached rows of a prefix state. *)
LEMMA FinishAndSaveKeeps ==
  ASSUME DecodeInv, FinishAndSave
  PROVE  DecodeInv'
<1>1. /\ pc \in {"first", "step"} /\ mode # "recompute" /\ pc' = "save" /\ file' = Saved
      /\ UNCHANGED <<runVars, seq, nout, w, dw, dsnap, d, emit, torn>>
  BY DEF FinishAndSave, Finished
<1>2. /\ seq \in Seq(Vocab) /\ w \in Model /\ arch \in Archs /\ IsPrefixState(w, seq)
      /\ w.cached <= Len(w.kv)
  BY Zenon, <1>1 DEF DecodeInv, DecodeTypeOK, ExactInv, RoomInv
<1>3. PICK c \in Nat : c = w.cached
  BY <1>2 DEF Model
<1>4. c < Len(seq) /\ w.cached < Len(seq)
  <2>1. Len(seq) \in Nat
    BY <1>2, LenProperties
  <2> QED BY <1>1, <1>3, <2>1 DEF DecodeInv, ExactInv, T
<1> DEFINE r == SubSeq(w.kv, 1, c)
           x == [w EXCEPT !.kv = r]
<1>5. r \in Seq(Seq(Ids)) /\ Len(r) = c /\ \A p \in 1..c : r[p] = w.kv[p]
  <2>1. w.kv \in Seq(Seq(Ids)) /\ c <= Len(w.kv)
    BY <1>2, <1>3 DEF Model
  <2> QED BY <2>1, PrefixFacts
<1> HIDE DEF r
<1>6. x \in Model /\ x.ks = w.ks /\ x.kv = r /\ x.cached = c
  BY Zenon, <1>2, <1>3, <1>5 DEF Model
<1>7. Saved = [part |-> 0, arch |-> arch, seq |-> seq, w |-> x]
  BY Zenon, <1>3 DEF Saved, r
<1> HIDE DEF x
<1>8. IsPrefixState(x, seq)
  BY Zenon, <1>2, <1>3, <1>5, <1>6 DEF IsPrefixState
<1>9. /\ file' \in [part : 0..SaveParts, arch : Archs, seq : Seq(Vocab), w : Model]
      /\ file'.w = x /\ file'.seq = seq /\ file'.part = 0
  BY <1>1, <1>2, <1>6, <1>7 DEF SaveParts
<1>10. FileGood'
  BY Zenon, <1>3, <1>4, <1>5, <1>6, <1>8, <1>9 DEF FileGood
<1>11. FileInv'
  BY <1>9, <1>10 DEF FileInv, SaveParts
<1>12. DecodeTypeOK' /\ RoomInv'
  BY <1>1 DEF DecodeInv, DecodeTypeOK, RoomInv, T, runVars
<1>13. ExactInv' /\ EmitInv' /\ DraftRoomInv' /\ DraftInv'
  BY <1>1 DEF ExactInv, EmitInv, DraftRoomInv, DraftInv
<1> QED BY Zenon, <1>11, <1>12, <1>13 DEF DecodeInv

(* One part of the state file is written; with the last one the process    *)
(* ends.                                                                   *)
LEMMA SaveWriteKeeps ==
  ASSUME DecodeInv, SaveWrite
  PROVE  DecodeInv'
<1>1. pc = "save" /\ file' = [file EXCEPT !.part = @ + 1]
  BY DEF SaveWrite
<1>2. FileGood /\ file.part < SaveParts
  BY <1>1 DEF DecodeInv, FileInv
<1>3. file \in [part : 0..SaveParts, arch : Archs, seq : Seq(Vocab), w : Model]
  BY <1>2 DEF FileGood
<1>4. /\ file' \in [part : 0..SaveParts, arch : Archs, seq : Seq(Vocab), w : Model]
      /\ file'.w = file.w /\ file'.seq = file.seq /\ file'.part = file.part + 1
  BY <1>1, <1>2, <1>3 DEF SaveParts
<1>5. FileGood'
  BY Zenon, <1>2, <1>4 DEF FileGood
<1>6. CASE Exits
  BY Zenon, <1>5, <1>6, ExitsKeeps
<1>7. CASE file'.part # SaveParts /\ UNCHANGED <<pc, runVars, seq, nout, w, dw, dsnap, d, emit, torn>>
  <2>1. file'.part < SaveParts
    BY <1>4, <1>7 DEF SaveParts
  <2>2. FileInv'
    BY Zenon, <1>5, <2>1 DEF FileInv
  <2>3. DecodeTypeOK' /\ RoomInv'
    BY <1>7 DEF DecodeInv, DecodeTypeOK, RoomInv, T, runVars
  <2>4. ExactInv' /\ EmitInv' /\ DraftRoomInv' /\ DraftInv'
    BY <1>1, <1>7 DEF ExactInv, EmitInv, DraftRoomInv, DraftInv
  <2> QED BY Zenon, <2>2, <2>3, <2>4 DEF DecodeInv
<1> QED BY Zenon, <1>6, <1>7 DEF SaveWrite

-----------------------------------------------------------------------------
(* Drafting. *)

(* The ids that followed an earlier occurrence. *)
LEMMA ContinuationFacts ==
  ASSUME MaxIsLargest, seq \in Seq(Vocab), NEW n \in Nat, NEW cap \in Nat, T >= n + 1, Matches(n) # {}
  PROVE  Continuation(n, cap) \in Seq(Vocab) /\ Len(Continuation(n, cap)) <= cap
<1>1. PICK t \in Nat : t = Len(seq)
  BY LenProperties
<1>2. PICK z \in Nat : z = T - n - 1
  BY <1>1 DEF T
<1> DEFINE m1 == Max(Matches(n))
           older == Matches(n) \ {m1}
           agrees(i) == older = {} \/ /\ Max(older) + n + i <= m1
                                      /\ seq[Max(older) + n + i] = seq[m1 + n + i]
           lens == {k \in 0..cap : m1 + n + k <= T /\ \A i \in 1..k : agrees(i)}
<1>3. Matches(n) \in SUBSET (0..z)
  BY Zenon, <1>2 DEF Matches
<1>4. m1 \in 0..z
  BY Zenon, <1>3 DEF MaxIsLargest
<1>5. Continuation(n, cap) = SubSeq(seq, m1 + n + 1, m1 + n + Max(lens))
  BY Zenon DEF Continuation
<1> HIDE DEF m1, agrees
<1>6. lens \in SUBSET (0..cap)
  BY Zenon
<1>7. lens # {}
  <2>1. 0 \in 0..cap /\ m1 + n + 0 <= T /\ \A i \in 1..0 : agrees(i)
    BY <1>1, <1>2, <1>4 DEF T
  <2>2. 0 \in lens
    BY Zenon, <2>1
  <2> QED BY Zenon, <2>2
<1>8. Max(lens) \in lens
  <2> HIDE DEF lens
  <2> QED BY Zenon, <1>6, <1>7 DEF MaxIsLargest
<1>9. Max(lens) \in 0..cap /\ m1 + n + Max(lens) <= T
  BY Zenon, <1>8
<1> HIDE DEF lens
<1>10. PICK k \in Nat : k = Max(lens)
  BY <1>9
<1>11. PICK c \in Nat : c = m1 + n
  BY <1>4
<1>12. k <= cap /\ c + k <= Len(seq)
  BY <1>9, <1>10, <1>11 DEF T
<1>13. Continuation(n, cap) = Slice(seq, c, k)
  BY Zenon, <1>5, <1>10, <1>11 DEF Slice
<1>14. Slice(seq, c, k) \in Seq(Vocab) /\ k = Len(Slice(seq, c, k))
  BY <1>12, SliceTyped
<1> QED BY <1>12, <1>13, <1>14

(* An n-gram draft is of the vocabulary and no longer than asked. *)
LEMMA SpecDraftFacts ==
  ASSUME MaxIsLargest, seq \in Seq(Vocab), NEW cap \in Nat
  PROVE  spec_draft(cap) \in Seq(Vocab) /\ Len(spec_draft(cap)) <= cap
<1> DEFINE found == {n \in 3..4 : T >= n + 1 /\ Matches(n) # {} /\ Continuation(n, cap) # << >>}
<1>1. CASE found = {}
  <2>1. spec_draft(cap) = << >>
    BY Zenon, <1>1 DEF spec_draft
  <2> QED BY <2>1, EmptySeq
<1>2. CASE found # {}
  <2>1. spec_draft(cap) = Continuation(Max(found), cap)
    BY Zenon, <1>2 DEF spec_draft
  <2>2. found \in SUBSET (0..4)
    OBVIOUS
  <2>3. Max(found) \in found
    <3> HIDE DEF found
    <3>1. 4 \in Nat
      OBVIOUS
    <3> QED BY Zenon, <1>2, <2>2, <3>1 DEF MaxIsLargest
  <2>4. Max(found) \in 3..4 /\ T >= Max(found) + 1 /\ Matches(Max(found)) # {}
    BY Zenon, <2>3
  <2> HIDE DEF found
  <2>5. Max(found) \in Nat
    BY <2>4
  <2> QED BY Zenon, <2>1, <2>4, <2>5, ContinuationFacts
<1> QED BY <1>1, <1>2

(* The choice of how to take a step. *)
LEMMA StartStepKeeps ==
  ASSUME MaxIsLargest, DecodeInv, StartStep
  PROVE  DecodeInv'
<1>1. /\ pc = "step" /\ nout < gen /\ mode # "recompute" /\ pc' \in {"draft", "verify", "serial"}
      /\ UNCHANGED <<runVars, seq, nout, w, dw, emit, torn, file>>
  BY DEF StartStep
<1>2. /\ seq \in Seq(Vocab) /\ w \in Model /\ dw \in Model /\ SpecN \in Nat /\ SpecN > 0
      /\ IsPrefixState(w, seq) /\ w.cached = T - 1 /\ T > 0 /\ dsnap \in Seq(Ids)
      /\ mode = "hybrid" => dw.cached = w.cached /\ (torn \/ IsPrefixState(dw, seq))
  BY Zenon, <1>1, SpecNFacts DEF DecodeInv, DecodeTypeOK, ExactInv, DraftInv
<1>3. << >> \in Seq(Vocab) /\ Len(<< >>) = 0 /\ seq \o << >> = seq
  BY <1>2, EmptySeq
<1>4. spec_draft(SpecN) \in Seq(Vocab) /\ Len(spec_draft(SpecN)) <= SpecN
  BY Zenon, <1>2, SpecDraftFacts
<1>5. d' \in Seq(Vocab) /\ dsnap' \in Seq(Ids)
  BY Zenon, <1>2, <1>3, <1>4 DEF StartStep, Model
<1>6. DecodeTypeOK'
  BY <1>1, <1>5 DEF DecodeInv, DecodeTypeOK, runVars
<1>7. RoomInv'
  BY <1>1 DEF DecodeInv, RoomInv, T, runVars
<1>8. FileInv'
  BY <1>1, FileKept DEF DecodeInv
<1>9. ExactInv' /\ EmitInv'
  BY <1>1, <1>2 DEF ExactInv, EmitInv, T, IsPrefixState, runVars
<1>10. DraftRoom' <=> DraftRoom
  BY Zenon, <1>1 DEF DraftRoom, T, runVars
<1>11. DraftRoomInv' /\ DraftInv'
  <2>1. CASE mode = "hybrid" /\ DraftRoom /\ d' = << >> /\ dsnap' = dw.ks /\ pc' = "draft"
    <3>1. DraftRoomInv'
      BY <1>1, <1>2, <1>3, <1>10, <2>1 DEF DraftRoomInv, runVars
    <3>2. dw.cached = w.cached + 0
      BY <1>2, <2>1 DEF Model
    <3>3. torn \/ dw.ks = SubSeq(seq, 1, w.cached)
      BY Zenon, <1>2, <2>1 DEF IsPrefixState
    <3>4. DraftInv'
      BY Zenon, <1>1, <1>2, <1>3, <2>1, <3>2, <3>3 DEF DraftInv, IsPrefixState
    <3> QED BY <3>1, <3>4
  <2>2. CASE mode = "ngram" /\ DraftRoom /\ d' = spec_draft(SpecN)
             /\ pc' = IF d' = << >> THEN "serial" ELSE "verify"
    <3>1. d' # << >> => Len(d') > 0
      BY <1>5, EmptySeq, LenProperties
    <3> QED BY <1>1, <1>4, <1>10, <2>2, <3>1 DEF DraftRoomInv, DraftInv, runVars
  <2>3. CASE d' = << >> /\ pc' = "serial"
    <3>1. DraftRoomInv'
      BY <1>1, <2>3 DEF DraftRoomInv, runVars
    <3>2. mode = "hybrid" => dw.cached = w.cached + 0
      BY <1>2 DEF Model
    <3>3. DraftInv'
      BY <1>1, <1>2, <1>3, <2>3, <3>2 DEF DraftInv, IsPrefixState, runVars
    <3> QED BY <3>1, <3>3
  <2> QED BY Zenon, <2>1, <2>2, <2>3 DEF StartStep
<1> QED BY Zenon, <1>6, <1>7, <1>8, <1>9, <1>11 DEF DecodeInv

(* The draft model's forward fails: its recurrent state is torn, its rows  *)
(* and its position are not.                                               *)
LEMMA DraftFailsKeeps ==
  ASSUME DecodeInv, DraftFails
  PROVE  DecodeInv'
<1>1. /\ pc = "draft" /\ pc' \in {"serial", "verify"} /\ torn' = TRUE
      /\ dw' = [dw EXCEPT !.ks = Append(@, Torn)]
      /\ pc' = IF d = << >> THEN "serial" ELSE "verify"
      /\ UNCHANGED <<runVars, seq, nout, w, dsnap, d, emit, file>>
  BY DEF DraftFails
<1>2. /\ seq \in Seq(Vocab) /\ d \in Seq(Vocab) /\ dw \in Model /\ DraftRoom
      /\ Len(d) <= SpecN /\ mode = "hybrid" /\ dw.cached = w.cached + Len(d)
      /\ gen \in Nat /\ nout \in Nat /\ Tmax = T + (gen - nout) + 1 /\ SpecN \in Nat
  BY Zenon, <1>1, SpecNFacts
     DEF DecodeInv, DecodeTypeOK, RoomInv, DraftRoomInv, DraftInv
<1>3. /\ dw' \in Model /\ dw'.kv = dw.kv /\ dw'.cached = dw.cached
  <2>1. Append(dw.ks, Torn) \in Seq(Ids)
    BY <1>2 DEF Model, Ids
  <2> QED BY Zenon, <1>1, <1>2, <2>1 DEF Model
<1>4. DecodeTypeOK'
  BY <1>1, <1>3 DEF DecodeInv, DecodeTypeOK, runVars
<1>5. RoomInv'
  BY <1>1, <1>3 DEF DecodeInv, RoomInv, T, runVars
<1>6. FileInv'
  BY <1>1, FileKept DEF DecodeInv
<1>7. ExactInv' /\ EmitInv'
  BY <1>1 DEF DecodeInv, ExactInv, EmitInv, T, IsPrefixState, runVars
<1>8. nout < gen
  BY <1>2, LenProperties DEF DraftRoom, T
<1>9. d # << >> => Len(d) > 0
  BY <1>2, EmptySeq, LenProperties
<1>10. DraftRoomInv'
  BY <1>1, <1>2, <1>8, <1>9 DEF DraftRoomInv, DraftRoom, T, runVars
<1>11. DraftInv'
  BY Zenon, <1>1, <1>2, <1>3 DEF DraftInv
<1> QED BY Zenon, <1>4, <1>5, <1>6, <1>7, <1>10, <1>11 DEF DecodeInv

(* The id behind what the draft has cached is the last one there is. *)
LEMMA DraftNext ==
  ASSUME DecodeInv, mode = "hybrid", pc \in {"draft", "verify"},
         NEW e \in Nat, e = dw.cached
  PROVE  /\ seq \o d \in Seq(Ids) /\ e + 1 = Len(seq \o d) /\ e + 1 = T + Len(d)
         /\ Slice(seq \o d, e, 1) = <<IF d = << >> THEN seq[w.cached + 1] ELSE d[Len(d)]>>
<1>1. /\ seq \in Seq(Vocab) /\ d \in Seq(Vocab)
      /\ w.cached = T - 1 /\ e = w.cached + Len(d) /\ T > 0
  BY DEF DecodeInv, DecodeTypeOK, ExactInv, DraftInv
<1>2. Len(seq) \in Nat /\ Len(d) \in Nat
  BY <1>1, LenProperties
<1> DEFINE s == seq \o d
<1>3. /\ s \in Seq(Vocab) /\ Len(s) = Len(seq) + Len(d)
      /\ \A i \in 1..Len(s) : s[i] = IF i <= Len(seq) THEN seq[i] ELSE d[i - Len(seq)]
  BY <1>1, ConcatProperties
<1>4. s \in Seq(Ids)
  BY Zenon, <1>3, VocabIds
<1> HIDE DEF s
<1>5. e + 1 = Len(s) /\ e + 1 = T + Len(d) /\ e + 1 <= Len(s)
  BY <1>1, <1>2, <1>3 DEF T
<1>6. Slice(s, e, 1) = <<s[e + 1]>>
  BY Zenon, <1>4, <1>5, OneSlice
<1>7. s[e + 1] = IF d = << >> THEN seq[w.cached + 1] ELSE d[Len(d)]
  <2>1. e + 1 \in 1..Len(s)
    BY <1>1, <1>2, <1>5
  <2>2. s[e + 1] = IF e + 1 <= Len(seq) THEN seq[e + 1] ELSE d[e + 1 - Len(seq)]
    BY <1>3, <2>1
  <2>3. CASE d = << >>
    <3>1. Len(d) = 0 /\ e + 1 = w.cached + 1 /\ e + 1 <= Len(seq)
      BY <1>1, <1>2, <2>3 DEF T
    <3> QED BY <2>2, <2>3, <3>1
  <2>4. CASE d # << >>
    <3>1. Len(d) > 0
      BY <1>1, <2>4, EmptySeq, LenProperties
    <3>2. ~(e + 1 <= Len(seq)) /\ e + 1 - Len(seq) = Len(d)
      BY <1>1, <1>2, <3>1 DEF T
    <3> QED BY Zenon, <2>2, <2>4, <3>2
  <2> QED BY <2>3, <2>4
<1> QED BY Zenon, <1>4, <1>5, <1>6, <1>7 DEF s

(* The draft model takes one more id, whichever it chooses. *)
LEMMA DraftOneKeeps ==
  ASSUME DecodeInv, DraftOne
  PROVE  DecodeInv'
<1>1. /\ pc = "draft" /\ pc' \in {"draft", "verify"}
      /\ pc' = (IF Drafted(d') THEN "verify" ELSE "draft")
      /\ UNCHANGED <<runVars, seq, nout, w, dsnap, emit, torn, file>>
  BY DEF DraftOne
<1>2. PICK v \in Vocab : d' = Append(d, v)
  BY Zenon DEF DraftOne
<1>3. /\ seq \in Seq(Vocab) /\ d \in Seq(Vocab) /\ dw \in Model /\ w \in Model /\ DraftRoom
      /\ Len(d) < SpecN /\ mode = "hybrid" /\ dw.cached = w.cached + Len(d)
      /\ (torn \/ IsPrefixState(dw, seq \o d))
      /\ Tmax \in Nat /\ SpecN \in Nat
      /\ dw.cached <= Len(dw.kv) /\ Len(dw.kv) <= Tmax
  BY Zenon, <1>1, SpecNFacts
     DEF DecodeInv, DecodeTypeOK, RoomInv, DraftRoomInv, DraftInv
<1>4. PICK e \in Nat : e = dw.cached
  BY <1>3 DEF Model
<1> DEFINE s == seq \o d
           b == Slice(s, e, 1)
<1>5. /\ s \in Seq(Ids) /\ e + 1 = Len(s) /\ e + 1 = T + Len(d)
      /\ b = <<IF d = << >> THEN seq[w.cached + 1] ELSE d[Len(d)]>>
  BY Zenon, <1>1, <1>3, <1>4, DraftNext
<1>6. dw' = Forward(dw, b)
  BY Zenon, <1>5 DEF DraftOne
<1> HIDE DEF s
<1>7. Len(seq) \in Nat /\ Len(d) \in Nat /\ e + 1 <= Tmax /\ e + 1 <= Len(s) /\ 1 \in Nat
  BY <1>3, <1>5, LenProperties DEF DraftRoom, T
<1>8. b \in Seq(Ids) /\ 1 = Len(b)
  BY Zenon, <1>5, <1>7, OneSlice
<1>9. Sized(dw', e + 1, Tmax)
  <2>1. Sized(dw, e, Tmax)
    BY Zenon, <1>3, <1>4 DEF Sized
  <2>2. Sized(Forward(dw, b), e + 1, Tmax)
    BY Zenon, <1>3, <1>7, <1>8, <2>1, ForwardSized
  <2> QED BY Zenon, <1>6, <2>2
<1>10. /\ d' \in Seq(Vocab) /\ Len(d') = Len(d) + 1 /\ <<v>> \in Seq(Vocab)
       /\ seq \o d' = s \o <<v>>
  <2>1. d' = d \o <<v>> /\ <<v>> \in Seq(Vocab) /\ Len(<<v>>) = 1
    BY <1>2, <1>3
  <2>2. d' \in Seq(Vocab) /\ Len(d') = Len(d) + 1
    BY <1>2, <1>3
  <2>3. seq \o Append(d, v) = (seq \o d) \o <<v>>
    <3>1. seq \in Seq(Vocab) /\ d \in Seq(Vocab)
      BY <1>3
    <3> QED BY <3>1, ConcatAppend
  <2> QED BY Zenon, <1>2, <2>1, <2>2, <2>3 DEF s
<1>11. torn \/ IsPrefixState(dw', seq \o d')
  <2>1. CASE IsPrefixState(dw, s)
    <3>1. IsPrefixState(Forward(dw, b), s)
      BY Zenon, <1>3, <1>4, <1>5, <1>7, <2>1, ForwardKeepsPrefix
    <3>2. dw' \in Model /\ <<v>> \in Seq(Ids)
      BY Zenon, <1>9, <1>10, VocabIds DEF Sized
    <3> QED BY Zenon, <1>5, <1>6, <1>10, <3>1, <3>2, PrefixStateOfConcat
  <2> QED BY Zenon, <1>3, <2>1 DEF s
<1>12. DecodeTypeOK'
  BY <1>1, <1>9, <1>10 DEF DecodeInv, DecodeTypeOK, runVars, Sized
<1>13. RoomInv'
  BY <1>1, <1>9 DEF DecodeInv, RoomInv, T, runVars, Sized
<1>14. FileInv'
  BY <1>1, FileKept DEF DecodeInv
<1>15. ExactInv' /\ EmitInv'
  BY <1>1 DEF DecodeInv, ExactInv, EmitInv, T, IsPrefixState, runVars
<1>16. DraftRoomInv'
  <2>1. DraftRoom'
    BY Zenon, <1>1, <1>3 DEF DraftRoom, T, runVars
  <2>2. Len(d') <= SpecN /\ Len(d') > 0 /\ (pc' = "draft" => Len(d') < SpecN)
    BY <1>1, <1>3, <1>7, <1>10 DEF Drafted
  <2> QED BY Zenon, <1>1, <1>3, <2>1, <2>2 DEF DraftRoomInv, runVars
<1>17. DraftInv'
  <2>1. dw'.cached = w.cached + Len(d')
    <3>1. PICK c \in Nat : c = w.cached
      BY <1>3 DEF Model
    <3>2. dw'.cached = e + 1 /\ e = c + Len(d)
      BY Zenon, <1>3, <1>4, <1>9, <3>1 DEF Sized
    <3>3. Len(d) \in Nat /\ Len(d') = Len(d) + 1
      BY Zenon, <1>7, <1>10
    <3> QED BY <3>1, <3>2, <3>3
  <2>2. torn \/ dsnap = SubSeq(seq, 1, w.cached)
    BY Zenon, <1>1, <1>3 DEF DecodeInv, DraftInv
  <2> QED BY Zenon, <1>1, <1>11, <2>1, <2>2 DEF DraftInv, IsPrefixState
<1> QED BY Zenon, <1>12, <1>13, <1>14, <1>15, <1>16, <1>17 DEF DecodeInv

-----------------------------------------------------------------------------
(* Verification of a draft. *)

(* The accepted ids are a prefix of the draft that the model agrees with. *)
LEMMA AcceptedFacts ==
  ASSUME MaxIsLargest, d \in Seq(Vocab), NEW arg
  PROVE  /\ Accepted(arg) \in Nat /\ Accepted(arg) <= Len(d)
         /\ \A i \in 1..Accepted(arg) : arg[i] = d[i]
<1>1. Len(d) \in Nat
  BY LenProperties
<1> DEFINE S == {m \in 0..Len(d) : \A i \in 1..m : arg[i] = d[i]}
<1>2. S \in SUBSET (0..Len(d))
  BY Zenon
<1>3. S # {}
  <2>1. 0 \in 0..Len(d) /\ \A i \in 1..0 : arg[i] = d[i]
    BY <1>1
  <2>2. 0 \in S
    BY Zenon, <2>1
  <2> QED BY Zenon, <2>2
<1>4. Max(S) \in S
  <2> HIDE DEF S
  <2> QED BY Zenon, <1>1, <1>2, <1>3 DEF MaxIsLargest
<1>5. Max(S) \in 0..Len(d) /\ \A i \in 1..Max(S) : arg[i] = d[i]
  BY Zenon, <1>4
<1>6. Accepted(arg) = Max(S)
  BY Zenon DEF Accepted
<1> HIDE DEF S
<1> QED BY <1>1, <1>5, <1>6

(* The accepted ids and the model's own id behind them are its choices. *)
LEMMA VerifiedGreedy ==
  ASSUME seq \in Seq(Vocab), d \in Seq(Vocab), NEW n \in Nat, n <= Len(d), NEW v \in Vocab,
         \A i \in 1..n : d[i] = Argmax(arch, SubSeq(seq \o d, 1, T + i - 1)),
         v = Argmax(arch, SubSeq(seq \o d, 1, T + n)),
         NEW e, e = Append(SubSeq(d, 1, n), v)
  PROVE  /\ e \in Seq(Vocab) /\ Len(e) = n + 1 /\ Greedy(seq, e)
         /\ SubSeq(seq \o d, 1, T + n) = SubSeq(seq \o e, 1, T + n)
         /\ T + n <= Len(seq \o d) /\ T + n <= Len(seq \o e)
<1> DEFINE q == SubSeq(d, 1, n)
           s == seq \o d
           z == seq \o e
<1>1. PICK t \in Nat : t = T
  BY LenProperties DEF T
<1>2. q \in Seq(Vocab) /\ Len(q) = n /\ \A i \in 1..n : q[i] = d[i]
  BY PrefixFacts
<1> HIDE DEF q
<1>3. e = Append(q, v)
  BY Zenon DEF q
<1>4. /\ e \in Seq(Vocab) /\ Len(e) = n + 1 /\ e[n + 1] = v
      /\ \A i \in 1..n : e[i] = d[i]
  BY <1>2, <1>3
<1>5. Len(d) \in Nat /\ Len(s) = t + Len(d) /\ s \in Seq(Vocab)
  BY <1>1, ConcatProperties, LenProperties DEF T
<1>6. Len(z) = t + (n + 1) /\ z \in Seq(Vocab)
  BY <1>1, <1>4, ConcatProperties DEF T
<1>7. SubSeq(s, 1, t + n) = seq \o q
  BY Zenon, <1>1, PrefixIntoConcat DEF T, q
<1>8. SubSeq(z, 1, t + n) = seq \o q
  <2>1. z = (seq \o q) \o <<v>>
    <3>1. q \in Seq(Vocab)
      BY <1>2
    <3>2. seq \o Append(q, v) = (seq \o q) \o <<v>>
      BY <3>1, ConcatAppend
    <3> QED BY Zenon, <1>3, <3>2
  <2>2. seq \o q \in Seq(Vocab) /\ Len(seq \o q) = t + n
    BY Zenon, <1>1, <1>2, ConcatProperties DEF T
  <2> DEFINE u == <<v>>
  <2>3. u \in Seq(Vocab) /\ t + n \in Nat /\ t + n <= Len(seq \o q)
    BY <2>2
  <2>4. SubSeq((seq \o q) \o u, 1, t + n) = SubSeq(seq \o q, 1, t + n)
    <3> HIDE DEF u
    <3> QED BY Zenon, <2>2, <2>3, PrefixOfConcat
  <2>5. SubSeq(seq \o q, 1, t + n) = seq \o q
    BY Zenon, <2>2, WholeSlice
  <2> QED BY Zenon, <2>1, <2>4, <2>5
<1> HIDE DEF s, z
<1>9. t + n \in Nat /\ t + n <= Len(s) /\ t + n <= Len(z)
  BY <1>5, <1>6
<1>10. ASSUME NEW i \in 1..Len(e)
       PROVE  e[i] = Argmax(arch, SubSeq(z, 1, t + i - 1))
  <2>1. PICK j \in Nat : j = t + i - 1
    BY <1>4
  <2>2. j <= t + n
    BY <1>4, <2>1
  <2>3. SubSeq(SubSeq(s, 1, t + n), 1, j) = SubSeq(s, 1, j)
    BY Zenon, <1>5, <1>9, <2>2, PrefixOfPrefix
  <2>4. SubSeq(SubSeq(z, 1, t + n), 1, j) = SubSeq(z, 1, j)
    BY Zenon, <1>6, <1>9, <2>2, PrefixOfPrefix
  <2>5. SubSeq(s, 1, j) = SubSeq(z, 1, j)
    BY Zenon, <1>7, <1>8, <2>3, <2>4
  <2>6. CASE i \in 1..n
    <3>1. e[i] = d[i] /\ d[i] = Argmax(arch, SubSeq(s, 1, T + i - 1))
      BY Zenon, <1>4, <2>6 DEF s
    <3> QED BY Zenon, <1>1, <2>1, <2>5, <3>1
  <2>7. CASE i = n + 1
    <3>1. t + i - 1 = t + n /\ j = t + n
      BY <2>1, <2>7
    <3>2. v = Argmax(arch, SubSeq(s, 1, t + n))
      BY Zenon, <1>1 DEF s
    <3> QED BY Zenon, <1>4, <2>5, <2>7, <3>1, <3>2
  <2> QED BY <1>4, <2>6, <2>7
<1>11. Greedy(seq, e)
  BY Zenon, <1>1, <1>10 DEF Greedy, T, z
<1> QED BY Zenon, <1>1, <1>4, <1>7, <1>8, <1>9, <1>11 DEF s, z

(* The recurrent state is restored after a sweep; the rows behind the      *)
(* cached ones hold what the sweep wrote.                                  *)
LEMMA Restored ==
  ASSUME NEW m, NEW c \in Nat, NEW N \in Nat, Sized(m, c, N),
         NEW b \in Seq(Ids), NEW k \in Nat, k = Len(b), c + k <= N,
         NEW s \in Seq(Ids), IsPrefixState(m, s)
  PROVE  LET x == [Absorb(m, b) EXCEPT !.ks = m.ks]
         IN  Sized(x, c, N) /\ IsPrefixState(x, s)
<1> DEFINE a == Absorb(m, b)
           x == [a EXCEPT !.ks = m.ks]
<1>1. m \in Model /\ c = m.cached /\ c <= Len(m.kv) /\ Len(m.kv) <= N
  BY Zenon DEF Sized
<1>2. ForwardIs(m, c, b, k) /\ Sized(Forward(m, b), c + k, N)
  BY Zenon, <1>1, ForwardParts, ForwardSized
<1> DEFINE rows == IF Len(m.kv) >= c + k THEN Len(m.kv) ELSE c + k
<1>3. /\ a \in Model /\ a.cached = c /\ Len(a.kv) = rows
      /\ \A p \in 1..rows :
            a.kv[p] = IF p > c /\ p <= c + k THEN m.ks \o SubSeq(b, 1, p - c) ELSE m.kv[p]
  BY Zenon, <1>2 DEF ForwardIs
<1> HIDE DEF a
<1>4. m.ks \in Seq(Ids)
  BY <1>1 DEF Model
<1>5. x \in Model /\ x.ks = m.ks /\ x.kv = a.kv /\ x.cached = c
  BY Zenon, <1>3, <1>4 DEF Model
<1> HIDE DEF x
<1>6. Len(m.kv) \in Nat
  BY <1>1, LenProperties DEF Model
<1>7. c <= rows /\ rows <= N /\ \A p \in 1..c : p \in 1..rows /\ ~(p > c)
  BY <1>1, <1>6
<1>8. Sized(x, c, N)
  BY Zenon, <1>3, <1>5, <1>7 DEF Sized
<1>9. \A p \in 1..c : x.kv[p] = m.kv[p]
  BY Zenon, <1>3, <1>5, <1>7
<1>10. IsPrefixState(x, s)
  BY Zenon, <1>1, <1>5, <1>9 DEF IsPrefixState
<1> QED BY Zenon, <1>8, <1>10 DEF x, a

(* The draft model's state is set back to an earlier position. *)
LEMMA SetBack ==
  ASSUME NEW m, NEW e \in Nat, NEW N \in Nat, Sized(m, e, N), NEW c \in Nat, c <= e,
         NEW q \in Seq(Ids), NEW s \in Seq(Ids)
  PROVE  LET x == [m EXCEPT !.ks = q, !.cached = c]
         IN  /\ Sized(x, c, N)
             /\ IsPrefixState(m, s) /\ q = SubSeq(s, 1, c) => IsPrefixState(x, s)
<1> DEFINE x == [m EXCEPT !.ks = q, !.cached = c]
<1>1. m \in Model /\ e = m.cached /\ e <= Len(m.kv) /\ Len(m.kv) <= N
  BY Zenon DEF Sized
<1>2. x \in Model /\ x.ks = q /\ x.kv = m.kv /\ x.cached = c
  BY Zenon, <1>1 DEF Model
<1> HIDE DEF x
<1>3. Len(m.kv) \in Nat
  BY <1>1, LenProperties DEF Model
<1>4. c <= Len(m.kv) /\ \A p \in 1..c : p \in 1..e
  BY <1>1, <1>3
<1>5. Sized(x, c, N)
  BY Zenon, <1>1, <1>2, <1>4 DEF Sized
<1>6. ASSUME IsPrefixState(m, s), q = SubSeq(s, 1, c) PROVE IsPrefixState(x, s)
  <2>1. e <= Len(s) /\ \A p \in 1..e : m.kv[p] = SubSeq(s, 1, p)
    BY Zenon, <1>1, <1>6 DEF IsPrefixState
  <2>2. c <= Len(s)
    BY <2>1, LenProperties
  <2> QED BY Zenon, <1>2, <1>4, <1>6, <2>1, <2>2 DEF IsPrefixState
<1> QED BY Zenon, <1>5, <1>6 DEF x

(* What is known when a draft of k ids is verified behind c cached ones. *)
VerifyFacts(c, k) ==
  /\ seq \in Seq(Vocab) /\ d \in Seq(Vocab) /\ seq \o d \in Seq(Vocab) /\ seq \o d \in Seq(Ids)
  /\ c = w.cached /\ k = Len(d) /\ T = c + 1 /\ Len(seq \o d) = c + (k + 1) /\ k > 0
  /\ Sized(w, c, Tmax) /\ Sized(dw, dw.cached, Tmax) /\ IsPrefixState(w, seq \o d)
  /\ Tmax \in Nat /\ c + (k + 1) <= Tmax /\ k < gen - nout
  /\ Batch = Slice(seq \o d, c, k + 1)
  /\ Batch \in Seq(Ids) /\ k + 1 = Len(Batch)

(* All of it follows from the invariant. *)
LEMMA VerifyIn ==
  ASSUME DecodeInv, pc = "verify", NEW c \in Nat, c = w.cached, NEW k \in Nat, k = Len(d)
  PROVE  VerifyFacts(c, k)
<1> DEFINE s == seq \o d
<1>1. /\ seq \in Seq(Vocab) /\ d \in Seq(Vocab) /\ w \in Model /\ dw \in Model
      /\ gen \in Nat /\ nout \in Nat /\ Tmax \in Nat /\ SpecN \in Nat
      /\ IsPrefixState(w, seq) /\ w.cached = T - 1 /\ Tmax = T + (gen - nout) + 1
      /\ DraftRoom /\ Len(d) <= SpecN /\ Len(d) > 0
  BY Zenon, SpecNFacts
     DEF DecodeInv, DecodeTypeOK, RoomInv, ExactInv, DraftRoomInv
<1>2. Sized(w, c, Tmax) /\ Sized(dw, dw.cached, Tmax)
  BY Zenon, <1>1 DEF DecodeInv, RoomInv, Sized
<1>3. Len(seq) \in Nat
  BY <1>1, LenProperties
<1>4. T = c + 1 /\ c + (k + 1) <= Tmax /\ k < gen - nout
  BY <1>1, <1>3 DEF DraftRoom, T
<1>5. s \in Seq(Vocab) /\ Len(s) = Len(seq) + Len(d)
  BY Zenon, <1>1, ConcatProperties
<1>6. Len(s) = c + (k + 1) /\ c + (k + 1) <= Len(s) /\ k + 1 \in Nat
  <2> HIDE DEF s
  <2>1. Len(s) = (c + 1) + k
    BY Zenon, <1>4, <1>5 DEF T
  <2> QED BY <2>1
<1>7. seq \in Seq(Ids) /\ d \in Seq(Ids) /\ s \in Seq(Ids)
  BY Zenon, <1>1, <1>5, VocabIds
<1>8. IsPrefixState(w, s)
  BY Zenon, <1>1, <1>7, PrefixStateOfConcat
<1>9. Batch = Slice(s, c, k + 1)
  <2>1. w.cached + Len(d) + 1 = c + (k + 1)
    BY <1>3, <1>4
  <2> QED BY Zenon, <2>1 DEF Batch, Slice
<1>10. Slice(s, c, k + 1) \in Seq(Ids) /\ k + 1 = Len(Slice(s, c, k + 1))
  <2> HIDE DEF s
  <2>1. s \in Seq(Ids) /\ k + 1 \in Nat /\ c + (k + 1) <= Len(s)
    BY Zenon, <1>6, <1>7
  <2> QED BY <2>1, SliceTyped
<1> QED BY Zenon, <1>1, <1>2, <1>4, <1>5, <1>6, <1>7, <1>8, <1>9, <1>10 DEF VerifyFacts

(* The accepted part of the batch, as a slice. *)
LEMMA BatchPart ==
  ASSUME NEW c \in Nat, NEW k \in Nat, VerifyFacts(c, k), NEW n \in Nat, n <= k
  PROVE  LET b == Slice(seq \o d, c, n + 1)
         IN  /\ SubSeq(Batch, 1, n + 1) = b /\ b \in Seq(Ids) /\ n + 1 = Len(b)
             /\ n + 1 \in Nat /\ c + (n + 1) <= Len(seq \o d) /\ c + (n + 1) <= Tmax
<1> DEFINE s == seq \o d
<1>1. /\ s \in Seq(Ids) /\ Len(s) = c + (k + 1) /\ Batch = Slice(s, c, k + 1)
      /\ Tmax \in Nat /\ c + (k + 1) <= Tmax
  BY Zenon DEF VerifyFacts
<1> HIDE DEF s
<1>2. /\ n + 1 \in Nat /\ k + 1 \in Nat /\ n + 1 <= k + 1 /\ c + (k + 1) <= Len(s)
      /\ c + (n + 1) <= Len(s) /\ c + (n + 1) <= Tmax
  BY <1>1
<1>3. SubSeq(Slice(s, c, k + 1), 1, n + 1) = Slice(s, c, n + 1)
  <2>1. PICK i \in Nat : i = n + 1
    BY <1>2
  <2>2. PICK j \in Nat : j = k + 1
    BY <1>2
  <2>3. s \in Seq(Ids) /\ c + j <= Len(s) /\ i <= j
    BY Zenon, <1>1, <1>2, <2>1, <2>2
  <2>4. SubSeq(Slice(s, c, j), 1, i) = Slice(s, c, i)
    BY ZenonT(40), <2>3, PrefixOfSlice
  <2> QED BY Zenon, <2>1, <2>2, <2>4
<1>4. Slice(s, c, n + 1) \in Seq(Ids) /\ n + 1 = Len(Slice(s, c, n + 1))
  BY <1>1, <1>2, SliceTyped
<1> QED BY Zenon, <1>1, <1>2, <1>3, <1>4 DEF s

(* After the sweep, and the replay that a rejection makes, the state is    *)
(* that of the sequence and the accepted ids.                              *)
LEMMA SweptIs ==
  ASSUME NEW c \in Nat, NEW k \in Nat, VerifyFacts(c, k), NEW n \in Nat, n <= k
  PROVE  Sized(Swept(n), c + (n + 1), Tmax) /\ IsPrefixState(Swept(n), seq \o d)
<1> DEFINE s == seq \o d
           b == Slice(s, c, n + 1)
           x == [Absorb(w, Batch) EXCEPT !.ks = w.ks]
<1>1. /\ s \in Seq(Ids) /\ Tmax \in Nat /\ k = Len(d) /\ Batch = Slice(s, c, k + 1)
      /\ Sized(w, c, Tmax) /\ IsPrefixState(w, s)
      /\ Batch \in Seq(Ids) /\ k + 1 = Len(Batch) /\ c + (k + 1) <= Tmax
  BY Zenon DEF VerifyFacts
<1>2. /\ SubSeq(Batch, 1, n + 1) = b /\ b \in Seq(Ids) /\ n + 1 = Len(b)
      /\ n + 1 \in Nat /\ c + (n + 1) <= Len(s) /\ c + (n + 1) <= Tmax
  BY Zenon, BatchPart
<1>3. PICK m : /\ Swept(n) = Forward(m, b) /\ Sized(m, c, Tmax) /\ IsPrefixState(m, s)
  <2>1. CASE n = Len(d)
    <3>1. Swept(n) = Forward(w, b)
      BY Zenon, <1>1, <2>1 DEF Swept
    <3> QED BY Zenon, <1>1, <3>1
  <2>2. CASE n # Len(d)
    <3>1. Swept(n) = Forward(x, b)
      BY Zenon, <1>2, <2>2 DEF Swept
    <3>2. k + 1 \in Nat
      OBVIOUS
    <3>3. Sized(x, c, Tmax) /\ IsPrefixState(x, s)
      <4> HIDE DEF s, b
      <4> QED BY Zenon, <1>1, <3>2, Restored
    <3> QED BY Zenon, <3>1, <3>3
  <2> QED BY <2>1, <2>2
<1>4. m \in Model /\ c = m.cached /\ c <= Len(m.kv)
  BY Zenon, <1>3 DEF Sized
<1> HIDE DEF s
<1>5. Sized(Forward(m, b), c + (n + 1), Tmax)
  BY Zenon, <1>1, <1>2, <1>3, ForwardSized
<1>6. IsPrefixState(Forward(m, b), s)
  BY Zenon, <1>1, <1>2, <1>3, <1>4, ForwardKeepsPrefix
<1> QED BY Zenon, <1>3, <1>5, <1>6 DEF s

(* The same for the draft model. *)
LEMMA ResyncedIs ==
  ASSUME DecodeInv, pc = "verify", mode = "hybrid",
         NEW c \in Nat, NEW k \in Nat, VerifyFacts(c, k), NEW n \in Nat, n <= k
  PROVE  /\ Sized(Resynced(n), c + (n + 1), Tmax)
         /\ torn \/ IsPrefixState(Resynced(n), seq \o d)
<1> DEFINE s == seq \o d
           b == Slice(s, c, n + 1)
           x == [dw EXCEPT !.ks = dsnap, !.cached = w.cached]
<1>1. /\ s \in Seq(Ids) /\ Tmax \in Nat /\ k = Len(d) /\ c = w.cached /\ k > 0 /\ T = c + 1
      /\ Sized(dw, dw.cached, Tmax) /\ c + (k + 1) <= Tmax
      /\ seq \in Seq(Vocab) /\ d \in Seq(Vocab)
  BY Zenon DEF VerifyFacts
<1>2. /\ dw.cached = c + k /\ (torn \/ IsPrefixState(dw, s))
      /\ (torn \/ dsnap = SubSeq(seq, 1, c)) /\ dsnap \in Seq(Ids) /\ dw \in Model
  BY Zenon, <1>1 DEF DecodeInv, DraftInv, DecodeTypeOK
<1>3. /\ SubSeq(Batch, 1, n + 1) = b /\ b \in Seq(Ids) /\ n + 1 = Len(b)
      /\ n + 1 \in Nat /\ c + (n + 1) <= Len(s) /\ c + (n + 1) <= Tmax
  BY Zenon, BatchPart
<1>4. PICK e \in Nat : e = dw.cached
  BY <1>2 DEF Model
<1>5. c <= e /\ e + 1 = c + (k + 1) /\ 1 \in Nat /\ e + 1 <= Tmax
  <2>1. e = c + k
    BY Zenon, <1>2, <1>4
  <2>2. Tmax \in Nat /\ c + (k + 1) <= Tmax
    BY Zenon, <1>1
  <2> QED BY <2>1, <2>2
<1>6. CASE n = Len(d)
  <2>1. /\ e + 1 = Len(s)
        /\ Slice(s, e, 1) = <<IF d = << >> THEN seq[w.cached + 1] ELSE d[Len(d)]>>
    BY Zenon, <1>4, DraftNext
  <2>2. d # << >> /\ e + 1 <= Len(s)
    BY <1>1, <1>5, <2>1
  <2>3. Resynced(n) = Forward(dw, Slice(s, e, 1))
    BY Zenon, <1>6, <2>1, <2>2 DEF Resynced
  <2> HIDE DEF s
  <2>4. Slice(s, e, 1) \in Seq(Ids) /\ 1 = Len(Slice(s, e, 1))
    BY Zenon, <1>1, <2>2, OneSlice
  <2>5. Sized(dw, e, Tmax) /\ e <= Len(dw.kv)
    BY Zenon, <1>1, <1>4 DEF Sized
  <2>6. Sized(Forward(dw, Slice(s, e, 1)), e + 1, Tmax)
    BY Zenon, <1>1, <1>5, <2>4, <2>5, ForwardSized
  <2>7. torn \/ IsPrefixState(Forward(dw, Slice(s, e, 1)), s)
    BY Zenon, <1>1, <1>2, <1>4, <1>5, <2>2, <2>5, ForwardKeepsPrefix
  <2>8. e + 1 = c + (n + 1)
    BY <1>1, <1>5, <1>6
  <2> QED BY Zenon, <2>3, <2>6, <2>7, <2>8 DEF s
<1>7. CASE n # Len(d)
  <2>1. Resynced(n) = Forward(x, b)
    BY Zenon, <1>3, <1>7 DEF Resynced
  <2>2. Sized(dw, e, Tmax)
    BY Zenon, <1>1, <1>4
  <2>3. SubSeq(s, 1, c) = SubSeq(seq, 1, c)
    <3>1. c <= Len(seq)
      BY <1>1 DEF T
    <3> QED BY Zenon, <1>1, <3>1, PrefixOfConcat
  <2> HIDE DEF s, b
  <2>4. Sized(x, c, Tmax) /\ (IsPrefixState(dw, s) /\ dsnap = SubSeq(s, 1, c) => IsPrefixState(x, s))
    BY Zenon, <1>1, <1>2, <1>5, <2>2, SetBack
  <2>5. torn \/ IsPrefixState(x, s)
    BY Zenon, <1>2, <2>3, <2>4
  <2> HIDE DEF x
  <2>6. x \in Model /\ c = x.cached /\ c <= Len(x.kv)
    BY Zenon, <2>4 DEF Sized
  <2>7. Sized(Forward(x, b), c + (n + 1), Tmax)
    BY Zenon, <1>1, <1>3, <2>4, ForwardSized
  <2>8. torn \/ IsPrefixState(Forward(x, b), s)
    BY Zenon, <1>1, <1>3, <2>5, <2>6, ForwardKeepsPrefix DEF b
  <2> QED BY Zenon, <2>1, <2>7, <2>8 DEF s
<1> QED BY <1>6, <1>7

(* A draft is verified. *)
LEMMA VerifyKeeps ==
  ASSUME MaxIsLargest, ArgmaxInVocab, DecodeInv, Verify
  PROVE  DecodeInv'
<1> DEFINE s == seq \o d
           arg == [i \in 1..Len(Batch) |-> Logit(w, Batch, i)]
           n == Accepted(arg)
           e == Verified(arg, n)
<1>1. /\ pc = "verify" /\ pc' = "emit" /\ w' = Swept(n) /\ emit' = e
      /\ dw' = IF mode = "hybrid" THEN Resynced(n) ELSE dw
      /\ UNCHANGED <<runVars, seq, nout, dsnap, d, torn, file>>
  BY Zenon DEF Verify
<1>2. /\ w \in Model /\ d \in Seq(Vocab) /\ arch \in Archs
  BY Zenon, <1>1 DEF DecodeInv, DecodeTypeOK
<1>3. PICK c \in Nat : c = w.cached
  BY <1>2 DEF Model
<1>4. PICK k \in Nat : k = Len(d)
  BY <1>2, LenProperties
<1>5. VerifyFacts(c, k)
  BY Zenon, <1>1, <1>3, <1>4, VerifyIn
<1>6. /\ seq \in Seq(Vocab) /\ s \in Seq(Vocab) /\ s \in Seq(Ids)
      /\ T = c + 1 /\ Len(s) = c + (k + 1)
      /\ Sized(w, c, Tmax) /\ Sized(dw, dw.cached, Tmax) /\ IsPrefixState(w, s)
      /\ Batch = Slice(s, c, k + 1) /\ k + 1 = Len(Batch)
  BY Zenon, <1>5 DEF VerifyFacts
<1>7. n \in Nat /\ n <= Len(d) /\ \A i \in 1..n : arg[i] = d[i]
  <2> HIDE DEF arg
  <2> QED BY Zenon, <1>2, AcceptedFacts
<1>8. ASSUME NEW i \in 1..(k + 1)
      PROVE  arg[i] = Argmax(arch, SubSeq(s, 1, T + i - 1)) /\ arg[i] \in Vocab
  <2>1. arg[i] = Logit(w, Slice(s, c, k + 1), i)
    BY Zenon, <1>6
  <2>2. k + 1 \in Nat /\ c + (k + 1) <= Len(s) /\ i \in Nat /\ i <= k + 1
    BY <1>6
  <2>3. ExactLogit(w, s, c, k + 1, i)
    <3> HIDE DEF s
    <3> QED BY Zenon, <1>2, <1>3, <1>6, <2>2, LogitIsExact
  <2>4. PICK j \in Nat : j = c + i
    BY <2>2
  <2>5. T + i - 1 = j /\ j <= Len(s)
    BY <1>6, <2>4
  <2>6. Argmax(arch, SubSeq(s, 1, j)) \in Vocab
    <3> HIDE DEF s
    <3> QED BY Zenon, <1>2, <1>6, <2>5, ArgmaxFacts
  <2> QED BY Zenon, <2>1, <2>3, <2>4, <2>5, <2>6 DEF ExactLogit
<1> HIDE DEF arg, n
<1> DEFINE v == arg[n + 1]
<1>9. /\ v \in Vocab /\ v = Argmax(arch, SubSeq(s, 1, T + n))
      /\ \A i \in 1..n : d[i] = Argmax(arch, SubSeq(s, 1, T + i - 1))
  <2>1. n + 1 \in 1..(k + 1) /\ T + (n + 1) - 1 = T + n /\ \A i \in 1..n : i \in 1..(k + 1)
    BY <1>4, <1>6, <1>7
  <2> HIDE DEF s
  <2> QED BY Zenon, <1>7, <1>8, <2>1
<1>10. e = Append(SubSeq(d, 1, n), v)
  BY Zenon DEF Verified
<1> HIDE DEF v, e
<1>11. /\ e \in Seq(Vocab) /\ Len(e) = n + 1 /\ Greedy(seq, e)
       /\ SubSeq(s, 1, T + n) = SubSeq(seq \o e, 1, T + n)
       /\ T + n <= Len(s) /\ T + n <= Len(seq \o e)
  BY Zenon, <1>2, <1>6, <1>7, <1>9, <1>10, VerifiedGreedy
<1>12. c + (n + 1) = T + n /\ c + (n + 1) \in Nat /\ n <= k
  <2>1. T = c + 1 /\ n \in Nat /\ n <= k
    BY Zenon, <1>4, <1>6, <1>7
  <2> QED BY <2>1
<1>13. Sized(w', c + (n + 1), Tmax) /\ IsPrefixState(w', s)
  BY Zenon, <1>1, <1>5, <1>7, <1>12, SweptIs
<1>14. mode = "hybrid" => Sized(dw', c + (n + 1), Tmax) /\ (torn \/ IsPrefixState(dw', s))
  BY Zenon, <1>1, <1>5, <1>7, <1>12, ResyncedIs
<1>15. Sized(w', w'.cached, Tmax) /\ Sized(dw', dw'.cached, Tmax)
  BY Zenon, <1>1, <1>6, <1>13, <1>14 DEF Sized
<1>16. ASSUME NEW m \in Model, m.cached = c + (n + 1), IsPrefixState(m, s)
       PROVE  IsPrefixState(m, seq \o e)
  <2> DEFINE z == seq \o e
  <2>1. seq \in Seq(Ids) /\ e \in Seq(Ids)
    BY Zenon, <1>6, <1>11, VocabIds
  <2>2. z \in Seq(Ids)
    BY <2>1, ConcatProperties
  <2>3. PICK j \in Nat : j = c + (n + 1)
    BY <1>12
  <2>4. j = m.cached /\ j <= Len(z) /\ SubSeq(s, 1, j) = SubSeq(z, 1, j)
    BY Zenon, <1>11, <1>12, <1>16, <2>3
  <2> HIDE DEF s, z
  <2>5. IsPrefixState(m, z)
    BY Zenon, <1>6, <1>16, <2>2, <2>4, PrefixStateOf
  <2> QED BY <2>5 DEF z
<1>17. /\ IsPrefixState(w', seq \o emit')
       /\ mode = "hybrid" => dw'.cached = w'.cached /\ (torn \/ IsPrefixState(dw', seq \o emit'))
  BY Zenon, <1>1, <1>13, <1>14, <1>16 DEF Sized
<1>18. w'.cached = T + Len(emit') - 1
  <2>1. w'.cached = c + (n + 1) /\ Len(emit') = n + 1 /\ T = c + 1
    BY Zenon, <1>1, <1>6, <1>11, <1>13 DEF Sized
  <2> QED BY <1>7, <2>1
<1>19. pc # "off" /\ T > 0 /\ Len(emit') > 0 /\ Len(emit') <= gen - nout
  <2>1. k < gen - nout /\ Len(emit') = n + 1
    BY Zenon, <1>1, <1>5, <1>11 DEF VerifyFacts
  <2>2. gen \in Nat /\ nout \in Nat
    BY DEF DecodeInv, DecodeTypeOK
  <2> QED BY <1>1, <1>6, <1>7, <1>12, <2>1, <2>2
<1>20. emit' \in Seq(Vocab) /\ Greedy(seq, emit')
  BY Zenon, <1>1, <1>11
<1> QED BY Zenon, <1>1, <1>15, <1>17, <1>18, <1>19, <1>20, FoundKeeps

-----------------------------------------------------------------------------
(* A set of natural numbers that is not empty has a least element. *)
LEMMA LeastNumber ==
  ASSUME NEW S \in SUBSET Nat, S # {}
  PROVE  \E x \in S : \A y \in S : x <= y
<1> DEFINE R == OpToRel(<, Nat)
<1>1. IsWellFoundedOn(R, Nat)
  BY NatLessThanWellFounded
<1>2. PICK x \in S : \A y \in S : <<y, x>> \notin R
  BY Zenon, <1>1, WFMin
<1>3. \A y \in S : ~(y < x)
  BY Zenon, <1>2 DEF OpToRel
<1> QED BY <1>3

(* The largest element of a set of numbers. *)
LEMMA MaxFacts == MaxIsLargest
<1> SUFFICES ASSUME NEW n \in Nat, NEW S \in SUBSET (0..n), S # {}
             PROVE  Max(S) \in S /\ \A y \in S : y <= Max(S)
  BY Zenon DEF MaxIsLargest
<1> DEFINE Upper == {u \in Nat : \A y \in S : y <= u}
<1>1. n \in Upper
  OBVIOUS
<1>2. PICK b \in Upper : \A v \in Upper : b <= v
  BY Zenon, <1>1, LeastNumber
<1>3. b \in S
  <2> SUFFICES ASSUME b \notin S PROVE FALSE
    OBVIOUS
  <2>1. PICK z \in S : TRUE
    BY Zenon
  <2>2. \A y \in S : y <= b - 1
    BY <1>2
  <2>3. b - 1 \in Upper
    BY <1>2, <2>1, <2>2
  <2> QED BY <1>2, <2>3
<1>4. \E x \in S : \A y \in S : x >= y
  BY <1>2, <1>3
<1>5. Max(S) \in S /\ \A y \in S : Max(S) >= y
  BY Zenon, <1>4 DEF Max
<1> QED BY <1>5

-----------------------------------------------------------------------------
(* The invariant, and what it says. *)

(* No process, no file. *)
LEMMA InitKeeps ==
  ASSUME Init PROVE DecodeInv
<1>1. Blank \in Model /\ Blank.cached = 0 /\ Len(Blank.kv) = 0
  BY EmptySeq DEF Blank, Model
<1>2. << >> \in Seq(Vocab) /\ << >> \in Seq(Ids)
  BY EmptySeq
<1>3. DecodeTypeOK
  BY <1>1, <1>2 DEF Init, DecodeTypeOK
<1>4. RoomInv
  BY <1>1 DEF Init, RoomInv
<1>5. FileInv
  BY Zenon DEF Init, FileInv
<1>6. ExactInv /\ EmitInv /\ DraftRoomInv /\ DraftInv
  BY DEF Init, ExactInv, EmitInv, DraftRoomInv, DraftInv
<1> QED BY Zenon, <1>3, <1>4, <1>5, <1>6 DEF DecodeInv

(* A step that changes nothing. *)
LEMMA StutterKeeps ==
  ASSUME DecodeInv, UNCHANGED vars
  PROVE  DecodeInv'
<1>1. DecodeTypeOK' /\ RoomInv' /\ DraftRoomInv'
  BY DEF DecodeInv, DecodeTypeOK, RoomInv, DraftRoomInv, DraftRoom, T, vars, runVars
<1>2. FileInv'
  BY Zenon DEF DecodeInv, FileInv, FileGood, IsPrefixState, vars
<1>3. ExactInv' /\ DraftInv'
  BY Zenon DEF DecodeInv, ExactInv, DraftInv, IsPrefixState, T, vars, runVars
<1>4. EmitInv'
  BY Zenon DEF DecodeInv, EmitInv, Greedy, IsPrefixState, T, vars, runVars
<1> QED BY Zenon, <1>1, <1>2, <1>3, <1>4 DEF DecodeInv

(* Every step keeps the invariant. *)
LEMMA NextKeeps ==
  ASSUME ArgmaxInVocab, DecodeInv, [Next]_vars
  PROVE  DecodeInv'
<1>1. ASSUME NEW a \in Archs, NEW md \in Modes, NEW g \in Gens, NEW p \in Prompts,
             Start(a, md, g, p)
      PROVE  DecodeInv'
  BY Zenon, <1>1, StartKeeps
<1>2. ASSUME Exits, UNCHANGED file PROVE DecodeInv'
  <2>1. (file = NoFile \/ FileGood)'
    BY Zenon, <1>2 DEF DecodeInv, FileInv, FileGood, IsPrefixState
  <2> QED BY Zenon, <1>2, <2>1, ExitsKeeps
<1>3. CASE Step
  <2>1. CASE Prefill
    BY Zenon, <2>1, PrefillKeeps
  <2>2. CASE Recompute
    BY Zenon, <2>2, RecomputeKeeps
  <2>3. CASE StartStep
    BY Zenon, <2>3, StartStepKeeps, MaxFacts
  <2>4. CASE DraftOne
    BY Zenon, <2>4, DraftOneKeeps
  <2>5. CASE DraftFails
    BY Zenon, <2>5, DraftFailsKeeps
  <2>6. CASE Verify
    BY Zenon, <2>6, VerifyKeeps, MaxFacts
  <2>7. CASE Serial
    BY Zenon, <2>7, SerialKeeps
  <2>8. CASE Emit
    BY Zenon, <2>8, EmitKeeps
  <2>9. CASE FinishAndSave
    BY Zenon, <2>9, FinishAndSaveKeeps
  <2>10. CASE Finish
    BY Zenon, <1>2, <2>10 DEF Finish
  <2>11. CASE SaveWrite
    BY Zenon, <2>11, SaveWriteKeeps
  <2> QED BY Zenon, <1>3, <2>1, <2>2, <2>3, <2>4, <2>5, <2>6, <2>7, <2>8, <2>9, <2>10, <2>11
             DEF Step
<1>4. CASE Abort
  BY Zenon, <1>2, <1>4 DEF Abort
<1>5. CASE UNCHANGED vars
  BY Zenon, <1>5, StutterKeeps
<1> QED BY Zenon, <1>1, <1>3, <1>4, <1>5 DEF Next

(* The decode loop keeps its invariant, for every vocabulary, every model  *)
(* whose argmax is an id, every prompt, --gen and --spec (k3_run.c:1186).  *)
THEOREM DecodeInvariant ==
  ASSUME ArgmaxInVocab
  PROVE  Spec => []DecodeInv
<1>1. Init => DecodeInv
  BY InitKeeps
<1>2. DecodeInv /\ [Next]_vars => DecodeInv'
  BY NextKeeps
<1> QED BY <1>1, <1>2, PTL DEF Spec

(* Between two steps both parts of the exact model's state are those of    *)
(* the sequence without its pending id: after any draft, rejection, replay *)
(* or resume (k3_run.c:1303).                                              *)
THEOREM StateAlwaysPrefix ==
  ASSUME ArgmaxInVocab
  PROVE  Spec => []StateIsPrefix
<1>1. DecodeInv => StateIsPrefix
  BY Zenon DEF DecodeInv, ExactInv, StateIsPrefix
<1> QED BY <1>1, DecodeInvariant, PTL

(* A state file that loads is that of a prefix of its ids, with an id left *)
(* to feed, wherever a save was cut off (k3_run.c:1200).                   *)
THEOREM SavedAlwaysResumable ==
  ASSUME ArgmaxInVocab
  PROVE  Spec => []SavedIsResumable
<1>1. DecodeInv => SavedIsResumable
  <2> SUFFICES ASSUME DecodeInv, file.part = SaveParts
               PROVE  IsPrefixState(file.w, file.seq) /\ file.w.cached < Len(file.seq)
    BY DEF SavedIsResumable
  <2>1. file # NoFile
    BY DEF NoFile, SaveParts
  <2> QED BY Zenon, <2>1 DEF DecodeInv, FileInv, FileGood
<1> QED BY <1>1, DecodeInvariant, PTL

(* No row, id or draft is written outside its buffer (k3_run.c:1034).      *)
THEOREM AlwaysInBounds ==
  ASSUME ArgmaxInVocab
  PROVE  Spec => []InBounds
<1>1. DecodeInv => InBounds
  <2> SUFFICES ASSUME DecodeInv PROVE InBounds
    OBVIOUS
  <2>1. Len(w.kv) <= Tmax /\ Len(dw.kv) <= Tmax /\ nout <= gen
    BY Zenon DEF DecodeInv, RoomInv
  <2>2. ASSUME pc = "verify" PROVE T + Len(d) <= Tmax + 7
    <3>1. seq \in Seq(Vocab) /\ d \in Seq(Vocab) /\ Tmax \in Nat /\ SpecN \in Nat
      BY Zenon, SpecNFacts DEF DecodeInv, DecodeTypeOK
    <3>2. Len(seq) \in Nat /\ Len(d) \in Nat
      BY <3>1, LenProperties
    <3>3. T + SpecN + 1 < Tmax /\ Len(d) <= SpecN
      BY Zenon, <2>2 DEF DecodeInv, DraftRoomInv, DraftRoom
    <3> QED BY <3>1, <3>2, <3>3 DEF T
  <2> QED BY Zenon, <2>1, <2>2 DEF InBounds
<1> QED BY <1>1, DecodeInvariant, PTL

(* The draft model's state follows the accepted ids until one of its own   *)
(* forwards fails (k3_run.c:1270).                                         *)
THEOREM DraftAlwaysInStep ==
  ASSUME ArgmaxInVocab
  PROVE  Spec => []DraftInStep
<1>1. DecodeInv => DraftInStep
  BY Zenon DEF DecodeInv, DraftInv, DraftInStep
<1> QED BY <1>1, DecodeInvariant, PTL

(* Speculation is exact: every id the loop appends is the model's choice   *)
(* after all the ids before it, whatever was drafted (k3_run.c:1344).      *)
THEOREM AlwaysGreedy ==
  ASSUME ArgmaxInVocab
  PROVE  Spec => EmittedIsGreedy
<1> DEFINE Exact == pc = "emit" /\ pc' = "step" =>
                      \A i \in (T + 1)..Len(seq') :
                         seq'[i] = Argmax(arch, SubSeq(seq', 1, i - 1))
<1>1. DecodeInv /\ [Next]_vars => [Exact]_vars
  <2> SUFFICES ASSUME DecodeInv, Next, pc = "emit", pc' = "step",
                      NEW i \in (T + 1)..Len(seq')
               PROVE  seq'[i] = Argmax(arch, SubSeq(seq', 1, i - 1))
    BY Zenon
  <2>1. Emit
    BY Zenon DEF Next, Start, Step, Prefill, Recompute, StartStep, DraftOne, DraftFails, Verify,
           Serial, FinishAndSave, Finish, Finished, SaveWrite, Abort, Exits
  <2>2. seq' = seq \o emit
    BY Zenon, <2>1, EmitAppends
  <2>3. seq \in Seq(Vocab) /\ emit \in Seq(Vocab) /\ Greedy(seq, emit)
    BY Zenon DEF DecodeInv, DecodeTypeOK, EmitInv
  <2>4. PICK t \in Nat : t = Len(seq)
    BY <2>3, LenProperties
  <2>5. /\ Len(emit) \in Nat /\ Len(seq') = t + Len(emit)
        /\ \A j \in 1..(t + Len(emit)) : seq'[j] = IF j <= t THEN seq[j] ELSE emit[j - t]
    BY <2>2, <2>3, <2>4
  <2>6. PICK k \in Nat : k = i - t /\ i - 1 = t + k - 1 /\ k \in 1..Len(emit)
    BY <2>4, <2>5 DEF T
  <2>7. seq'[i] = emit[k]
    BY <2>4, <2>5, <2>6 DEF T
  <2>8. emit[k] = Argmax(arch, SubSeq(seq \o emit, 1, t + k - 1))
    BY Zenon, <2>3, <2>4, <2>6 DEF Greedy
  <2> QED BY Zenon, <2>2, <2>6, <2>7, <2>8
<1> QED BY <1>1, DecodeInvariant, PTL DEF EmittedIsGreedy, Spec
=============================================================================
