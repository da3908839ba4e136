---------------------------- MODULE ShardsProof -----------------------------
(***************************************************************************)
(* Lemmas about the checkpoint reader (Shards): the index finds what was   *)
(* filed, the descriptors are those the structure records, the read loops  *)
(* count what they put in the buffer.                                      *)
(***************************************************************************)
EXTENDS Shards, FiniteSetTheorems, TLAPS

(* A set of natural numbers that is not empty has a least element. *)
LEMMA LeastNumber ==
  ASSUME NEW S \in SUBSET Nat, S # {}
  PROVE  \E x \in S : \A y \in S : x <= y
<1> DEFINE R == OpToRel(<, Nat)
<1>1. IsWellFoundedOn(R, Nat)
  BY NatLessThanWellFounded
<1>2. PICK x \in S : \A y \in S : <<y, x>> \notin R
  BY Zenon, <1>1, WFMin
<1>3. \A y \in S : ~(y < x)
  BY Zenon, <1>2 DEF OpToRel
<1> QED BY <1>3

(* Induction up to N: what holds of 0 and passes from each number to the   *)
(* next holds up to N.                                                     *)
LEMMA UpTo ==
  ASSUME NEW N \in Nat, NEW S, 0 \in S, \A n \in 1..N : n - 1 \in S => n \in S
  PROVE  \A n \in 0..N : n \in S
<1> DEFINE Left == {n \in 0..N : n \notin S}
<1> SUFFICES ASSUME Left # {} PROVE FALSE
  BY Zenon
<1>1. PICK x \in Left : \A y \in Left : x <= y
  <2>1. Left \in SUBSET Nat
    OBVIOUS
  <2> HIDE DEF Left
  <2> QED BY Zenon, <2>1, LeastNumber
<1>2. x \in 1..N /\ x - 1 \in 0..N /\ x - 1 < x
  BY <1>1
<1>3. x - 1 \in S
  BY <1>1, <1>2
<1> QED BY <1>1, <1>2, <1>3

Steps(u, N, V, base, g) ==
  u \in [0..N -> V] /\ u[0] = base /\ \A n \in 1..N : u[n] = g[<<n, u[n - 1]>>]

(* A first value and a step on the values in V define a function. *)
LEMMA Recursion ==
  ASSUME NEW N \in Nat, NEW V, NEW base \in V, NEW g \in [(1..N) \X V -> V]
  PROVE  \E u : Steps(u, N, V, base, g)
<1> DEFINE Sol(u, n) == /\ u \in [0..n -> V] /\ u[0] = base
                        /\ \A m \in 1..n : u[m] = g[<<m, u[m - 1]>>]
           S == {n \in 0..N : \E u : Sol(u, n)}
<1>1. 0 \in S
  <2>1. Sol([n \in 0..0 |-> base], 0) /\ 0 \in 0..N
    OBVIOUS
  <2> HIDE DEF Sol
  <2> QED BY Zenon, <2>1
<1>2. ASSUME NEW n \in 1..N, n - 1 \in S PROVE n \in S
  <2>1. PICK u : Sol(u, n - 1)
    BY Zenon, <1>2
  <2> DEFINE v == [m \in 0..n |-> IF m = n THEN g[<<n, u[n - 1]>>] ELSE u[m]]
  <2>2. u[n - 1] \in V /\ n - 1 \in 0..(n - 1)
    BY <2>1
  <2>3. g[<<n, u[n - 1]>>] \in V
    BY Zenon, <2>2
  <2>4. v \in [0..n -> V] /\ v[0] = base
    BY <2>1, <2>3
  <2>5. ASSUME NEW m \in 1..n PROVE v[m] = g[<<m, v[m - 1]>>]
    <3>1. v[m - 1] = u[m - 1]
      OBVIOUS
    <3>2. m # n => u[m] = g[<<m, u[m - 1]>>] /\ v[m] = u[m]
      BY <2>1
    <3>3. m = n => v[m] = g[<<n, u[n - 1]>>]
      OBVIOUS
    <3> QED BY Zenon, <3>1, <3>2, <3>3
  <2>6. Sol(v, n)
    BY Zenon, <2>4, <2>5
  <2> HIDE DEF v, Sol
  <2>7. n \in 0..N
    OBVIOUS
  <2> QED BY Zenon, <2>6, <2>7
<1> HIDE DEF S
<1>3. N \in S
  BY <1>1, <1>2, UpTo
<1>4. PICK u : Sol(u, N)
  BY Zenon, <1>3 DEF S
<1> QED BY Zenon, <1>4 DEF Steps

(* The remainder is the one number below the divisor that is left. *)
LEMMA ModIs ==
  ASSUME NEW n \in Nat \ {0}, NEW q \in Nat, NEW r \in 0..(n - 1)
  PROVE  (q * n + r) % n = r
OBVIOUS

(* A number is its quotient and its remainder. *)
LEMMA ModParts ==
  ASSUME NEW n \in Nat \ {0}, NEW a \in Nat
  PROVE  a \div n \in Nat /\ a % n \in 0..(n - 1) /\ a = (a \div n) * n + (a % n)
OBVIOUS

(* From any hash on, a walk around the table meets every bucket. *)
LEMMA ModReach ==
  ASSUME NEW nb \in Nat \ {0}, NEW h \in Nat, NEW j \in 0..(nb - 1)
  PROVE  \E d \in 0..(nb - 1) : (h + d) % nb = j
<1> DEFINE q == h \div nb
           r == h % nb
<1>1. q \in Nat /\ r \in 0..(nb - 1) /\ h = q * nb + r
  BY Zenon, ModParts
<1> HIDE DEF q, r
<1>2. CASE r <= j
  <2>1. j - r \in 0..(nb - 1) /\ h + (j - r) = q * nb + j
    BY <1>1, <1>2
  <2> QED BY Zenon, <1>1, <2>1, ModIs
<1>3. CASE r > j
  <2>1. j - r + nb \in 0..(nb - 1) /\ h + (j - r + nb) = (q + 1) * nb + j /\ q + 1 \in Nat
    BY <1>1, <1>3
  <2> QED BY Zenon, <2>1, ModIs
<1> QED BY <1>1, <1>2, <1>3
-----------------------------------------------------------------------------
(* The index of k3_st_open and the walk of k3_st_find.                     *)

(* The walk ends at the first position that ends it. *)
LEMMA ProbeIs ==
  ASSUME NEW b, NEW ts, NEW nb \in Nat, NEW name, NEW d \in 0..(nb - 1),
         EndsWalk(b, ts, name, At(name, d, nb)),
         \A e \in 0..(d - 1) : ~EndsWalk(b, ts, name, At(name, e, nb))
  PROVE  Probe(b, ts, nb, name) = At(name, d, nb)
<1> DEFINE stop(x) == EndsWalk(b, ts, name, At(name, x, nb))
           first(x) == stop(x) /\ \A e \in 0..(x - 1) : ~stop(e)
           f == CHOOSE x \in 0..(nb - 1) : first(x)
<1>1. Probe(b, ts, nb, name) = IF \A x \in 0..(nb - 1) : ~stop(x) THEN nb ELSE At(name, f, nb)
  BY Zenon DEF Probe
<1>2. f \in 0..(nb - 1) /\ first(f)
  <2>1. first(d)
    BY Zenon
  <2> HIDE DEF first
  <2> QED BY Zenon, <2>1
<1>3. stop(d) /\ \A e \in 0..(d - 1) : ~stop(e)
  BY Zenon
<1> HIDE DEF stop, f
<1>4. f = d
  <2>1. f < d => f \in 0..(d - 1)
    BY <1>2
  <2>2. d < f => d \in 0..(f - 1)
    BY <1>2
  <2>3. ~(f < d) /\ ~(d < f)
    BY Zenon, <1>2, <1>3, <2>1, <2>2
  <2> QED BY <1>2, <2>3
<1> QED BY Zenon, <1>1, <1>3, <1>4

(* A walk that some position ends has a first one. *)
LEMMA FirstStop ==
  ASSUME NEW b, NEW ts, NEW nb \in Nat, NEW name, NEW x \in 0..(nb - 1),
         EndsWalk(b, ts, name, At(name, x, nb))
  PROVE  \E d \in 0..(nb - 1) : /\ EndsWalk(b, ts, name, At(name, d, nb))
                                /\ \A e \in 0..(d - 1) : ~EndsWalk(b, ts, name, At(name, e, nb))
<1> DEFINE stop(y) == EndsWalk(b, ts, name, At(name, y, nb))
           S == {y \in 0..(nb - 1) : stop(y)}
<1>1. S \in SUBSET Nat /\ x \in S
  OBVIOUS
<1>2. PICK d \in S : \A y \in S : d <= y
  <2> HIDE DEF S
  <2> QED BY Zenon, <1>1, LeastNumber
<1>3. d \in 0..(nb - 1) /\ stop(d)
  BY Zenon, <1>2
<1>4. ASSUME NEW e \in 0..(d - 1) PROVE ~stop(e)
  <2>1. e \in 0..(nb - 1) /\ ~(d <= e)
    BY <1>3
  <2> QED BY Zenon, <1>2, <2>1
<1> QED BY Zenon, <1>3, <1>4

(* The first i tensors are filed: every bucket that is not empty holds one *)
(* of them, each of them is what the walk from its name's hash finds, no   *)
(* two have the same name, and at most i buckets are taken.                *)
Filed(h, ts, nb, b, i) ==
  /\ b \in [0..(nb - 1) -> 0..i]
  /\ \A k \in 1..i : \E d \in 0..(nb - 1) :
       /\ b[(h[ts[k].name] + d) % nb] = k
       /\ \A e \in 0..(d - 1) : ~EndsWalk(b, ts, ts[k].name, (h[ts[k].name] + e) % nb)
  /\ \A k, m \in 1..i : ts[k].name = ts[m].name => k = m
  /\ Cardinality({j \in 0..(nb - 1) : b[j] # 0}) <= i

(* A table with fewer tensors than buckets has an empty bucket, so that    *)
(* every walk ends.                                                        *)
LEMMA WalkEnds ==
  ASSUME NEW ts, NEW nb \in Nat \ {0}, NEW i \in Nat, i < nb, NEW b, Filed(hash, ts, nb, b, i),
         NEW name, hash[name] \in Nat
  PROVE  \E d \in 0..(nb - 1) :
           /\ Probe(b, ts, nb, name) = At(name, d, nb)
           /\ EndsWalk(b, ts, name, At(name, d, nb))
           /\ \A e \in 0..(d - 1) : ~EndsWalk(b, ts, name, At(name, e, nb))
<1> DEFINE Used == {j \in 0..(nb - 1) : b[j] # 0}
<1>1. Cardinality(0..(nb - 1)) = nb
  <2>1. 0 \in Int /\ nb - 1 \in Int /\ ~(0 > nb - 1)
    OBVIOUS
  <2>2. Cardinality(0..(nb - 1)) = (nb - 1) - 0 + 1
    BY Zenon, <2>1, FS_Interval
  <2> QED BY <2>2
<1>2. Cardinality(Used) <= i
  BY Zenon DEF Filed
<1>3. Used # 0..(nb - 1)
  <2> HIDE DEF Used
  <2> SUFFICES ASSUME Used = 0..(nb - 1) PROVE FALSE
    BY Zenon
  <2> QED BY <1>1, <1>2
<1>4. PICK j \in 0..(nb - 1) : b[j] = 0
  BY Zenon, <1>3
<1>5. PICK x \in 0..(nb - 1) : (hash[name] + x) % nb = j
  BY Zenon, ModReach
<1>6. EndsWalk(b, ts, name, At(name, x, nb))
  BY Zenon, <1>4, <1>5 DEF EndsWalk, At
<1>7. nb \in Nat
  OBVIOUS
<1>8. PICK d \in 0..(nb - 1) : /\ EndsWalk(b, ts, name, At(name, d, nb))
                              /\ \A e \in 0..(d - 1) : ~EndsWalk(b, ts, name, At(name, e, nb))
  BY Zenon, <1>6, <1>7, FirstStop
<1>9. Probe(b, ts, nb, name) = At(name, d, nb)
  BY <1>7, <1>8, ProbeIs
<1> QED BY Zenon, <1>8, <1>9

(* What the walk that ends in bucket j finds in a table of the first i     *)
(* tensors: the tensor of that name, or an empty bucket if there is none.  *)
Found(ts, nb, b, i, name, j) ==
  /\ j \in 0..(nb - 1)
  /\ b[j] = 0 => \A k \in 1..i : ts[k].name # name
  /\ b[j] # 0 => b[j] \in 1..i /\ ts[b[j]].name = name

(* The walk of k3_st_find finds what it should. *)
LEMMA WalkFinds ==
  ASSUME NEW ts, NEW nb \in Nat \ {0}, NEW i \in Nat, i < nb, NEW b, Filed(hash, ts, nb, b, i),
         NEW name, hash[name] \in Nat
  PROVE  Found(ts, nb, b, i, name, Probe(b, ts, nb, name))
<1>1. PICK d \in 0..(nb - 1) :
           /\ Probe(b, ts, nb, name) = At(name, d, nb)
           /\ EndsWalk(b, ts, name, At(name, d, nb))
           /\ \A e \in 0..(d - 1) : ~EndsWalk(b, ts, name, At(name, e, nb))
  BY Zenon, WalkEnds
<1> DEFINE j == At(name, d, nb)
<1>2. j \in 0..(nb - 1)
  <2>1. hash[name] + d \in Nat
    OBVIOUS
  <2> QED BY Zenon, <2>1, ModParts DEF At
<1>3. b[j] \in 0..i
  BY Zenon, <1>2 DEF Filed
<1>4. ASSUME b[j] = 0, NEW k \in 1..i, ts[k].name = name PROVE FALSE
  <2>1. PICK x \in 0..(nb - 1) :
          /\ b[At(name, x, nb)] = k
          /\ \A e \in 0..(x - 1) : ~EndsWalk(b, ts, name, At(name, e, nb))
    <3>1. \E x \in 0..(nb - 1) :
            /\ b[At(ts[k].name, x, nb)] = k
            /\ \A e \in 0..(x - 1) : ~EndsWalk(b, ts, ts[k].name, At(ts[k].name, e, nb))
      BY Zenon DEF Filed, At
    <3> QED BY Zenon, <1>4, <3>1
  <2>2. EndsWalk(b, ts, name, At(name, x, nb))
    BY Zenon, <1>4, <2>1 DEF EndsWalk
  <2>3. nb \in Nat
    OBVIOUS
  <2>4. Probe(b, ts, nb, name) = At(name, x, nb)
    BY <2>1, <2>2, <2>3, ProbeIs
  <2>5. b[j] = k
    BY Zenon, <1>1, <2>1, <2>4
  <2> QED BY <1>4, <2>5
<1>5. b[j] # 0 => b[j] \in 1..i
  BY <1>3
<1>6. b[j] # 0 => ts[b[j]].name = name
  BY Zenon, <1>1 DEF EndsWalk
<1>7. Found(ts, nb, b, i, name, j)
  BY Zenon, <1>2, <1>4, <1>5, <1>6 DEF Found
<1> QED BY Zenon, <1>1, <1>7

(* Filing the next tensor in an empty bucket at the end of its walk. *)
LEMMA InsertFiles ==
  ASSUME NEW ts, NEW nb \in Nat \ {0}, NEW i \in Nat \ {0}, i < nb, NEW b, Filed(hash, ts, nb, b, i - 1),
         \A k \in 1..i : hash[ts[k].name] \in Nat,
         b[Probe(b, ts, nb, ts[i].name)] = 0
  PROVE  Filed(hash, ts, nb, [b EXCEPT ![Probe(b, ts, nb, ts[i].name)] = i], i)
<1> DEFINE name == ts[i].name
           j == Probe(b, ts, nb, name)
           b2 == [b EXCEPT ![j] = i]
<1>1. i - 1 \in Nat /\ i - 1 < nb /\ i \in 1..i /\ \A k \in 1..i : k \in 1..(i - 1) \/ k = i
  OBVIOUS
<1>2. hash[name] \in Nat
  BY Zenon, <1>1
<1> HIDE DEF name
<1>3. PICK d \in 0..(nb - 1) :
           /\ j = At(name, d, nb)
           /\ EndsWalk(b, ts, name, At(name, d, nb))
           /\ \A e \in 0..(d - 1) : ~EndsWalk(b, ts, name, At(name, e, nb))
  BY <1>1, <1>2, WalkEnds
<1>5. b[j] = 0
  BY Zenon DEF name
<1>4. j \in 0..(nb - 1) /\ \A k \in 1..(i - 1) : ts[k].name # name
  <2>1. Found(ts, nb, b, i - 1, name, j)
    BY Zenon, <1>1, <1>2, WalkFinds
  <2> QED BY Zenon, <1>5, <2>1 DEF Found
<1>6. b \in [0..(nb - 1) -> 0..(i - 1)]
  BY Zenon DEF Filed
<1> HIDE DEF j
<1>7. b2 \in [0..(nb - 1) -> 0..i]
  <2>1. b \in [0..(nb - 1) -> 0..i]
    BY <1>6
  <2>2. i \in 0..i
    OBVIOUS
  <2> QED BY Zenon, <2>1, <2>2
<1>8. \A x \in 0..(nb - 1) : b2[x] = IF x = j THEN i ELSE b[x]
  BY Zenon, <1>6
<1>9. ASSUME NEW n, NEW x \in Nat, hash[n] \in Nat PROVE At(n, x, nb) \in 0..(nb - 1)
  <2>1. hash[n] + x \in Nat
    BY <1>9
  <2> QED BY Zenon, <2>1, ModParts DEF At
<1>10. ASSUME NEW n, NEW x \in Nat, hash[n] \in Nat, ~EndsWalk(b, ts, n, At(n, x, nb))
       PROVE  ~EndsWalk(b2, ts, n, At(n, x, nb))
  <2>1. At(n, x, nb) \in 0..(nb - 1)
    BY Zenon, <1>9, <1>10
  <2>2. b[At(n, x, nb)] # 0
    BY Zenon, <1>10 DEF EndsWalk
  <2>3. b2[At(n, x, nb)] = b[At(n, x, nb)]
    BY Zenon, <1>5, <1>8, <2>1, <2>2
  <2> QED BY Zenon, <1>10, <2>3 DEF EndsWalk
<1> HIDE DEF b2
<1>11. ASSUME NEW k \in 1..i
       PROVE  \E x \in 0..(nb - 1) :
                /\ b2[At(ts[k].name, x, nb)] = k
                /\ \A e \in 0..(x - 1) : ~EndsWalk(b2, ts, ts[k].name, At(ts[k].name, e, nb))
  <2>1. CASE k = i
    <3>1. b2[At(name, d, nb)] = i
      BY Zenon, <1>3, <1>4, <1>8
    <3>2. \A e \in 0..(d - 1) : e \in Nat
      OBVIOUS
    <3>3. \A e \in 0..(d - 1) : ~EndsWalk(b2, ts, name, At(name, e, nb))
      BY Zenon, <1>2, <1>3, <1>10, <3>2
    <3> QED BY Zenon, <2>1, <3>1, <3>3 DEF name
  <2>2. CASE k \in 1..(i - 1)
    <3>1. PICK x \in 0..(nb - 1) :
            /\ b[At(ts[k].name, x, nb)] = k
            /\ \A e \in 0..(x - 1) : ~EndsWalk(b, ts, ts[k].name, At(ts[k].name, e, nb))
      BY Zenon, <2>2 DEF Filed, At
    <3>2. x \in Nat /\ (\A e \in 0..(x - 1) : e \in Nat) /\ k # 0
      BY <2>2
    <3>3. hash[ts[k].name] \in Nat
      OBVIOUS
    <3>4. At(ts[k].name, x, nb) \in 0..(nb - 1)
      BY Zenon, <1>9, <3>2, <3>3
    <3>5. b2[At(ts[k].name, x, nb)] = k
      BY Zenon, <1>5, <1>8, <3>1, <3>2, <3>4
    <3>6. \A e \in 0..(x - 1) : ~EndsWalk(b2, ts, ts[k].name, At(ts[k].name, e, nb))
      BY Zenon, <1>10, <3>1, <3>2, <3>3
    <3> QED BY Zenon, <3>5, <3>6
  <2> QED BY Zenon, <1>1, <2>1, <2>2
<1>12. ASSUME NEW k \in 1..i, NEW m \in 1..i, ts[k].name = ts[m].name PROVE k = m
  <2>1. k \in 1..(i - 1) /\ m \in 1..(i - 1) => k = m
    BY Zenon, <1>12 DEF Filed
  <2> QED BY Zenon, <1>1, <1>4, <1>12, <2>1 DEF name
<1>13. Cardinality({x \in 0..(nb - 1) : b2[x] # 0}) <= i
  <2> DEFINE Used == {x \in 0..(nb - 1) : b[x] # 0}
             Used2 == {x \in 0..(nb - 1) : b2[x] # 0}
  <2>1. i # 0
    OBVIOUS
  <2>2. Used2 = Used \cup {j} /\ j \notin Used
    BY Zenon, <1>4, <1>5, <1>8, <2>1
  <2>3. Used \subseteq 0..(nb - 1) /\ IsFiniteSet(0..(nb - 1))
    <3>1. 0 \in Int /\ nb - 1 \in Int
      OBVIOUS
    <3> QED BY Zenon, <3>1, FS_Interval
  <2>4. Cardinality(Used) <= i - 1
    BY Zenon DEF Filed
  <2> HIDE DEF Used, Used2
  <2>5. IsFiniteSet(Used) /\ Cardinality(Used) \in Nat
    BY Zenon, <2>3, FS_Subset, FS_CardinalityType
  <2>6. Cardinality(Used \cup {j}) = Cardinality(Used) + 1
    BY Zenon, <2>2, <2>5, FS_AddElement
  <2>7. Cardinality(Used2) <= i
    BY <2>2, <2>4, <2>5, <2>6
  <2> QED BY Zenon, <2>7 DEF Used2
<1>14. Filed(hash, ts, nb, b2, i)
  BY Zenon, <1>7, <1>11, <1>12, <1>13 DEF Filed, At
<1> QED BY Zenon, <1>14 DEF b2, j, name

(* k3_st_open files the tensors one by one; a table it accepts files all.  *)
LEMMA TableFiles ==
  ASSUME NEW N \in Nat, NEW ts, Len(ts) = N, NEW nb \in Nat, N < nb,
         \A k \in 1..N : hash[ts[k].name] \in Nat,
         Table(ts, nb).ok
  PROVE  Filed(hash, ts, nb, Table(ts, nb).b, N)
<1> DEFINE V == [ok : BOOLEAN, b : [0..(nb - 1) -> 0..N]]
           Empty == [ok |-> TRUE, b |-> [j \in 0..(nb - 1) |-> 0]]
           g == [x \in (1..N) \X V |-> Insert(x[2], ts, nb, x[1])]
           Eq(u) == u = [i \in 0..N |-> IF i = 0 THEN Empty ELSE Insert(u[i - 1], ts, nb, i)]
           tab == CHOOSE u : Eq(u)
<1>1. ASSUME NEW i \in 1..N, NEW p \in V PROVE Insert(p, ts, nb, i) \in V
  <2> DEFINE j == Probe(p.b, ts, nb, ts[i].name)
  <2>1. Insert(p, ts, nb, i) = IF p.ok /\ p.b[j] = 0 THEN [ok |-> TRUE, b |-> [p.b EXCEPT ![j] = i]]
                               ELSE [ok |-> FALSE, b |-> p.b]
    BY Zenon DEF Insert
  <2> HIDE DEF j
  <2>2. p.b \in [0..(nb - 1) -> 0..N] /\ i \in 0..N
    OBVIOUS
  <2>3. [p.b EXCEPT ![j] = i] \in [0..(nb - 1) -> 0..N]
    BY Zenon, <2>2
  <2> QED BY <2>1, <2>2, <2>3
<1>2. Empty \in V
  OBVIOUS
<1>3. g \in [(1..N) \X V -> V] /\ \A i \in 1..N, p \in V : g[<<i, p>>] = Insert(p, ts, nb, i)
  <2> HIDE DEF V
  <2> QED BY <1>1
<1> HIDE DEF V, Empty, g
<1>4. PICK u : Steps(u, N, V, Empty, g)
  BY Zenon, <1>2, <1>3, Recursion
<1>5. Eq(u)
  <2>1. ASSUME NEW i \in 1..N PROVE u[i] = Insert(u[i - 1], ts, nb, i)
    <3>1. i - 1 \in 0..N
      OBVIOUS
    <3>2. u[i - 1] \in V
      BY Zenon, <1>4, <3>1 DEF Steps
    <3> QED BY Zenon, <1>3, <1>4, <3>2 DEF Steps
  <2>2. \A i \in 0..N : i # 0 => i \in 1..N
    OBVIOUS
  <2>3. \A i \in 0..N : u[i] = IF i = 0 THEN Empty ELSE Insert(u[i - 1], ts, nb, i)
    BY Zenon, <1>4, <2>1, <2>2 DEF Steps
  <2> QED BY Zenon, <1>4, <2>3 DEF Steps
<1>6. Eq(tab)
  <2> HIDE DEF Eq
  <2> QED BY Zenon, <1>5
<1>7. Table(ts, nb) = tab[N]
  BY Zenon DEF Table, Empty
<1>8. tab[0] = Empty /\ \A i \in 1..N : tab[i] = Insert(tab[i - 1], ts, nb, i)
  <2> HIDE DEF tab
  <2>1. (\A i \in 1..N : i \in 0..N /\ i # 0) /\ 0 \in 0..N
    OBVIOUS
  <2> QED BY Zenon, <1>6, <2>1
<1> HIDE DEF tab
<1> DEFINE S == {i \in 0..N : tab[i].ok => Filed(hash, ts, nb, tab[i].b, i)}
<1>9. 0 \in S
  <2>1. Empty.b = [j \in 0..(nb - 1) |-> 0]
    BY DEF Empty
  <2>2. Empty.b \in [0..(nb - 1) -> 0..0] /\ 1..0 = {}
    BY <2>1
  <2>3. {j \in 0..(nb - 1) : Empty.b[j] # 0} = {}
    BY <2>1
  <2>4. Cardinality({j \in 0..(nb - 1) : Empty.b[j] # 0}) <= 0
    <3>1. Cardinality({j \in 0..(nb - 1) : Empty.b[j] # 0}) = 0
      BY Zenon, <2>3, FS_EmptySet
    <3> QED BY <3>1
  <2>5. Filed(hash, ts, nb, Empty.b, 0)
    BY Zenon, <2>2, <2>4 DEF Filed
  <2>6. 0 \in 0..N
    OBVIOUS
  <2> QED BY Zenon, <1>8, <2>5, <2>6
<1>10. ASSUME NEW i \in 1..N, i - 1 \in S PROVE i \in S
  <2> DEFINE p == tab[i - 1]
             j == Probe(p.b, ts, nb, ts[i].name)
  <2>1. tab[i] = Insert(p, ts, nb, i)
    BY Zenon, <1>8
  <2> HIDE DEF p
  <2>2. Insert(p, ts, nb, i) = IF p.ok /\ p.b[j] = 0 THEN [ok |-> TRUE, b |-> [p.b EXCEPT ![j] = i]]
                               ELSE [ok |-> FALSE, b |-> p.b]
    BY Zenon DEF Insert
  <2>3. ASSUME tab[i].ok PROVE Filed(hash, ts, nb, tab[i].b, i)
    <3>1. p.ok /\ p.b[j] = 0 /\ tab[i].b = [p.b EXCEPT ![j] = i]
      BY <2>1, <2>2, <2>3
    <3>2. Filed(hash, ts, nb, p.b, i - 1)
      BY Zenon, <1>10, <3>1 DEF p
    <3>3. i \in Nat \ {0} /\ nb \in Nat \ {0} /\ i < nb /\ \A k \in 1..i : hash[ts[k].name] \in Nat
      OBVIOUS
    <3>4. Filed(hash, ts, nb, [p.b EXCEPT ![j] = i], i)
      BY Zenon, <3>1, <3>2, <3>3, InsertFiles
    <3> QED BY Zenon, <3>1, <3>4
  <2>4. i \in 0..N
    OBVIOUS
  <2> QED BY Zenon, <2>3, <2>4
<1> HIDE DEF S
<1>11. \A i \in 0..N : i \in S
  BY Zenon, <1>9, <1>10, UpTo
<1>12. N \in 0..N
  OBVIOUS
<1> QED BY Zenon, <1>7, <1>11, <1>12 DEF S

(* The table is never more than half full. *)
LEMMA BucketsEnough ==
  ASSUME NEW n \in Nat
  PROVE  NBuckets(n) \in Nat /\ NBuckets(n) >= 2 * n /\ n < NBuckets(n)
<1> DEFINE g == [x \in (1..n) \X Nat |-> 2 * x[2]]
           Eq(u) == u = [k \in 0..n |-> IF k = 0 THEN MinBuckets ELSE 2 * u[k - 1]]
           nb == CHOOSE u : Eq(u)
           enough(k) == nb[k] >= 2 * n /\ \A m \in 0..(k - 1) : nb[m] < 2 * n
<1>1. MinBuckets \in Nat \ {0}
  BY ShardsAssumption
<1>2. g \in [(1..n) \X Nat -> Nat] /\ \A k \in 1..n, p \in Nat : g[<<k, p>>] = 2 * p
  OBVIOUS
<1> HIDE DEF g
<1>3. PICK u : Steps(u, n, Nat, MinBuckets, g)
  BY Zenon, <1>1, <1>2, Recursion
<1>4. Eq(u)
  <2>1. ASSUME NEW k \in 1..n PROVE u[k] = 2 * u[k - 1]
    <3>1. k - 1 \in 0..n
      OBVIOUS
    <3>2. u[k - 1] \in Nat
      BY Zenon, <1>3, <3>1 DEF Steps
    <3> QED BY Zenon, <1>2, <1>3, <3>2 DEF Steps
  <2>2. \A k \in 0..n : k # 0 => k \in 1..n
    OBVIOUS
  <2>3. \A k \in 0..n : u[k] = IF k = 0 THEN MinBuckets ELSE 2 * u[k - 1]
    BY Zenon, <1>3, <2>1, <2>2 DEF Steps
  <2> QED BY Zenon, <1>3, <2>3 DEF Steps
<1>5. Eq(nb)
  <2> HIDE DEF Eq
  <2> QED BY Zenon, <1>4
<1>6. NBuckets(n) = nb[CHOOSE k \in 0..n : enough(k)]
  BY Zenon DEF NBuckets
<1>7. nb[0] = MinBuckets /\ \A k \in 1..n : nb[k] = 2 * nb[k - 1]
  <2> HIDE DEF nb
  <2>1. (\A k \in 1..n : k \in 0..n /\ k # 0) /\ 0 \in 0..n
    OBVIOUS
  <2> QED BY Zenon, <1>5, <2>1
<1> HIDE DEF nb
<1> DEFINE S == {k \in 0..n : nb[k] \in Nat /\ nb[k] >= 1 /\ nb[k] >= 2 * k}
<1>8. \A k \in 0..n : k \in S
  <2>1. 0 \in S
    BY <1>1, <1>7
  <2>2. ASSUME NEW k \in 1..n, k - 1 \in S PROVE k \in S
    <3>1. nb[k] = 2 * nb[k - 1] /\ nb[k - 1] \in Nat /\ nb[k - 1] >= 1 /\ nb[k - 1] >= 2 * (k - 1)
      BY Zenon, <1>7, <2>2
    <3> QED BY <3>1
  <2> HIDE DEF S
  <2> QED BY Zenon, <2>1, <2>2, UpTo
<1>9. \E k \in 0..n : enough(k)
  <2> DEFINE E == {k \in 0..n : nb[k] >= 2 * n}
  <2>1. n \in 0..n
    OBVIOUS
  <2>2. n \in E /\ E \in SUBSET Nat
    BY <1>8, <2>1
  <2>3. PICK k \in E : \A m \in E : k <= m
    <3> HIDE DEF E
    <3> QED BY Zenon, <2>2, LeastNumber
  <2>4. ASSUME NEW m \in 0..(k - 1) PROVE nb[m] < 2 * n
    <3>1. m \in 0..n /\ ~(k <= m)
      BY <2>3
    <3>2. ~(nb[m] >= 2 * n)
      BY Zenon, <2>3, <3>1
    <3>3. nb[m] \in Nat
      BY Zenon, <1>8, <3>1
    <3> QED BY <3>2, <3>3
  <2> QED BY Zenon, <2>3, <2>4
<1>10. PICK k \in 0..n : NBuckets(n) = nb[k] /\ enough(k)
  <2> HIDE DEF enough
  <2> QED BY Zenon, <1>6, <1>9
<1>11. nb[k] \in Nat /\ nb[k] >= 1
  BY Zenon, <1>8
<1> QED BY <1>10, <1>11

-----------------------------------------------------------------------------
(* The tensors of the headers.                                             *)

Formats == {"U8", "BF16", "F16", "F32"}

(* A tensor of an accepted header. *)
Accepted ==
  {t \in [name : Names, shard : Nat \ {0}, dtype : Formats, shape : Seq(Nat), off : Nat, nbytes : Nat] :
     t.nbytes = numel(t) * elemsize(t.dtype)}

(* The bytes of a tensor. *)
LEMMA AcceptedIs ==
  ASSUME NEW t \in Accepted
  PROVE  t.nbytes \in Nat /\ t.off \in Nat /\ t.shard \in Nat \ {0}
BY DEF Accepted

(* An element takes one, two or four bytes. *)
LEMMA ElemSize ==
  ASSUME NEW d \in Formats
  PROVE  elemsize(d) \in {1, 2, 4}
BY DEF Formats, elemsize

(* The count of elements is a natural number that depends on the shape. *)
LEMMA NumelType ==
  ASSUME NEW t, t.shape \in Seq(Nat)
  PROVE  numel(t) \in Nat
<1> DEFINE N == Len(t.shape)
           g == [x \in (1..N) \X Nat |-> x[2] * t.shape[x[1]]]
           Eq(u) == u = [k \in 0..N |-> IF k = 0 THEN 1 ELSE u[k - 1] * t.shape[k]]
           n == CHOOSE u : Eq(u)
<1>1. N \in Nat /\ N \in 0..N
  OBVIOUS
<1>2. g \in [(1..N) \X Nat -> Nat] /\ \A k \in 1..N, p \in Nat : g[<<k, p>>] = p * t.shape[k]
  <2>1. ASSUME NEW x \in (1..N) \X Nat PROVE x[2] * t.shape[x[1]] \in Nat
    <3>1. x[1] \in 1..N /\ x[2] \in Nat
      OBVIOUS
    <3>2. t.shape[x[1]] \in Nat
      BY <3>1
    <3> QED BY <3>1, <3>2
  <2>2. g \in [(1..N) \X Nat -> Nat]
    BY Zenon, <2>1
  <2>3. ASSUME NEW k \in 1..N, NEW p \in Nat PROVE g[<<k, p>>] = p * t.shape[k]
    <3>1. <<k, p>> \in (1..N) \X Nat /\ <<k, p>>[1] = k /\ <<k, p>>[2] = p
      OBVIOUS
    <3> QED BY Zenon, <3>1
  <2> QED BY Zenon, <2>2, <2>3
<1>3. 1 \in Nat
  OBVIOUS
<1>4. numel(t) = n[N]
  BY Zenon DEF numel
<1> HIDE DEF g, N
<1>5. PICK u : Steps(u, N, Nat, 1, g)
  BY Zenon, <1>1, <1>2, <1>3, Recursion
<1>6. Eq(u)
  <2>1. ASSUME NEW k \in 1..N PROVE u[k] = u[k - 1] * t.shape[k]
    <3>1. k - 1 \in 0..N
      BY <1>1
    <3>2. u[k - 1] \in Nat
      BY Zenon, <1>5, <3>1 DEF Steps
    <3> QED BY Zenon, <1>2, <1>5, <3>2 DEF Steps
  <2>2. \A k \in 0..N : k # 0 => k \in 1..N
    BY <1>1
  <2>3. \A k \in 0..N : u[k] = IF k = 0 THEN 1 ELSE u[k - 1] * t.shape[k]
    BY Zenon, <1>5, <2>1, <2>2 DEF Steps
  <2> QED BY Zenon, <1>5, <2>3 DEF Steps
<1>7. Eq(n)
  <2> HIDE DEF Eq
  <2> QED BY Zenon, <1>6
<1>8. n[0] = 1 /\ \A k \in 1..N : n[k] = n[k - 1] * t.shape[k]
  <2> HIDE DEF n
  <2>1. (\A k \in 1..N : k \in 0..N /\ k # 0) /\ 0 \in 0..N
    BY <1>1
  <2> QED BY Zenon, <1>7, <2>1
<1> HIDE DEF n
<1> DEFINE S == {k \in 0..N : n[k] \in Nat}
<1>9. \A k \in 0..N : k \in S
  <2>1. 0 \in S
    BY <1>1, <1>8
  <2>2. ASSUME NEW k \in 1..N, k - 1 \in S PROVE k \in S
    <3>1. n[k] = n[k - 1] * t.shape[k] /\ n[k - 1] \in Nat /\ t.shape[k] \in Nat
      BY <1>8, <2>2 DEF N
    <3>2. k \in 0..N
      BY <1>1
    <3> QED BY <3>1, <3>2
  <2> HIDE DEF S
  <2> QED BY Zenon, <1>1, <2>1, <2>2, UpTo
<1> QED BY Zenon, <1>1, <1>4, <1>9

(* scan_shard takes from an accepted header only tensors whose span is     *)
(* what their shape implies.                                               *)
LEMMA TensorsAccepted ==
  ASSUME NEW f \in Files, HeaderOk(f), NEW i \in Nat \ {0}
  PROVE  Tensors(f, i) \in Seq(Accepted)
<1> DEFINE es == f.entries
           N == Len(es)
           step(k, p) == IF es[k].name = Metadata THEN p ELSE Append(p, Tensor(f, i, es[k]))
           V == Seq(Accepted)
           g == [x \in (1..N) \X V |-> step(x[1], x[2])]
           Eq(u) == u = [k \in 0..N |-> IF k = 0 THEN <<>> ELSE step(k, u[k - 1])]
           t == CHOOSE u : Eq(u)
<1>1. es \in Seq(Entries) /\ N \in Nat /\ N \in 0..N
  BY DEF Files
<1>2. Tensors(f, i) = t[N]
  BY Zenon DEF Tensors
<1>3. ASSUME NEW k \in 1..N, es[k].name # Metadata PROVE Tensor(f, i, es[k]) \in Accepted
  <2> DEFINE e == es[k]
             x == Tensor(f, i, e)
  <2>1. e \in [name : Names, dtype : STRING, shape : Seq(Nat), o0 : Nat, o1 : Nat]
    <3>1. e \in Entries
      BY <1>1
    <3> QED BY <1>3, <3>1 DEF Entries
  <2>2. EntryOk(f, e)
    BY DEF HeaderOk
  <2> HIDE DEF e
  <2>3. /\ e.dtype \in Formats
        /\ e.o1 - e.o0 = numel(e) * elemsize(e.dtype)
    BY <1>3, <2>2 DEF EntryOk, Formats, e
  <2>4. numel(e) \in Nat /\ elemsize(e.dtype) \in Nat
    BY <2>1, <2>3, NumelType, ElemSize
  <2>5. f.hlen \in Nat
    BY DEF Files
  <2>6. /\ x.name = e.name /\ x.shard = i /\ x.dtype = e.dtype /\ x.shape = e.shape
        /\ x.off = PREFIX + f.hlen + e.o0 /\ x.nbytes = e.o1 - e.o0
    BY Zenon DEF Tensor
  <2>7. numel(x) = numel(e)
    BY Zenon, <2>6 DEF numel
  <2>8. e.o1 - e.o0 \in Nat
    BY <2>3, <2>4
  <2>9. x \in [name : Names, shard : Nat \ {0}, dtype : Formats, shape : Seq(Nat), off : Nat, nbytes : Nat]
    BY <2>1, <2>3, <2>5, <2>8 DEF Tensor, PREFIX
  <2> HIDE DEF x
  <2>10. x \in Accepted
    BY Zenon, <2>3, <2>6, <2>7, <2>9 DEF Accepted
  <2> QED BY Zenon, <2>10 DEF x, e
<1> HIDE DEF N, es
<1>4. ASSUME NEW k \in 1..N, NEW p \in V PROVE step(k, p) \in V
  BY <1>3, <1>4
<1>5. <<>> \in V
  OBVIOUS
<1> HIDE DEF V, step
<1>6. g \in [(1..N) \X V -> V] /\ \A k \in 1..N, p \in V : g[<<k, p>>] = step(k, p)
  BY <1>4
<1> HIDE DEF g
<1>7. PICK u : Steps(u, N, V, <<>>, g)
  BY Zenon, <1>1, <1>5, <1>6, Recursion
<1>8. Eq(u)
  <2>1. ASSUME NEW k \in 1..N PROVE u[k] = step(k, u[k - 1])
    <3>1. k - 1 \in 0..N
      BY <1>1
    <3>2. u[k - 1] \in V
      BY Zenon, <1>7, <3>1 DEF Steps
    <3> QED BY Zenon, <1>6, <1>7, <3>2 DEF Steps
  <2>2. \A k \in 0..N : k # 0 => k \in 1..N
    BY <1>1
  <2>3. \A k \in 0..N : u[k] = IF k = 0 THEN <<>> ELSE step(k, u[k - 1])
    BY Zenon, <1>7, <2>1, <2>2 DEF Steps
  <2> QED BY Zenon, <1>7, <2>3 DEF Steps
<1>9. Eq(t)
  <2> HIDE DEF Eq
  <2> QED BY Zenon, <1>8
<1>10. t[0] = <<>> /\ \A k \in 1..N : t[k] = step(k, t[k - 1])
  <2> HIDE DEF t
  <2>1. (\A k \in 1..N : k \in 0..N /\ k # 0) /\ 0 \in 0..N
    BY <1>1
  <2> QED BY Zenon, <1>9, <2>1
<1> HIDE DEF t
<1> DEFINE S == {k \in 0..N : t[k] \in V}
<1>11. \A k \in 0..N : k \in S
  <2>1. 0 \in S
    <3>1. 0 \in 0..N
      BY <1>1
    <3> QED BY Zenon, <1>5, <1>10, <3>1
  <2>2. ASSUME NEW k \in 1..N, k - 1 \in S PROVE k \in S
    <3>1. k \in 0..N
      BY <1>1
    <3> QED BY Zenon, <1>4, <1>10, <2>2, <3>1
  <2> HIDE DEF S
  <2> QED BY Zenon, <1>1, <2>1, <2>2, UpTo
<1> QED BY Zenon, <1>1, <1>2, <1>11 DEF V

-----------------------------------------------------------------------------
(* The structure k3_st_open fills.                                         *)

(* What was gathered from the first n shards. *)
Gathered(n) == Range(st.t) = UNION {Range(Tensors(dir[i], i)) : i \in 1..n}

(* The fields of K3St: the descriptors are those of the first shards, the  *)
(* tensors those of their headers; the index of an open checkpoint files   *)
(* all of them.                                                            *)
StInv ==
  /\ dir \in Seq(Files) /\ hash \in [Names -> Nat]
  /\ st = [phase |-> st.phase, t |-> st.t, nb |-> st.nb, bucket |-> st.bucket,
           fd |-> st.fd, dfd |-> st.dfd]
  /\ st.phase \in {"closed", "scan", "open"}
  /\ st.phase = "closed" => st.fd = {} /\ st.dfd = {}
  /\ st.t \in Seq(Accepted)
  /\ \E n \in 0..Len(dir) : /\ st.fd = 1..n /\ st.dfd \subseteq 1..n
                            /\ Gathered(n)
                            /\ st.phase = "open" => n = Len(dir)
  /\ st.phase = "open" => /\ st.nb \in Nat /\ Len(st.t) < st.nb
                          /\ Filed(hash, st.t, st.nb, st.bucket, Len(st.t))

(* Only five steps touch the structure or the descriptors. *)
LEMMA StSteps ==
  ASSUME ShardsNext
  PROVE  \/ StartOpen \/ ScanRefused \/ Index \/ Close
         \/ \E direct \in BOOLEAN : ScanShard(direct)
         \/ UNCHANGED <<dir, hash, st, fds>>
<1>1. ASSUME NEW r, StartRead(r) PROVE UNCHANGED <<dir, hash, st, fds>>
  BY Zenon, <1>1 DEF StartRead
<1>2. ASSUME NEW e, ExpertDirect(e) PROVE UNCHANGED <<dir, hash, st, fds>>
  BY Zenon, <1>1, <1>2 DEF ExpertDirect, ExpertLoad
<1>3. ASSUME NEW t, Read(t) \/ ReadF32(t) PROVE UNCHANGED <<dir, hash, st, fds>>
  BY Zenon, <1>1, <1>3 DEF Read, ReadF32
<1>4. ASSUME NEW n, Pread(n) PROVE UNCHANGED <<dir, hash, st, fds>>
  BY Zenon, <1>4 DEF Pread
<1>5. Dropped \/ PreadNothing => UNCHANGED <<dir, hash, st, fds>>
  BY Zenon DEF Dropped, PreadNothing
<1> QED BY Zenon, <1>2, <1>3, <1>4, <1>5 DEF ShardsNext

(* Nothing is open before the checkpoint is. *)
LEMMA InitStInv ==
  ASSUME ShardsInit, dir \in Seq(Files)
  PROVE  StInv /\ DescriptorsOwned
<1>2. dir \in Seq(Files) /\ Len(dir) \in Nat
  OBVIOUS
<1>3. hash \in [Names -> Nat]
  BY Zenon, ShardsAssumption DEF ShardsInit
<1>4. st = Closed /\ fds = {}
  BY Zenon DEF ShardsInit
<1>5. /\ st.phase = "closed" /\ st.t = <<>> /\ st.fd = {} /\ st.dfd = {}
      /\ st = [phase |-> st.phase, t |-> st.t, nb |-> st.nb, bucket |-> st.bucket,
               fd |-> st.fd, dfd |-> st.dfd]
  BY <1>4 DEF Closed
<1>6. 0 \in 0..Len(dir) /\ 1..0 = {} /\ <<>> \in Seq(Accepted) /\ DOMAIN <<>> = {}
  BY <1>2
<1>7. Gathered(0)
  BY Zenon, <1>5, <1>6 DEF Gathered, Range
<1>8. "closed" # "open"
  OBVIOUS
<1>9. StInv
  BY Zenon, <1>2, <1>3, <1>5, <1>6, <1>7, <1>8 DEF StInv
<1>10. DescriptorsOwned
  BY Zenon, <1>4, <1>5 DEF DescriptorsOwned, Held
<1> QED BY Zenon, <1>9, <1>10

(* k3_st_close leaves the structure empty and closes all it held. *)
LEMMA CloseKeeps ==
  ASSUME StInv, DescriptorsOwned, st_close, UNCHANGED <<dir, hash>>
  PROVE  StInv' /\ DescriptorsOwned'
<1>1. /\ st'.phase = "closed" /\ st'.t = <<>> /\ st'.fd = {} /\ st'.dfd = {}
      /\ st' = [phase |-> st'.phase, t |-> st'.t, nb |-> st'.nb, bucket |-> st'.bucket,
                fd |-> st'.fd, dfd |-> st'.dfd]
  BY DEF st_close, Closed
<1>2. dir' = dir /\ hash' = hash /\ dir \in Seq(Files) /\ hash \in [Names -> Nat]
  BY Zenon DEF StInv
<1>3. 0 \in 0..Len(dir') /\ 1..0 = {} /\ <<>> \in Seq(Accepted) /\ DOMAIN <<>> = {}
  BY <1>2
<1>4. Gathered(0)'
  BY Zenon, <1>1, <1>3 DEF Gathered, Range
<1>5. "closed" # "open"
  OBVIOUS
<1>6. StInv'
  BY Zenon, <1>1, <1>2, <1>3, <1>4, <1>5 DEF StInv
<1>7. Held' = {}
  BY Zenon, <1>1 DEF Held
<1>8. fds' = {}
  BY Zenon DEF st_close, DescriptorsOwned
<1> QED BY Zenon, <1>6, <1>7, <1>8 DEF DescriptorsOwned

(* The values of a sequence put behind another. *)
LEMMA ToSetConcat ==
  ASSUME NEW T, NEW s \in Seq(T), NEW r \in Seq(T)
  PROVE  Range(s \o r) = Range(s) \cup Range(r)
<1>1. ASSUME NEW i \in DOMAIN (s \o r) PROVE (s \o r)[i] \in Range(s) \cup Range(r)
  <2>1. CASE i \in 1..Len(s)
    BY <2>1 DEF Range
  <2>2. CASE i - Len(s) \in 1..Len(r)
    BY <2>2 DEF Range
  <2> QED BY <2>1, <2>2
<1>2. ASSUME NEW i \in 1..Len(s) PROVE s[i] \in Range(s \o r)
  <2>1. i \in DOMAIN (s \o r) /\ (s \o r)[i] = s[i]
    OBVIOUS
  <2> QED BY Zenon, <2>1 DEF Range
<1>3. ASSUME NEW i \in 1..Len(r) PROVE r[i] \in Range(s \o r)
  <2>1. i + Len(s) \in DOMAIN (s \o r) /\ (s \o r)[i + Len(s)] = r[i]
    OBVIOUS
  <2> QED BY Zenon, <2>1 DEF Range
<1>4. DOMAIN s = 1..Len(s) /\ DOMAIN r = 1..Len(r)
  OBVIOUS
<1>5. Range(s \o r) \subseteq Range(s) \cup Range(r)
  BY Zenon, <1>1 DEF Range
<1>6. Range(s) \subseteq Range(s \o r) /\ Range(r) \subseteq Range(s \o r)
  BY Zenon, <1>2, <1>3, <1>4 DEF Range
<1> QED BY Zenon, <1>5, <1>6

(* k3_st_open begins with an empty structure. *)
LEMMA StartOpenKeeps ==
  ASSUME StInv, DescriptorsOwned, StartOpen
  PROVE  StInv' /\ DescriptorsOwned'
<1>1. /\ st'.phase = "scan" /\ st'.t = <<>> /\ st'.fd = {} /\ st'.dfd = {}
      /\ st' = [phase |-> st'.phase, t |-> st'.t, nb |-> st'.nb, bucket |-> st'.bucket,
                fd |-> st'.fd, dfd |-> st'.dfd]
  <2>1. st' = [phase |-> "scan", t |-> <<>>, nb |-> 0, bucket |-> <<>>, fd |-> {}, dfd |-> {}]
    BY Zenon DEF StartOpen, Closed
  <2> QED BY <2>1
<1>2. dir' = dir /\ hash' = hash /\ dir \in Seq(Files) /\ hash \in [Names -> Nat] /\ fds' = fds
  BY Zenon DEF StInv, StartOpen
<1>3. 0 \in 0..Len(dir') /\ 1..0 = {} /\ <<>> \in Seq(Accepted) /\ DOMAIN <<>> = {}
  BY <1>2
<1>4. Gathered(0)'
  BY Zenon, <1>1, <1>3 DEF Gathered, Range
<1>5. "scan" # "open"
  OBVIOUS
<1>6. StInv'
  BY Zenon, <1>1, <1>2, <1>3, <1>4, <1>5 DEF StInv
<1>7. Held' = {}
  BY Zenon, <1>1 DEF Held
<1>8. Held = {}
  <2>1. st.phase = "closed"
    BY Zenon DEF StartOpen
  <2> QED BY Zenon, <2>1 DEF StInv, Held
<1> QED BY Zenon, <1>2, <1>6, <1>7, <1>8 DEF DescriptorsOwned

(* The shard whose turn it is comes behind those that are open. *)
LEMMA TurnIs ==
  ASSUME NEW n \in Nat, st.fd = 1..n
  PROVE  Turn = n + 1
<1>1. 1 \in Int /\ n \in Int
  OBVIOUS
<1>2. Cardinality(1..n) = IF 1 > n THEN 0 ELSE n - 1 + 1
  BY Zenon, <1>1, FS_Interval
<1>3. Cardinality(1..n) = n
  BY <1>2
<1> QED BY Zenon, <1>3 DEF Turn

(* scan_shard adds the tensors of one more shard and its descriptors. *)
LEMMA ScanShardKeeps ==
  ASSUME StInv, DescriptorsOwned, NEW direct \in BOOLEAN, ScanShard(direct)
  PROVE  StInv' /\ DescriptorsOwned'
<1>1. PICK n \in 0..Len(dir) : st.fd = 1..n /\ st.dfd \subseteq 1..n /\ Gathered(n)
  BY Zenon DEF StInv
<1>2. dir' = dir /\ hash' = hash /\ dir \in Seq(Files) /\ hash \in [Names -> Nat]
  BY Zenon DEF StInv, ScanShard
<1>3. n \in Nat
  BY <1>2
<1>4. Turn = n + 1
  BY Zenon, <1>1, <1>3, TurnIs
<1> DEFINE new == Tensors(dir[n + 1], n + 1)
<1>5. /\ st.phase = "scan" /\ n + 1 <= Len(dir) /\ HeaderOk(dir[n + 1])
      /\ st' = [st EXCEPT !.t = @ \o new, !.fd = @ \cup {n + 1},
                          !.dfd = IF direct THEN @ \cup {n + 1} ELSE @]
      /\ fds' = fds \cup {<<"fd", n + 1>>} \cup (IF direct THEN {<<"dfd", n + 1>>} ELSE {})
  BY Zenon, <1>4 DEF ScanShard
<1>6. n + 1 \in 0..Len(dir) /\ n + 1 \in Nat \ {0} /\ dir[n + 1] \in Files
  BY <1>2, <1>3, <1>5
<1>7. new \in Seq(Accepted)
  BY Zenon, <1>5, <1>6, TensorsAccepted
<1> HIDE DEF new
<1>8. /\ st'.phase = "scan" /\ st'.t = st.t \o new /\ st'.fd = 1..(n + 1)
      /\ st'.dfd = IF direct THEN st.dfd \cup {n + 1} ELSE st.dfd
      /\ st' = [phase |-> st'.phase, t |-> st'.t, nb |-> st'.nb, bucket |-> st'.bucket,
                fd |-> st'.fd, dfd |-> st'.dfd]
  <2>1. st = [phase |-> st.phase, t |-> st.t, nb |-> st.nb, bucket |-> st.bucket,
              fd |-> st.fd, dfd |-> st.dfd]
    BY Zenon DEF StInv
  <2>2. st' = [phase |-> st.phase, t |-> st.t \o new, nb |-> st.nb, bucket |-> st.bucket,
               fd |-> st.fd \cup {n + 1}, dfd |-> IF direct THEN st.dfd \cup {n + 1} ELSE st.dfd]
    BY Zenon, <1>5, <2>1
  <2>3. 1..(n + 1) = 1..n \cup {n + 1}
    BY <1>3
  <2> QED BY Zenon, <1>1, <1>5, <2>2, <2>3
<1>9. st'.t \in Seq(Accepted) /\ Range(st'.t) = Range(st.t) \cup Range(new)
  <2>1. st.t \in Seq(Accepted)
    BY Zenon DEF StInv
  <2>2. st.t \o new \in Seq(Accepted)
    BY <1>7, <2>1
  <2>3. Range(st.t \o new) = Range(st.t) \cup Range(new)
    BY <1>7, <2>1, ToSetConcat
  <2> QED BY Zenon, <1>8, <2>2, <2>3
<1>10. st'.dfd \subseteq 1..(n + 1)
  BY <1>1, <1>3, <1>8
<1>11. Gathered(n + 1)'
  <2>1. 1..(n + 1) = 1..n \cup {n + 1}
    BY <1>3
  <2> DEFINE T(i) == Range(Tensors(dir[i], i))
  <2>2. Range(st.t) = UNION {T(i) : i \in 1..n} /\ Range(new) = T(n + 1)
    BY Zenon, <1>1 DEF Gathered, new
  <2> HIDE DEF T
  <2> DEFINE Old == UNION {T(i) : i \in 1..n}
             All == UNION {T(i) : i \in 1..n \cup {n + 1}}
  <2>3. All = Old \cup T(n + 1)
    <3>1. ASSUME NEW x \in All PROVE x \in Old \cup T(n + 1)
      <4>1. PICK i \in 1..n \cup {n + 1} : x \in T(i)
        BY Zenon
      <4> QED BY Zenon, <4>1
    <3>2. ASSUME NEW x \in Old \cup T(n + 1) PROVE x \in All
      <4>1. PICK i \in 1..n \cup {n + 1} : x \in T(i)
        BY Zenon
      <4> QED BY Zenon, <4>1
    <3> HIDE DEF Old, All
    <3> QED BY Zenon, <3>1, <3>2
  <2>4. Range(st'.t) = UNION {T(i) : i \in 1..(n + 1)}
    BY Zenon, <1>9, <2>1, <2>2, <2>3
  <2> QED BY Zenon, <1>2, <2>4 DEF Gathered, T
<1>12. "scan" # "open" /\ "scan" # "closed" /\ "scan" \in {"closed", "scan", "open"}
  OBVIOUS
<1>13. StInv'
  BY Zenon, <1>2, <1>6, <1>8, <1>9, <1>10, <1>11, <1>12 DEF StInv
<1>14. st'.fd = st.fd \cup {n + 1}
  BY <1>1, <1>3, <1>8
<1>15. DescriptorsOwned'
  <2>1. CASE direct
    <3>1. st'.dfd = st.dfd \cup {n + 1} /\ fds' = fds \cup {<<"fd", n + 1>>} \cup {<<"dfd", n + 1>>}
      BY Zenon, <1>5, <1>8, <2>1
    <3> QED BY Zenon, <1>14, <3>1 DEF DescriptorsOwned, Held
  <2>2. CASE ~direct
    <3>1. st'.dfd = st.dfd /\ fds' = fds \cup {<<"fd", n + 1>>}
      BY Zenon, <1>5, <1>8, <2>2
    <3> QED BY Zenon, <1>14, <3>1 DEF DescriptorsOwned, Held
  <2> QED BY Zenon, <2>1, <2>2
<1> QED BY Zenon, <1>13, <1>15

(* The index is accepted with all tensors filed, or all is closed. *)
LEMMA IndexKeeps ==
  ASSUME StInv, DescriptorsOwned, Index
  PROVE  StInv' /\ DescriptorsOwned'
<1> DEFINE N == Len(st.t)
           nb == NBuckets(N)
           tab == Table(st.t, nb)
<1>1. dir' = dir /\ hash' = hash /\ dir \in Seq(Files) /\ hash \in [Names -> Nat]
  BY Zenon DEF StInv, Index
<1>2. \/ tab.ok /\ st' = [st EXCEPT !.phase = "open", !.nb = nb, !.bucket = tab.b] /\ fds' = fds
      \/ st_close
  BY Zenon DEF Index
<1>3. CASE st_close
  BY Zenon, <1>1, <1>3, CloseKeeps
<1>4. CASE tab.ok /\ st' = [st EXCEPT !.phase = "open", !.nb = nb, !.bucket = tab.b] /\ fds' = fds
  <2>1. PICK n \in 0..Len(dir) : st.fd = 1..n /\ st.dfd \subseteq 1..n /\ Gathered(n)
    BY Zenon DEF StInv
  <2>2. n = Len(dir)
    <3>1. n \in Nat
      BY <1>1
    <3>2. Turn = n + 1
      BY Zenon, <2>1, <3>1, TurnIs
    <3>3. Turn > Len(dir)
      BY Zenon DEF Index
    <3> QED BY <1>1, <3>1, <3>2, <3>3
  <2>3. st.t \in Seq(Accepted) /\ N \in Nat
    BY DEF StInv
  <2>4. nb \in Nat /\ N < nb
    BY Zenon, <2>3, BucketsEnough
  <2>5. ASSUME NEW k \in 1..N PROVE hash[st.t[k].name] \in Nat
    <3>1. st.t[k] \in Accepted
      BY <2>3
    <3>2. st.t[k].name \in Names
      BY <3>1 DEF Accepted
    <3> QED BY <1>1, <3>2
  <2> HIDE DEF nb
  <2>6. Filed(hash, st.t, nb, tab.b, N)
    BY Zenon, <1>4, <2>3, <2>4, <2>5, TableFiles
  <2> HIDE DEF tab
  <2>7. /\ st'.phase = "open" /\ st'.t = st.t /\ st'.fd = st.fd /\ st'.dfd = st.dfd
        /\ st'.nb = nb /\ st'.bucket = tab.b
        /\ st' = [phase |-> st'.phase, t |-> st'.t, nb |-> st'.nb, bucket |-> st'.bucket,
                  fd |-> st'.fd, dfd |-> st'.dfd]
    <3>1. st = [phase |-> st.phase, t |-> st.t, nb |-> st.nb, bucket |-> st.bucket,
                fd |-> st.fd, dfd |-> st.dfd]
      BY Zenon DEF StInv
    <3>2. st' = [phase |-> "open", t |-> st.t, nb |-> nb, bucket |-> tab.b, fd |-> st.fd, dfd |-> st.dfd]
      BY Zenon, <1>4, <3>1
    <3> QED BY <3>2
  <2>8. Filed(hash', st'.t, st'.nb, st'.bucket, Len(st'.t))
    BY Zenon, <1>1, <2>6, <2>7
  <2>9. Gathered(n)'
    BY Zenon, <1>1, <2>1, <2>7 DEF Gathered
  <2>10. "open" \in {"closed", "scan", "open"} /\ "open" # "closed"
    OBVIOUS
  <2>11. StInv'
    BY Zenon, <1>1, <2>1, <2>2, <2>3, <2>4, <2>7, <2>8, <2>9, <2>10 DEF StInv
  <2>12. DescriptorsOwned'
    BY Zenon, <1>4, <2>7 DEF DescriptorsOwned, Held
  <2> QED BY Zenon, <2>11, <2>12
<1> QED BY Zenon, <1>2, <1>3, <1>4

(* Every step keeps the structure and its descriptors in order. *)
LEMMA NextStInv ==
  ASSUME StInv, DescriptorsOwned, ShardsNext \/ Close \/ UNCHANGED shardVars
  PROVE  StInv' /\ DescriptorsOwned'
<1>1. CASE UNCHANGED <<dir, hash, st, fds>>
  <2>1. \A n : Gathered(n)' <=> Gathered(n)
    BY Zenon, <1>1 DEF Gathered
  <2>2. StInv'
    BY Zenon, <1>1, <2>1 DEF StInv
  <2> QED BY Zenon, <1>1, <2>2 DEF DescriptorsOwned, Held
<1>2. UNCHANGED shardVars => UNCHANGED <<dir, hash, st, fds>>
  BY Zenon DEF shardVars
<1>3. CASE ScanRefused \/ Close
  <2>1. st_close /\ UNCHANGED <<dir, hash>>
    BY Zenon, <1>3 DEF ScanRefused, Close
  <2> QED BY Zenon, <2>1, CloseKeeps
<1> QED BY Zenon, <1>1, <1>2, <1>3, StSteps, StartOpenKeeps, ScanShardKeeps, IndexKeeps

(* In an open checkpoint k3_st_find returns the tensor of that name, the   *)
(* only one, or none if no header has it.                                  *)
LEMMA FindIs ==
  ASSUME StInv, st.phase = "open", NEW n \in Names
  PROVE  \/ st_find(n) = None /\ \A k \in 1..Len(st.t) : st.t[k].name # n
         \/ \E k \in 1..Len(st.t) : /\ st_find(n) = st.t[k] /\ st.t[k].name = n
                                    /\ \A m \in 1..Len(st.t) : st.t[m].name = n => m = k
<1> DEFINE N == Len(st.t)
           j == Probe(st.bucket, st.t, st.nb, n)
<1>1. /\ st.nb \in Nat /\ N < st.nb /\ Filed(hash, st.t, st.nb, st.bucket, N)
      /\ st.t \in Seq(Accepted) /\ hash \in [Names -> Nat]
  BY Zenon DEF StInv
<1>2. N \in Nat /\ st.nb \in Nat \ {0} /\ hash[n] \in Nat
  BY <1>1
<1>3. st_find(n) = IF st.bucket[j] = 0 THEN None ELSE st.t[st.bucket[j]]
  BY Zenon DEF st_find
<1>4. /\ st.bucket[j] = 0 => \A k \in 1..N : st.t[k].name # n
      /\ st.bucket[j] # 0 => st.bucket[j] \in 1..N /\ st.t[st.bucket[j]].name = n
  <2>1. Found(st.t, st.nb, st.bucket, N, n, j)
    BY Zenon, <1>1, <1>2, WalkFinds
  <2> QED BY Zenon, <2>1 DEF Found
<1> HIDE DEF j
<1>5. \A k, m \in 1..N : st.t[k].name = st.t[m].name => k = m
  BY Zenon, <1>1 DEF Filed
<1>6. CASE st.bucket[j] = 0
  BY Zenon, <1>3, <1>4, <1>6
<1>7. CASE st.bucket[j] # 0
  <2> DEFINE k == st.bucket[j]
  <2>1. k \in 1..N /\ st_find(n) = st.t[k] /\ st.t[k].name = n
    BY Zenon, <1>3, <1>4, <1>7
  <2>2. \A m \in 1..N : st.t[m].name = n => m = k
    BY Zenon, <1>5, <2>1
  <2> HIDE DEF k
  <2> QED BY Zenon, <2>1, <2>2
<1> QED BY Zenon, <1>6, <1>7

(* FindExact: the tensors of the index are those of the headers. *)
LEMMA FindsAll ==
  ASSUME StInv
  PROVE  FindExact
<1> SUFFICES ASSUME StInv, st.phase = "open", NEW n \in Names
             PROVE  LET named == {t \in UNION {Range(Tensors(dir[i], i)) : i \in 1..Len(dir)} : t.name = n}
                    IN  {st_find(n)} = IF named = {} THEN {None} ELSE named
  BY Zenon DEF FindExact
<1> DEFINE all == UNION {Range(Tensors(dir[i], i)) : i \in 1..Len(dir)}
           named == {t \in all : t.name = n}
<1>1. all = Range(st.t)
  BY Zenon DEF StInv, Gathered
<1> HIDE DEF all
<1>2. st.t \in Seq(Accepted)
  BY Zenon DEF StInv
<1>3. DOMAIN st.t = 1..Len(st.t)
  BY <1>2
<1>4. all = {st.t[k] : k \in 1..Len(st.t)}
  BY Zenon, <1>1, <1>3 DEF Range
<1>5. CASE st_find(n) = None /\ \A k \in 1..Len(st.t) : st.t[k].name # n
  <2>1. named = {}
    BY Zenon, <1>4, <1>5
  <2> HIDE DEF named
  <2>2. {st_find(n)} = IF named = {} THEN {None} ELSE named
    BY Zenon, <1>5, <2>1
  <2> QED BY Zenon, <2>2 DEF named, all
<1>6. CASE \E k \in 1..Len(st.t) : /\ st_find(n) = st.t[k] /\ st.t[k].name = n
                                   /\ \A m \in 1..Len(st.t) : st.t[m].name = n => m = k
  <2>1. PICK k \in 1..Len(st.t) : /\ st_find(n) = st.t[k] /\ st.t[k].name = n
                                  /\ \A m \in 1..Len(st.t) : st.t[m].name = n => m = k
    BY Zenon, <1>6
  <2>2. st.t[k] \in named
    BY Zenon, <1>4, <2>1
  <2>3. \A t \in named : t = st.t[k]
    BY Zenon, <1>4, <2>1
  <2>4. named = {st.t[k]} /\ named # {}
    BY Zenon, <2>2, <2>3
  <2> HIDE DEF named
  <2>5. {st_find(n)} = IF named = {} THEN {None} ELSE named
    BY Zenon, <2>1, <2>4
  <2> QED BY Zenon, <2>5 DEF named, all
<1>7. {st_find(n)} = IF named = {} THEN {None} ELSE named
  BY Zenon, <1>5, <1>6, FindIs DEF all
<1> QED BY Zenon, <1>7 DEF all

-----------------------------------------------------------------------------
(* The read loops.                                                         *)

(* A read in progress, or the last one. *)
Rd(kind, what, segs, pad, i, got, total, done, buf) ==
  [kind |-> kind, what |-> what, segs |-> segs, pad |-> pad, i |-> i,
   got |-> got, total |-> total, done |-> done, buf |-> buf]

IsRead(x) == x = Rd(x.kind, x.what, x.segs, x.pad, x.i, x.got, x.total, x.done, x.buf)

(* What is known of an expert's reference: its parts lie in one shard and, *)
(* as a run, end where the run ends, or else follow each other in a packed *)
(* buffer.                                                                 *)
RefOk(r) ==
  /\ r.nbytes \in Nat /\ r.off \in Nat /\ r.shard \in Nat \ {0}
  /\ \A k \in 1..6 : /\ r.part[k].t \in Accepted /\ r.part[k].t.shard = r.shard
                     /\ r.part[k].at \in Nat
  /\ r.contiguous =>
       /\ \A k \in 1..6 : /\ r.part[k].t.off = r.off + r.part[k].at
                          /\ r.part[k].at + r.part[k].t.nbytes <= r.nbytes
       /\ \E k \in 1..6 : r.part[k].at + r.part[k].t.nbytes = r.nbytes
  /\ ~r.contiguous =>
       /\ r.part[1].at = 0 /\ r.nbytes = r.part[6].at + r.part[6].t.nbytes
       /\ \A k \in 1..5 : r.part[k + 1].at = r.part[k].at + r.part[k].t.nbytes
       /\ \A k, m \in 1..6 : k < m => r.part[k].at + r.part[k].t.nbytes <= r.part[m].at

(* Byte p of the buffer was read from position q of the shard. *)
Has(x, p, shard, q) == p \in DOMAIN x.buf /\ x.buf[p] = <<shard, q>>

(* A tensor is read in one piece or chunk by chunk: the segments follow    *)
(* each other in the file and in the buffer ...                            *)
Pieces(x) ==
  /\ Len(x.segs) \in Nat /\ x.what \in Accepted /\ (x.kind = "read" => Len(x.segs) = 1)
  /\ \A k \in 1..Len(x.segs) :
       /\ x.segs[k].at \in Nat /\ x.segs[k].len \in Nat
       /\ x.segs[k].shard = x.what.shard /\ x.segs[k].off = x.what.off + x.segs[k].at
       /\ x.segs[k].at..(x.segs[k].at + x.segs[k].len - 1) \subseteq DOMAIN x.buf
       /\ k # Len(x.segs) => x.segs[k + 1].at = x.segs[k].at + x.segs[k].len
       /\ x.kind = "f32" =>
            /\ x.segs[k].at % elemsize(x.what.dtype) = 0
            /\ (x.segs[k].at + x.segs[k].len) % elemsize(x.what.dtype) = 0

(* ... and what was read is a beginning of the tensor. *)
Begun(x, upto) == \A p \in 0..(upto - 1) : Has(x, p, x.what.shard, x.what.off + p)

Piecewise(x) ==
  /\ Pieces(x) /\ x.done \in BOOLEAN /\ x.total \in Nat /\ x.got \in Nat
  /\ ~x.done => /\ x.i \in 1..Len(x.segs)
                /\ x.got <= x.segs[x.i].len /\ x.total = x.segs[x.i].at
                /\ Begun(x, x.segs[x.i].at + x.got)
  /\ x.done => /\ Begun(x, x.total)
               /\ x.kind = "f32" => x.total % elemsize(x.what.dtype) = 0

(* An expert is read as one run, or as the aligned window around it; what  *)
(* was read are its first n bytes.                                         *)
Run(x) ==
  LET r == x.what
      s == x.segs[1]
  IN  /\ RefOk(r) /\ r.contiguous /\ x.pad \in Nat /\ Len(x.segs) = 1 /\ x.i = 1
      /\ s.shard = r.shard /\ s.at = 0 /\ s.len \in Nat /\ s.off + x.pad = r.off
      /\ s.off \in Int /\ x.pad + r.nbytes <= s.len
      /\ x.kind = "expert" => x.pad = 0 /\ s.len = r.nbytes
      /\ DOMAIN x.buf = 0..(s.len - 1)

RunRead(x, n) ==
  /\ n \in 0..x.segs[1].len
  /\ \A p \in 0..(x.segs[1].len - 1) :
       x.buf[p] = IF p < n THEN <<x.what.shard, x.segs[1].off + p>> ELSE Stale

AsRun(x) ==
  /\ Run(x) /\ x.done \in BOOLEAN
  /\ ~x.done => x.total = 0 /\ RunRead(x, x.got)
  /\ x.done => RunRead(x, x.total)

(* An expert is read part by part, each behind the one before. *)
PartRead(x, k) ==
  LET part == x.what.part[k]
  IN  \A b \in 0..(part.t.nbytes - 1) : Has(x, part.at + b, part.t.shard, part.t.off + b)

Parts(x) ==
  /\ RefOk(x.what) /\ ~x.what.contiguous /\ x.pad = 0 /\ x.kind = "expert"
  /\ DOMAIN x.buf \subseteq Int
  /\ x.segs = [k \in 1..6 |-> Seg(x.what.part[k].t, x.what.part[k].at)]
  /\ \A k \in 1..6 : x.what.part[k].at..(x.what.part[k].at + x.what.part[k].t.nbytes - 1)
                         \subseteq DOMAIN x.buf

PartsBefore(x, total, i) ==
  /\ total \in Nat /\ total <= x.what.part[i].at
  /\ total = x.what.part[i].at <=> \A k \in 1..(i - 1) : PartRead(x, k)

PartBegun(x, got, i) ==
  LET s == x.what.part[i]
  IN  /\ got \in Nat /\ got <= s.t.nbytes
      /\ \A b \in 0..(got - 1) : Has(x, s.at + b, s.t.shard, s.t.off + b)
      /\ \A p \in DOMAIN x.buf : p >= s.at + got => x.buf[p] = Stale

InParts(x) ==
  /\ Parts(x) /\ x.done \in BOOLEAN /\ x.i \in 1..6
  /\ ~x.done => PartsBefore(x, x.total, x.i) /\ PartBegun(x, x.got, x.i)
  /\ x.done => (x.total = x.what.nbytes <=> \A k \in 1..6 : PartRead(x, k))

ReadInv(x) ==
  \/ x = Idle
  \/ /\ IsRead(x)
     /\ \/ x.kind \in {"read", "f32"} /\ x.pad = 0 /\ Piecewise(x)
        \/ x.kind \in {"expert", "direct"} /\ AsRun(x)
        \/ InParts(x)

(* Read y is read x but for how far it came. *)
After(x, y, buf, total, got, i, done) ==
  /\ IsRead(y)
  /\ y.kind = x.kind /\ y.what = x.what /\ y.segs = x.segs /\ y.pad = x.pad
  /\ y.buf = buf /\ y.total = total /\ y.got = got /\ y.i = i /\ y.done = done

(* The end of a segment, of the last one ... *)
LEMMA OverLast ==
  ASSUME NEW x, IsRead(x), NEW got, NEW stop \in BOOLEAN, stop \/ x.i = Len(x.segs)
  PROVE  After(x, SegmentOver(x, got, stop), x.buf, x.total + got, 0, x.i, TRUE)
<1> DEFINE y == SegmentOver(x, got, stop)
<1>1. y = [x EXCEPT !.total = @ + got, !.got = 0, !.done = TRUE]
  BY Zenon DEF SegmentOver
<1>2. y = Rd(x.kind, x.what, x.segs, x.pad, x.i, 0, x.total + got, TRUE, x.buf)
  BY Zenon, <1>1 DEF IsRead, Rd
<1> HIDE DEF y
<1>3. /\ y.kind = x.kind /\ y.what = x.what /\ y.segs = x.segs /\ y.pad = x.pad
      /\ y.buf = x.buf /\ y.total = x.total + got /\ y.got = 0 /\ y.done = TRUE /\ y.i = x.i
  BY Zenon, <1>2 DEF Rd
<1>4. IsRead(y)
  BY Zenon, <1>2, <1>3 DEF IsRead
<1> QED BY Zenon, <1>3, <1>4 DEF y, After

(* ... or of one before it. *)
LEMMA OverNext ==
  ASSUME NEW x, IsRead(x), NEW got, NEW stop \in BOOLEAN, ~stop, x.i # Len(x.segs)
  PROVE  After(x, SegmentOver(x, got, stop), x.buf, x.total + got, 0, x.i + 1, x.done)
<1> DEFINE y == SegmentOver(x, got, stop)
<1>1. y = [x EXCEPT !.total = @ + got, !.got = 0, !.i = @ + 1]
  BY Zenon DEF SegmentOver
<1>2. y = Rd(x.kind, x.what, x.segs, x.pad, x.i + 1, 0, x.total + got, x.done, x.buf)
  BY Zenon, <1>1 DEF IsRead, Rd
<1> HIDE DEF y
<1>3. /\ y.kind = x.kind /\ y.what = x.what /\ y.segs = x.segs /\ y.pad = x.pad
      /\ y.buf = x.buf /\ y.total = x.total + got /\ y.got = 0 /\ y.done = x.done /\ y.i = x.i + 1
  BY Zenon, <1>2 DEF Rd
<1>4. IsRead(y)
  BY Zenon, <1>2, <1>3 DEF IsRead
<1> QED BY Zenon, <1>3, <1>4 DEF y, After

(* Read y is read x after a pread of n bytes ... *)
AfterPread(x, y, n) ==
  LET s == x.segs[x.i]
  IN  /\ ~x.done /\ n <= s.len - x.got
      /\ \/ /\ x.got + n = s.len /\ x.i = Len(x.segs)
            /\ After(x, y, Filled(x, n), x.total + s.len, 0, x.i, TRUE)
         \/ /\ x.got + n = s.len /\ x.i # Len(x.segs)
            /\ After(x, y, Filled(x, n), x.total + s.len, 0, x.i + 1, FALSE)
         \/ /\ x.got + n # s.len
            /\ After(x, y, Filled(x, n), x.total, x.got + n, x.i, FALSE)

(* ... or after one that returned nothing. *)
AfterNothing(x, y) ==
  /\ ~x.done
  /\ \/ x.kind = "f32" /\ After(x, y, x.buf, x.total + 0, 0, x.i, TRUE)
     \/ /\ x.kind # "f32" /\ x.i = Len(x.segs)
        /\ After(x, y, x.buf, x.total + x.got, 0, x.i, TRUE)
     \/ /\ x.kind # "f32" /\ x.i # Len(x.segs)
        /\ After(x, y, x.buf, x.total + x.got, 0, x.i + 1, FALSE)

(* What one pread does. *)
LEMMA PreadIs ==
  ASSUME IsRead(io), io.done \in BOOLEAN, NEW n, Pread(n)
  PROVE  AfterPread(io, io', n)
<1> DEFINE buf == Filled(io, n)
           s == io.segs[io.i]
           x == [io EXCEPT !.buf = buf]
<1>1. ~io.done /\ n <= s.len - io.got
  BY Zenon DEF Pread, Reading, Segment
<1>2. io' = IF io.got + n = s.len THEN SegmentOver(x, s.len, FALSE) ELSE [x EXCEPT !.got = @ + n]
  BY Zenon DEF Pread, Segment
<1> HIDE DEF buf, s
<1>3. x = Rd(io.kind, io.what, io.segs, io.pad, io.i, io.got, io.total, io.done, buf)
  <2>1. ASSUME NEW r, IsRead(r), NEW new
        PROVE  [r EXCEPT !.buf = new]
                 = Rd(r.kind, r.what, r.segs, r.pad, r.i, r.got, r.total, r.done, new)
    BY <2>1 DEF IsRead, Rd
  <2> QED BY Zenon, <2>1
<1> HIDE DEF x
<1>4. After(io, x, buf, io.total, io.got, io.i, io.done)
  <2>1. /\ x.kind = io.kind /\ x.what = io.what /\ x.segs = io.segs /\ x.pad = io.pad /\ x.i = io.i
        /\ x.got = io.got /\ x.total = io.total /\ x.done = io.done /\ x.buf = buf
    BY Zenon, <1>3 DEF Rd
  <2> QED BY Zenon, <1>3, <2>1 DEF After, IsRead
<1>5. IsRead(x) /\ FALSE \in BOOLEAN
  BY Zenon, <1>4 DEF After
<1>6. CASE io.got + n = s.len /\ io.i = Len(io.segs)
  <2>0. io' = SegmentOver(x, s.len, FALSE) /\ x.i = Len(x.segs)
    BY Zenon, <1>2, <1>4, <1>6 DEF After
  <2>1. After(x, SegmentOver(x, s.len, FALSE), x.buf, x.total + s.len, 0, x.i, TRUE)
    BY Zenon, <1>5, <2>0, OverLast
  <2>2. After(io, io', buf, io.total + s.len, 0, io.i, TRUE)
    BY Zenon, <1>4, <2>0, <2>1 DEF After
  <2> QED BY Zenon, <1>1, <1>6, <2>2 DEF s, buf, AfterPread
<1>7. CASE io.got + n = s.len /\ io.i # Len(io.segs)
  <2>0. io' = SegmentOver(x, s.len, FALSE) /\ x.i # Len(x.segs)
    BY Zenon, <1>2, <1>4, <1>7 DEF After
  <2>1. After(x, SegmentOver(x, s.len, FALSE), x.buf, x.total + s.len, 0, x.i + 1, x.done)
    BY Zenon, <1>5, <2>0, OverNext
  <2>2. After(io, io', buf, io.total + s.len, 0, io.i + 1, FALSE)
    BY Zenon, <1>1, <1>4, <2>0, <2>1 DEF After
  <2> QED BY Zenon, <1>1, <1>7, <2>2 DEF s, buf, AfterPread
<1>8. CASE io.got + n # s.len
  <2>1. io' = Rd(io.kind, io.what, io.segs, io.pad, io.i, io.got + n, io.total, io.done, buf)
    BY Zenon, <1>2, <1>3, <1>8 DEF Rd
  <2>2. PICK y : y = io'
    BY Zenon
  <2>3. /\ y.kind = io.kind /\ y.what = io.what /\ y.segs = io.segs /\ y.pad = io.pad /\ y.i = io.i
        /\ y.got = io.got + n /\ y.total = io.total /\ y.done = io.done /\ y.buf = buf
    BY Zenon, <2>1, <2>2 DEF Rd
  <2>4. After(io, y, buf, io.total, io.got + n, io.i, FALSE)
    BY Zenon, <1>1, <2>1, <2>2, <2>3 DEF After, IsRead
  <2> QED BY Zenon, <1>1, <1>8, <2>2, <2>4 DEF s, buf, AfterPread
<1> QED BY Zenon, <1>6, <1>7, <1>8

(* What a pread that returns nothing does. *)
LEMMA PreadNothingIs ==
  ASSUME IsRead(io), io.done \in BOOLEAN, PreadNothing
  PROVE  AfterNothing(io, io')
<1>1. ~io.done /\ io' = IF io.kind = "f32" THEN SegmentOver(io, 0, TRUE)
                        ELSE SegmentOver(io, io.got, FALSE)
  BY Zenon DEF PreadNothing, Reading
<1>2. TRUE \in BOOLEAN /\ FALSE \in BOOLEAN /\ io.done = FALSE
  BY Zenon, <1>1
<1>3. CASE io.kind = "f32"
  <2>1. After(io, SegmentOver(io, 0, TRUE), io.buf, io.total + 0, 0, io.i, TRUE)
    BY Zenon, <1>2, OverLast
  <2> QED BY Zenon, <1>1, <1>3, <2>1 DEF AfterNothing
<1>4. CASE io.kind # "f32" /\ io.i = Len(io.segs)
  <2>1. After(io, SegmentOver(io, io.got, FALSE), io.buf, io.total + io.got, 0, io.i, TRUE)
    BY Zenon, <1>2, <1>4, OverLast
  <2> QED BY Zenon, <1>1, <1>4, <2>1 DEF AfterNothing
<1>5. CASE io.kind # "f32" /\ io.i # Len(io.segs)
  <2>1. After(io, SegmentOver(io, io.got, FALSE), io.buf, io.total + io.got, 0, io.i + 1, io.done)
    BY Zenon, <1>2, <1>5, OverNext
  <2> QED BY Zenon, <1>1, <1>2, <1>5, <2>1 DEF AfterNothing
<1> QED BY Zenon, <1>1, <1>3, <1>4, <1>5

(* A pread puts the bytes of the segment behind those that are there. *)
LEMMA FilledIs ==
  ASSUME NEW x, NEW n \in Nat, NEW p \in DOMAIN x.buf
  PROVE  /\ DOMAIN Filled(x, n) = DOMAIN x.buf
         /\ Filled(x, n)[p] = IF p \in (x.segs[x.i].at + x.got)..(x.segs[x.i].at + x.got + n - 1)
                              THEN <<x.segs[x.i].shard, x.segs[x.i].off + p - x.segs[x.i].at>>
                              ELSE x.buf[p]
BY Zenon DEF Filled

(* A piecewise read goes on. *)
LEMMA PiecewisePread ==
  ASSUME NEW x, NEW y, NEW n \in Nat, Piecewise(x), AfterPread(x, y, n)
  PROVE  Piecewise(y)
<1> DEFINE s == x.segs[x.i]
<1>1. /\ y.kind = x.kind /\ y.what = x.what /\ y.segs = x.segs /\ y.buf = Filled(x, n)
      /\ ~x.done /\ n <= s.len - x.got
  BY Zenon DEF AfterPread, After
<1>2. DOMAIN y.buf = DOMAIN x.buf
  BY Zenon, <1>1 DEF Filled
<1>3. Pieces(y)
  <2>1. Pieces(x)
    BY Zenon DEF Piecewise
  <2> QED BY Zenon, <1>1, <1>2, <2>1 DEF Pieces
<1>4. /\ x.i \in 1..Len(x.segs) /\ x.got \in Nat /\ x.got <= s.len /\ x.total = s.at
      /\ Begun(x, s.at + x.got) /\ Len(x.segs) \in Nat
  BY Zenon, <1>1 DEF Piecewise, Pieces
<1>5. /\ s.at \in Nat /\ s.len \in Nat /\ s.shard = x.what.shard /\ s.off = x.what.off + s.at
      /\ s.at..(s.at + s.len - 1) \subseteq DOMAIN x.buf
      /\ x.i # Len(x.segs) => x.segs[x.i + 1].at = s.at + s.len
  BY Zenon, <1>4 DEF Piecewise, Pieces
<1>6. x.what.off \in Nat
  BY DEF Piecewise, Pieces, Accepted
<1> HIDE DEF s
<1>7. Begun(y, s.at + x.got + n)
  <2> SUFFICES ASSUME NEW p \in 0..((s.at + x.got + n) - 1)
               PROVE  Has(y, p, y.what.shard, y.what.off + p)
    BY Zenon DEF Begun
  <2>1. CASE p < s.at + x.got
    <3>1. p \in 0..((s.at + x.got) - 1) /\ p \notin (s.at + x.got)..(s.at + x.got + n - 1)
      BY <1>4, <1>5, <2>1
    <3>2. Has(x, p, x.what.shard, x.what.off + p)
      BY Zenon, <1>4, <3>1 DEF Begun
    <3>3. p \in DOMAIN x.buf /\ x.buf[p] = <<x.what.shard, x.what.off + p>>
      BY Zenon, <3>2 DEF Has
    <3>4. Filled(x, n)[p] = x.buf[p]
      BY Zenon, <3>1, <3>3, FilledIs DEF s
    <3> QED BY Zenon, <1>1, <1>2, <3>3, <3>4 DEF Has
  <2>2. CASE ~(p < s.at + x.got)
    <3>1. p \in (s.at + x.got)..(s.at + x.got + n - 1) /\ p \in s.at..(s.at + s.len - 1)
      <4>1. s.at \in Nat /\ s.len \in Nat /\ x.got \in Nat /\ n <= s.len - x.got
        BY Zenon, <1>1, <1>4, <1>5
      <4> QED BY <2>2, <4>1
    <3>2. p \in DOMAIN x.buf
      BY Zenon, <1>5, <3>1
    <3>3. Filled(x, n)[p] = <<s.shard, s.off + p - s.at>>
      BY Zenon, <3>1, <3>2, FilledIs DEF s
    <3>4. s.off + p - s.at = x.what.off + p
      BY <1>4, <1>5, <1>6
    <3> QED BY Zenon, <1>1, <1>2, <1>5, <3>2, <3>3, <3>4 DEF Has
  <2> QED BY Zenon, <2>1, <2>2
<1>8. CASE x.got + n = s.len /\ x.i = Len(x.segs) /\ After(x, y, Filled(x, n), x.total + s.len, 0, x.i, TRUE)
  <2>1. y.total = s.at + s.len /\ y.got = 0 /\ y.done = TRUE
    BY Zenon, <1>4, <1>8 DEF After
  <2>2. s.at + x.got + n = s.at + s.len /\ s.at + s.len \in Nat
    BY <1>4, <1>5, <1>8
  <2>3. x.kind = "f32" => (s.at + s.len) % elemsize(x.what.dtype) = 0
    BY Zenon, <1>4 DEF Piecewise, Pieces, s
  <2>4. 0 \in Nat
    OBVIOUS
  <2> QED BY Zenon, <1>1, <1>3, <1>7, <2>1, <2>2, <2>3, <2>4 DEF Piecewise
<1>9. CASE x.got + n = s.len /\ x.i # Len(x.segs) /\ After(x, y, Filled(x, n), x.total + s.len, 0, x.i + 1, FALSE)
  <2>1. y.total = s.at + s.len /\ y.got = 0 /\ y.done = FALSE /\ y.i = x.i + 1
    BY Zenon, <1>4, <1>9 DEF After
  <2>2. /\ s.at + x.got + n = s.at + s.len /\ s.at + s.len \in Nat /\ s.at + s.len + 0 = s.at + s.len
        /\ x.i + 1 \in 1..Len(x.segs)
    <3>1. x.got + n = s.len /\ x.i # Len(x.segs)
      BY Zenon, <1>9
    <3>2. x.i \in 1..Len(x.segs) /\ Len(x.segs) \in Nat /\ x.got \in Nat
      BY Zenon, <1>4
    <3>3. x.i + 1 \in 1..Len(x.segs)
      BY <3>1, <3>2
    <3> QED BY <1>5, <3>1, <3>2, <3>3
  <2>3. y.segs[y.i].at = s.at + s.len
    BY Zenon, <1>1, <1>5, <1>9, <2>1
  <2>4. y.segs[y.i].len \in Nat
    BY Zenon, <1>1, <1>3, <2>1, <2>2 DEF Pieces
  <2>5. 0 \in Nat /\ 0 <= y.segs[y.i].len
    BY <2>4
  <2> QED BY Zenon, <1>1, <1>3, <1>7, <2>1, <2>2, <2>3, <2>5 DEF Piecewise
<1>10. CASE x.got + n # s.len /\ After(x, y, Filled(x, n), x.total, x.got + n, x.i, FALSE)
  <2>1. y.total = x.total /\ y.got = x.got + n /\ y.done = FALSE /\ y.i = x.i
    BY Zenon, <1>10 DEF After
  <2>2. s.at + x.got + n = s.at + (x.got + n) /\ x.got + n \in Nat /\ x.got + n <= s.len
    BY <1>1, <1>4, <1>5
  <2>3. y.segs[y.i] = s
    BY Zenon, <1>1, <2>1 DEF s
  <2> QED BY Zenon, <1>1, <1>3, <1>4, <1>5, <1>7, <2>1, <2>2, <2>3 DEF Piecewise
<1> QED BY Zenon, <1>8, <1>9, <1>10 DEF AfterPread, s

(* A piecewise read ends early: a widening drops the chunk it was in. *)
LEMMA PiecewiseNothing ==
  ASSUME NEW x, NEW y, Piecewise(x), AfterNothing(x, y), x.kind \in {"read", "f32"}
  PROVE  Piecewise(y)
<1> DEFINE s == x.segs[x.i]
<1>1. /\ y.kind = x.kind /\ y.what = x.what /\ y.segs = x.segs /\ y.buf = x.buf
      /\ ~x.done
  BY Zenon DEF AfterNothing, After
<1>2. Pieces(y)
  <2>1. Pieces(x)
    BY Zenon DEF Piecewise
  <2> QED BY Zenon, <1>1, <2>1 DEF Pieces
<1>3. x.i \in 1..Len(x.segs) /\ x.got \in Nat /\ x.total = s.at /\ Begun(x, s.at + x.got)
  BY Zenon, <1>1 DEF Piecewise
<1>4. s.at \in Nat /\ (x.kind = "f32" => s.at % elemsize(x.what.dtype) = 0)
  BY Zenon, <1>3 DEF Piecewise, Pieces
<1> HIDE DEF s
<1>5. 0 \in Nat /\ s.at + 0 = s.at /\ s.at + x.got \in Nat
  <2>1. s.at \in Nat /\ x.got \in Nat
    BY Zenon, <1>3, <1>4
  <2> QED BY <2>1
<1>6. Begun(y, s.at + x.got)
  BY Zenon, <1>1, <1>3 DEF Begun, Has
<1>7. Begun(y, s.at)
  <2>1. \A p \in 0..(s.at - 1) : p \in 0..((s.at + x.got) - 1)
    BY <1>3, <1>4
  <2> QED BY Zenon, <1>6, <2>1 DEF Begun
<1>8. CASE x.kind = "f32" /\ After(x, y, x.buf, x.total + 0, 0, x.i, TRUE)
  <2>1. y.total = s.at /\ y.got = 0 /\ y.done = TRUE
    BY Zenon, <1>3, <1>5, <1>8 DEF After
  <2> QED BY Zenon, <1>1, <1>2, <1>4, <1>5, <1>7, <2>1 DEF Piecewise
<1>9. CASE x.kind # "f32" /\ x.i = Len(x.segs) /\ After(x, y, x.buf, x.total + x.got, 0, x.i, TRUE)
  <2>1. y.total = s.at + x.got /\ y.got = 0 /\ y.done = TRUE /\ y.kind # "f32"
    BY Zenon, <1>1, <1>3, <1>9 DEF After
  <2> QED BY Zenon, <1>1, <1>2, <1>5, <1>6, <2>1 DEF Piecewise
<1>10. CASE x.kind # "f32" /\ x.i # Len(x.segs)
  <2>1. x.kind = "read"
    BY Zenon, <1>10
  <2>2. Len(x.segs) = 1
    BY Zenon, <2>1 DEF Piecewise, Pieces
  <2> QED BY <1>3, <1>10, <2>2
<1> QED BY Zenon, <1>8, <1>9, <1>10 DEF AfterNothing

(* The run of an expert, or the window around it, is read further. *)
LEMMA AsRunPread ==
  ASSUME NEW x, NEW y, NEW n \in Nat, AsRun(x), AfterPread(x, y, n)
  PROVE  AsRun(y)
<1> DEFINE s == x.segs[1]
<1>1. /\ y.kind = x.kind /\ y.what = x.what /\ y.segs = x.segs /\ y.buf = Filled(x, n) /\ y.pad = x.pad
      /\ ~x.done /\ n <= x.segs[x.i].len - x.got
  BY Zenon DEF AfterPread, After
<1>2. /\ Len(x.segs) = 1 /\ x.i = 1 /\ s.shard = x.what.shard /\ s.at = 0 /\ s.len \in Nat
      /\ s.off \in Int /\ DOMAIN x.buf = 0..(s.len - 1)
  BY Zenon DEF AsRun, Run
<1>3. x.total = 0 /\ RunRead(x, x.got)
  BY Zenon, <1>1 DEF AsRun
<1>4. x.got \in 0..s.len /\ n <= s.len - x.got
  BY Zenon, <1>1, <1>2, <1>3 DEF RunRead
<1>5. x.segs[x.i] = s /\ x.i = Len(x.segs)
  BY Zenon, <1>2
<1>6. y.i = 1
  BY Zenon, <1>2, <1>5 DEF AfterPread, After
<1>7. DOMAIN y.buf = 0..(s.len - 1)
  BY Zenon, <1>1, <1>2 DEF Filled
<1>8. Run(y)
  BY Zenon, <1>1, <1>6, <1>7 DEF AsRun, Run
<1>9. RunRead(y, x.got + n)
  <2>1. x.got + n \in 0..s.len
    BY <1>2, <1>4
  <2>2. ASSUME NEW p \in 0..(s.len - 1)
        PROVE  y.buf[p] = IF p < x.got + n THEN <<x.what.shard, s.off + p>> ELSE Stale
    <3>1. p \in DOMAIN x.buf
      BY Zenon, <1>2
    <3>2. y.buf[p] = IF p \in (s.at + x.got)..(s.at + x.got + n - 1)
                     THEN <<s.shard, s.off + p - s.at>> ELSE x.buf[p]
      <4>1. Filled(x, n)[p]
              = IF p \in (x.segs[x.i].at + x.got)..(x.segs[x.i].at + x.got + n - 1)
                THEN <<x.segs[x.i].shard, x.segs[x.i].off + p - x.segs[x.i].at>> ELSE x.buf[p]
        BY Zenon, <3>1, FilledIs
      <4> HIDE DEF s
      <4> QED BY Zenon, <1>1, <1>5, <4>1
    <3>3. x.buf[p] = IF p < x.got THEN <<x.what.shard, s.off + p>> ELSE Stale
      BY Zenon, <1>3 DEF RunRead
    <3> HIDE DEF s
    <3>4. /\ p \in (s.at + x.got)..(s.at + x.got + n - 1) <=> ~(p < x.got) /\ p < x.got + n
          /\ s.off + p - s.at = s.off + p
          /\ p < x.got => p < x.got + n
      BY <1>2, <1>4
    <3> QED BY Zenon, <1>2, <3>2, <3>3, <3>4
  <2> QED BY Zenon, <1>1, <2>1, <2>2 DEF RunRead
<1> HIDE DEF s
<1>10. CASE x.got + n = s.len /\ After(x, y, Filled(x, n), x.total + s.len, 0, x.i, TRUE)
  <2>1. y.total = 0 + s.len /\ y.done = TRUE
    BY Zenon, <1>3, <1>10 DEF After
  <2>2. 0 + s.len = s.len
    BY <1>2
  <2>3. y.total = x.got + n
    BY Zenon, <1>10, <2>1, <2>2
  <2> QED BY Zenon, <1>8, <1>9, <2>1, <2>3 DEF AsRun
<1>11. CASE After(x, y, Filled(x, n), x.total, x.got + n, x.i, FALSE)
  <2>1. y.total = 0 /\ y.got = x.got + n /\ y.done = FALSE
    BY Zenon, <1>3, <1>11 DEF After
  <2> QED BY Zenon, <1>8, <1>9, <2>1 DEF AsRun
<1> QED BY Zenon, <1>5, <1>10, <1>11 DEF AfterPread

(* The run of an expert ends early. *)
LEMMA AsRunNothing ==
  ASSUME NEW x, NEW y, AsRun(x), AfterNothing(x, y), x.kind # "f32"
  PROVE  AsRun(y)
<1>1. /\ y.kind = x.kind /\ y.what = x.what /\ y.segs = x.segs /\ y.buf = x.buf /\ y.pad = x.pad
      /\ ~x.done
  BY Zenon DEF AfterNothing, After
<1>2. Len(x.segs) = 1 /\ x.i = 1 /\ x.segs[1].len \in Nat
  BY Zenon DEF AsRun, Run
<1>3. x.total = 0 /\ RunRead(x, x.got)
  BY Zenon, <1>1 DEF AsRun
<1>4. After(x, y, x.buf, x.total + x.got, 0, x.i, TRUE)
  BY Zenon, <1>2 DEF AfterNothing
<1>5. 0 + x.got = x.got
  BY <1>2, <1>3 DEF RunRead
<1>6. y.total = x.got /\ y.done = TRUE /\ y.i = 1
  BY Zenon, <1>2, <1>3, <1>4, <1>5 DEF After
<1>7. Run(y)
  BY Zenon, <1>1, <1>6 DEF AsRun, Run
<1>8. RunRead(y, x.got)
  BY Zenon, <1>1, <1>3 DEF RunRead
<1> QED BY Zenon, <1>6, <1>7, <1>8 DEF AsRun

(* What is known of a part and of its segment. *)
PartOk(x, i) ==
  LET s == x.what.part[i]
  IN  /\ Len(x.segs) = 6
      /\ x.segs[i].at = s.at /\ x.segs[i].len = s.t.nbytes
      /\ x.segs[i].shard = s.t.shard /\ x.segs[i].off = s.t.off
      /\ s.at \in Nat /\ s.t.nbytes \in Nat /\ s.t.off \in Nat /\ s.t.shard \in Nat \ {0}
      /\ s.at..(s.at + s.t.nbytes - 1) \subseteq DOMAIN x.buf

LEMMA PartFacts ==
  ASSUME NEW x, Parts(x), NEW i \in 1..6
  PROVE  PartOk(x, i)
<1> DEFINE s == x.what.part[i]
<1>1. x.segs = [k \in 1..6 |-> Seg(x.what.part[k].t, x.what.part[k].at)]
  BY Zenon DEF Parts
<1>2. Len(x.segs) = 6
  <2>1. DOMAIN x.segs = 1..6 /\ 6 \in Nat
    BY Zenon, <1>1
  <2>2. ASSUME NEW f, f = [k \in 1..6 |-> f[k]] PROVE Len(f) = 6
    BY <2>2
  <2> QED BY Zenon, <1>1, <2>1, <2>2
<1>3. x.segs[i] = Seg(s.t, s.at)
  BY Zenon, <1>1
<1>4. /\ x.segs[i].at = s.at /\ x.segs[i].len = s.t.nbytes
      /\ x.segs[i].shard = s.t.shard /\ x.segs[i].off = s.t.off
  <2>1. ASSUME NEW t, NEW at, NEW g, g = Seg(t, at)
        PROVE  g.at = at /\ g.len = t.nbytes /\ g.shard = t.shard /\ g.off = t.off
    BY <2>1 DEF Seg
  <2> HIDE DEF s
  <2> QED BY ONLY <1>3, <2>1
<1>5. s.t \in Accepted /\ s.at \in Nat
  BY Zenon, <1>1 DEF Parts, RefOk
<1>6. s.t.nbytes \in Nat /\ s.t.off \in Nat /\ s.t.shard \in Nat \ {0}
  BY Zenon, <1>5, AcceptedIs
<1>7. s.at..(s.at + s.t.nbytes - 1) \subseteq DOMAIN x.buf
  BY Zenon, <1>1 DEF Parts
<1> QED BY Zenon, <1>2, <1>4, <1>5, <1>6, <1>7 DEF PartOk

(* A part before one that is being written does not change. *)
LEMMA PartKept ==
  ASSUME NEW x, NEW y, Parts(x), y.what = x.what, NEW i \in 1..6, NEW k \in 1..(i - 1),
         DOMAIN y.buf = DOMAIN x.buf,
         \A p \in DOMAIN x.buf : p < x.what.part[i].at => y.buf[p] = x.buf[p]
  PROVE  PartRead(y, k) <=> PartRead(x, k)
<1> DEFINE part == x.what.part[k]
           s == x.what.part[i]
<1>1. k \in 1..6 /\ k < i
  OBVIOUS
<1>2. part.at + part.t.nbytes <= s.at /\ part.at \in Nat /\ part.t \in Accepted /\ s.at \in Nat
  BY Zenon, <1>1 DEF Parts, RefOk
<1>3. part.t.nbytes \in Nat
  BY Zenon, <1>2, AcceptedIs
<1>4. \A p \in DOMAIN x.buf : p < s.at => y.buf[p] = x.buf[p]
  BY Zenon
<1>5. PartRead(x, k) <=> \A b \in 0..(part.t.nbytes - 1) : Has(x, part.at + b, part.t.shard, part.t.off + b)
  BY Zenon DEF PartRead
<1>6. PartRead(y, k) <=> \A b \in 0..(part.t.nbytes - 1) : Has(y, part.at + b, part.t.shard, part.t.off + b)
  BY Zenon DEF PartRead
<1> HIDE DEF part, s
<1>7. \A b \in 0..(part.t.nbytes - 1) : part.at + b < s.at
  BY <1>2, <1>3
<1>8. ASSUME NEW b \in 0..(part.t.nbytes - 1)
      PROVE  Has(y, part.at + b, part.t.shard, part.t.off + b)
               <=> Has(x, part.at + b, part.t.shard, part.t.off + b)
  BY Zenon, <1>4, <1>7 DEF Has
<1> QED BY Zenon, <1>5, <1>6, <1>8

(* A part ends with got of its bytes: the total is that of all parts up to *)
(* it if and only if all of them were read.                                *)
LEMMA PartEnds ==
  ASSUME NEW x, Parts(x), NEW i \in 1..6, NEW total, NEW got,
         PartsBefore(x, total, i), PartBegun(x, got, i)
  PROVE  LET s == x.what.part[i]
         IN  /\ total + got \in Nat /\ total + got <= s.at + s.t.nbytes
             /\ total + got = s.at + s.t.nbytes <=> \A k \in 1..i : PartRead(x, k)
<1> DEFINE s == x.what.part[i]
<1>1. /\ s.at \in Nat /\ s.t.nbytes \in Nat /\ s.t.off \in Nat /\ s.t.shard \in Nat \ {0}
      /\ s.at..(s.at + s.t.nbytes - 1) \subseteq DOMAIN x.buf
  BY Zenon, PartFacts DEF PartOk
<1>2. /\ total \in Nat /\ total <= s.at
      /\ total = s.at <=> \A k \in 1..(i - 1) : PartRead(x, k)
  BY Zenon DEF PartsBefore
<1>3. /\ got \in Nat /\ got <= s.t.nbytes
      /\ \A b \in 0..(got - 1) : Has(x, s.at + b, s.t.shard, s.t.off + b)
      /\ \A p \in DOMAIN x.buf : p >= s.at + got => x.buf[p] = Stale
  BY Zenon DEF PartBegun
<1>5. PartRead(x, i) <=> \A b \in 0..(s.t.nbytes - 1) : Has(x, s.at + b, s.t.shard, s.t.off + b)
  BY Zenon DEF PartRead
<1> HIDE DEF s
<1>6. PartRead(x, i) <=> got = s.t.nbytes
  <2>1. got = s.t.nbytes => PartRead(x, i)
    BY Zenon, <1>3, <1>5
  <2>2. ASSUME got # s.t.nbytes, PartRead(x, i) PROVE FALSE
    <3> DEFINE b == s.t.nbytes - 1
    <3>1. b \in 0..(s.t.nbytes - 1) /\ s.at + b >= s.at + got
      BY <1>1, <1>3, <2>2
    <3>2. s.at + b \in DOMAIN x.buf /\ x.buf[s.at + b] = <<s.t.shard, s.t.off + b>>
      BY Zenon, <1>5, <2>2, <3>1 DEF Has
    <3>3. x.buf[s.at + b] = Stale
      BY Zenon, <1>3, <3>1, <3>2
    <3> QED BY <1>1, <3>2, <3>3 DEF Stale
  <2> QED BY Zenon, <2>1, <2>2
<1>7. \A k \in 1..i : k \in 1..(i - 1) \/ k = i
  OBVIOUS
<1>8. i \in 1..i /\ \A k \in 1..(i - 1) : k \in 1..i
  OBVIOUS
<1>9. (\A k \in 1..i : PartRead(x, k)) <=> total = s.at /\ got = s.t.nbytes
  BY Zenon, <1>2, <1>6, <1>7, <1>8
<1>10. total + got = s.at + s.t.nbytes <=> total = s.at /\ got = s.t.nbytes
  BY <1>1, <1>2, <1>3
<1>11. total + got \in Nat /\ total + got <= s.at + s.t.nbytes
  BY <1>1, <1>2, <1>3
<1> QED BY Zenon, <1>9, <1>10, <1>11 DEF s


(* A pread goes on with the part it is in. *)
LEMMA PartsFill ==
  ASSUME NEW x, NEW y, NEW n \in Nat, Parts(x), x.i \in 1..6, AfterPread(x, y, n),
         PartsBefore(x, x.total, x.i), PartBegun(x, x.got, x.i)
  PROVE  /\ Parts(y) /\ n <= x.what.part[x.i].t.nbytes - x.got
         /\ PartsBefore(y, x.total, x.i) /\ PartBegun(y, x.got + n, x.i)
<1>1. /\ y.kind = x.kind /\ y.what = x.what /\ y.segs = x.segs /\ y.buf = Filled(x, n) /\ y.pad = x.pad
      /\ n <= x.segs[x.i].len - x.got
  BY ONLY AfterPread(x, y, n), Zenon DEF AfterPread, After
<1> DEFINE i == x.i
           s == x.what.part[i]
<1>2. DOMAIN y.buf = DOMAIN x.buf
  BY Zenon, <1>1 DEF Filled
<1>3. Parts(y)
  BY Zenon, <1>1, <1>2 DEF Parts
<1>4. /\ x.segs[i].at = s.at /\ x.segs[i].len = s.t.nbytes
      /\ x.segs[i].shard = s.t.shard /\ x.segs[i].off = s.t.off
      /\ s.at \in Nat /\ s.t.nbytes \in Nat /\ s.t.off \in Nat
      /\ s.at..(s.at + s.t.nbytes - 1) \subseteq DOMAIN x.buf
  <2>1. PartOk(x, x.i)
    BY Zenon, PartFacts
  <2> QED BY Zenon, <2>1 DEF PartOk
<1>5. /\ x.got \in Nat /\ x.got <= s.t.nbytes
      /\ \A b \in 0..(x.got - 1) : Has(x, s.at + b, s.t.shard, s.t.off + b)
      /\ \A p \in DOMAIN x.buf : p >= s.at + x.got => x.buf[p] = Stale
  BY Zenon DEF PartBegun
<1>6. x.total \in Nat /\ x.total <= s.at /\ (x.total = s.at <=> \A k \in 1..(i - 1) : PartRead(x, k))
  BY Zenon DEF PartsBefore
<1>7. n <= s.t.nbytes - x.got
  BY Zenon, <1>1, <1>4
<1> HIDE DEF s
<1>8. ASSUME NEW p \in DOMAIN x.buf
      PROVE  y.buf[p] = IF p \in (s.at + x.got)..(s.at + x.got + n - 1)
                        THEN <<s.t.shard, s.t.off + p - s.at>> ELSE x.buf[p]
  <2>1. Filled(x, n)[p]
          = IF p \in (x.segs[x.i].at + x.got)..(x.segs[x.i].at + x.got + n - 1)
            THEN <<x.segs[x.i].shard, x.segs[x.i].off + p - x.segs[x.i].at>> ELSE x.buf[p]
    BY Zenon, FilledIs
  <2> QED BY Zenon, <1>1, <1>4, <2>1
<1>9. \A p \in DOMAIN x.buf : p < s.at => y.buf[p] = x.buf[p]
  <2>1. ASSUME NEW p, p < s.at, p \in (s.at + x.got)..(s.at + x.got + n - 1) PROVE FALSE
    BY <1>4, <1>5, <2>1
  <2> QED BY Zenon, <1>8, <2>1
<1>10. PartsBefore(y, x.total, i)
  <2>1. \A k \in 1..(i - 1) : PartRead(y, k) <=> PartRead(x, k)
    BY Zenon, <1>1, <1>2, <1>9, PartKept DEF s
  <2> QED BY Zenon, <1>1, <1>6, <2>1 DEF PartsBefore, s
<1>11. PartBegun(y, x.got + n, i)
  <2>1. x.got + n \in Nat /\ x.got + n <= s.t.nbytes
    BY <1>4, <1>5, <1>7
  <2>2. ASSUME NEW b \in 0..((x.got + n) - 1) PROVE Has(y, s.at + b, s.t.shard, s.t.off + b)
    <3>1. s.at + b \in s.at..(s.at + s.t.nbytes - 1)
      BY <1>4, <2>1
    <3>2. s.at + b \in DOMAIN x.buf
      BY Zenon, <1>4, <3>1
    <3>3. CASE b \in 0..(x.got - 1)
      <4>1. s.at + b \notin (s.at + x.got)..(s.at + x.got + n - 1)
        BY <1>4, <1>5, <3>3
      <4> QED BY Zenon, <1>2, <1>5, <1>8, <3>2, <3>3, <4>1 DEF Has
    <3>4. CASE b \notin 0..(x.got - 1)
      <4>1. /\ s.at + b \in (s.at + x.got)..(s.at + x.got + n - 1)
            /\ s.t.off + (s.at + b) - s.at = s.t.off + b
        BY <1>4, <1>5, <3>4
      <4> QED BY Zenon, <1>2, <1>8, <3>2, <4>1 DEF Has
    <3> QED BY Zenon, <3>3, <3>4
  <2>3. ASSUME NEW p \in DOMAIN x.buf, p >= s.at + (x.got + n) PROVE y.buf[p] = Stale
    <3>1. p \in Int
      BY Zenon DEF Parts
    <3>2. p >= s.at + x.got /\ p \notin (s.at + x.got)..(s.at + x.got + n - 1)
      BY <1>4, <1>5, <2>3, <3>1
    <3> QED BY Zenon, <1>5, <1>8, <3>2
  <2> QED BY Zenon, <1>1, <1>2, <2>1, <2>2, <2>3 DEF PartBegun, s
<1> QED BY Zenon, <1>3, <1>7, <1>10, <1>11 DEF s


(* The parts after a pread: the same part, the next one, or the end. *)
PartsAt(y, i, total, got) ==
  \/ i = 6 /\ y.done = TRUE /\ y.i = 6 /\ y.total = total + got
  \/ i # 6 /\ y.done = FALSE /\ y.i = i + 1 /\ y.total = total + got /\ y.got = 0
  \/ y.done = FALSE /\ y.i = i /\ y.total = total /\ y.got = got

LEMMA PartsGoOn ==
  ASSUME NEW y, Parts(y), NEW i \in 1..6, NEW total, NEW got,
         PartsBefore(y, total, i), PartBegun(y, got, i), PartsAt(y, i, total, got)
  PROVE  InParts(y)
<1> DEFINE s == y.what.part[i]
<1>1. /\ total + got \in Nat /\ total + got <= s.at + s.t.nbytes
      /\ total + got = s.at + s.t.nbytes <=> \A k \in 1..i : PartRead(y, k)
  BY Zenon, PartEnds
<1>2. /\ s.at \in Nat /\ s.t.nbytes \in Nat
  BY Zenon, PartFacts DEF PartOk
<1>3. /\ got \in Nat
      /\ \A p \in DOMAIN y.buf : p >= s.at + got => y.buf[p] = Stale
      /\ got <= s.t.nbytes
  BY Zenon DEF PartBegun
<1>4. RefOk(y.what) /\ ~y.what.contiguous /\ DOMAIN y.buf \subseteq Int
  BY Zenon DEF Parts
<1>5. CASE i = 6 /\ y.done = TRUE /\ y.i = 6 /\ y.total = total + got
  <2>1. y.what.nbytes = s.at + s.t.nbytes
    BY Zenon, <1>4, <1>5 DEF RefOk
  <2>2. y.total = y.what.nbytes <=> \A k \in 1..6 : PartRead(y, k)
    BY Zenon, <1>1, <1>5, <2>1
  <2> QED BY Zenon, <1>5, <2>2 DEF InParts
<1>6. CASE i # 6 /\ y.done = FALSE /\ y.i = i + 1 /\ y.total = total + got /\ y.got = 0
  <2> DEFINE m == i + 1
             z == y.what.part[m]
  <2>1. i \in 1..5 /\ m \in 1..6 /\ m - 1 = i
    BY <1>6
  <2>2. z.at = s.at + s.t.nbytes
    BY Zenon, <1>4, <2>1 DEF RefOk
  <2>3. z.at \in Nat /\ z.t.nbytes \in Nat
    BY Zenon, <2>1, PartFacts DEF PartOk
  <2> HIDE DEF m
  <2>4. PartsBefore(y, total + got, m)
    BY Zenon, <1>1, <2>1, <2>2 DEF PartsBefore
  <2>5. PartBegun(y, 0, m)
    <3> HIDE DEF s, z
    <3>1. 0 \in Nat /\ 0 <= z.t.nbytes /\ 0..(0 - 1) = {}
      BY <2>3
    <3>2. ASSUME NEW p \in DOMAIN y.buf, p >= z.at + 0 PROVE y.buf[p] = Stale
      <4>1. p \in Int
        BY Zenon, <1>4
      <4>2. p >= s.at + got
        BY <1>2, <1>3, <2>2, <3>2, <4>1
      <4> QED BY Zenon, <1>3, <4>2
    <3> QED BY Zenon, <3>1, <3>2 DEF PartBegun, z
  <2> QED BY Zenon, <1>6, <2>1, <2>4, <2>5 DEF InParts, m
<1>7. CASE y.done = FALSE /\ y.i = i /\ y.total = total /\ y.got = got
  BY Zenon, <1>7 DEF InParts
<1> QED BY Zenon, <1>5, <1>6, <1>7 DEF PartsAt

(* The parts of an expert are read on. *)
LEMMA InPartsPread ==
  ASSUME NEW x, NEW y, NEW n \in Nat, InParts(x), AfterPread(x, y, n)
  PROVE  InParts(y)
<1>1. ~x.done /\ Parts(x) /\ x.i \in 1..6
  BY Zenon DEF AfterPread, InParts
<1>2. PartsBefore(x, x.total, x.i) /\ PartBegun(x, x.got, x.i)
  BY Zenon, <1>1 DEF InParts
<1>3. /\ Parts(y) /\ n <= x.what.part[x.i].t.nbytes - x.got
      /\ PartsBefore(y, x.total, x.i) /\ PartBegun(y, x.got + n, x.i)
  BY Zenon, <1>1, <1>2, PartsFill
<1>4. Len(x.segs) = 6
  BY Zenon, <1>1, PartFacts DEF PartOk
<1>5. PartsAt(y, x.i, x.total, x.got + n)
  BY Zenon, <1>4 DEF AfterPread, After, PartsAt
<1> QED BY Zenon, <1>1, <1>3, <1>5, PartsGoOn

(* A part ends early. *)
LEMMA InPartsNothing ==
  ASSUME NEW x, NEW y, InParts(x), AfterNothing(x, y)
  PROVE  InParts(y)
<1>1. ~x.done /\ Parts(x) /\ x.i \in 1..6
  BY Zenon DEF AfterNothing, InParts
<1>2. PartsBefore(x, x.total, x.i) /\ PartBegun(x, x.got, x.i)
  BY Zenon, <1>1 DEF InParts
<1>3. y.kind = x.kind /\ y.what = x.what /\ y.segs = x.segs /\ y.buf = x.buf /\ y.pad = x.pad
  BY ONLY AfterNothing(x, y), Zenon DEF AfterNothing, After
<1>4. Parts(y)
  BY Zenon, <1>1, <1>3 DEF Parts
<1>5. \A k : PartRead(y, k) <=> PartRead(x, k)
  BY Zenon, <1>3 DEF PartRead, Has
<1>6. PartsBefore(y, x.total, x.i)
  BY Zenon, <1>2, <1>3, <1>5 DEF PartsBefore
<1>7. PartBegun(y, x.got, x.i)
  BY Zenon, <1>2, <1>3 DEF PartBegun, Has
<1>8. Len(x.segs) = 6 /\ x.kind = "expert"
  BY Zenon, <1>1, PartFacts DEF PartOk, Parts
<1>9. PartsAt(y, x.i, x.total, x.got)
  <2>1. x.kind # "f32"
    BY <1>8
  <2> QED BY Zenon, <1>8, <2>1 DEF AfterNothing, After, PartsAt
<1> QED BY Zenon, <1>1, <1>4, <1>6, <1>7, <1>9, PartsGoOn


-----------------------------------------------------------------------------
(* Where an expert is.                                                     *)

(* A sequence that is put together element by element is itself. *)
LEMMA VecIs ==
  ASSUME NEW n \in Nat, NEW f, f = [k \in 1..n |-> f[k]]
  PROVE  Vec(f) = f
<1> DEFINE T == {f[k] : k \in 1..n}
<1>1. f \in Seq(T)
  <2>1. f \in [1..n -> T]
    BY Zenon
  <2> HIDE DEF T
  <2> QED BY <2>1
<1> HIDE DEF T
<1>2. f \o <<>> = f
  BY <1>1
<1> QED BY Zenon, <1>2 DEF Vec

(* The sums of the beginnings of a list of n numbers. *)
SumsOf(s, n) ==
  /\ Sums(s)[0] = 0 /\ \A k \in 1..n : Sums(s)[k] = Sums(s)[k - 1] + s[k]
  /\ \A k \in 0..n : Sums(s)[k] \in Nat
  /\ \A k, m \in 0..n : k <= m => Sums(s)[k] <= Sums(s)[m]

LEMMA SumsIs ==
  ASSUME NEW N \in Nat, NEW s \in [1..N -> Nat]
  PROVE  SumsOf(s, N)
<1> DEFINE g == [x \in (1..N) \X Nat |-> x[2] + s[x[1]]]
           Eq(u) == u = [k \in 0..N |-> IF k = 0 THEN 0 ELSE u[k - 1] + s[k]]
           n == CHOOSE u : Eq(u)
<1>1. N \in 0..N /\ Len(s) = N /\ 0 \in Nat
  OBVIOUS
<1>2. g \in [(1..N) \X Nat -> Nat] /\ \A k \in 1..N, p \in Nat : g[<<k, p>>] = p + s[k]
  <2>1. ASSUME NEW x \in (1..N) \X Nat PROVE x[2] + s[x[1]] \in Nat
    <3>1. x[1] \in 1..N /\ x[2] \in Nat
      OBVIOUS
    <3>2. s[x[1]] \in Nat
      BY <3>1
    <3> QED BY <3>1, <3>2
  <2>2. g \in [(1..N) \X Nat -> Nat]
    BY Zenon, <2>1
  <2>3. ASSUME NEW k \in 1..N, NEW p \in Nat PROVE g[<<k, p>>] = p + s[k]
    <3>1. <<k, p>> \in (1..N) \X Nat /\ <<k, p>>[1] = k /\ <<k, p>>[2] = p
      OBVIOUS
    <3> QED BY Zenon, <3>1
  <2> QED BY Zenon, <2>2, <2>3
<1>3. Sums(s) = n
  BY Zenon, <1>1 DEF Sums
<1> HIDE DEF g
<1>4. PICK u : Steps(u, N, Nat, 0, g)
  BY Zenon, <1>1, <1>2, Recursion
<1>5. Eq(u)
  <2>1. ASSUME NEW k \in 1..N PROVE u[k] = u[k - 1] + s[k]
    <3>1. k - 1 \in 0..N
      OBVIOUS
    <3>2. u[k - 1] \in Nat
      BY Zenon, <1>4, <3>1 DEF Steps
    <3> QED BY Zenon, <1>2, <1>4, <3>2 DEF Steps
  <2>2. \A k \in 0..N : k # 0 => k \in 1..N
    OBVIOUS
  <2>3. \A k \in 0..N : u[k] = IF k = 0 THEN 0 ELSE u[k - 1] + s[k]
    BY Zenon, <1>4, <2>1, <2>2 DEF Steps
  <2> QED BY Zenon, <1>4, <2>3 DEF Steps
<1>6. Eq(n)
  <2> HIDE DEF Eq
  <2> QED BY Zenon, <1>5
<1>7. n[0] = 0 /\ \A k \in 1..N : n[k] = n[k - 1] + s[k]
  <2> HIDE DEF n
  <2>1. (\A k \in 1..N : k \in 0..N /\ k # 0) /\ 0 \in 0..N
    OBVIOUS
  <2> QED BY Zenon, <1>6, <2>1
<1> HIDE DEF n
<1> DEFINE S == {k \in 0..N : n[k] \in Nat}
<1>8. \A k \in 0..N : k \in S
  <2>1. 0 \in S
    BY <1>1, <1>7
  <2>2. ASSUME NEW k \in 1..N, k - 1 \in S PROVE k \in S
    <3>1. n[k] = n[k - 1] + s[k] /\ n[k - 1] \in Nat /\ s[k] \in Nat
      BY <1>7, <2>2
    <3> QED BY <3>1
  <2> HIDE DEF S
  <2> QED BY Zenon, <2>1, <2>2, UpTo
<1> DEFINE M == {m \in 0..N : \A k \in 0..m : n[k] <= n[m]}
<1>9. \A m \in 0..N : m \in M
  <2>1. 0 \in M
    BY <1>1, <1>7
  <2>2. ASSUME NEW m \in 1..N, m - 1 \in M PROVE m \in M
    <3>1. n[m] = n[m - 1] + s[m] /\ n[m - 1] \in Nat /\ s[m] \in Nat /\ n[m] \in Nat
      BY <1>7, <1>8
    <3>2. ASSUME NEW k \in 0..m PROVE n[k] <= n[m]
      <4>1. CASE k = m
        BY <3>1, <4>1
      <4>2. CASE k # m
        <5>1. k \in 0..(m - 1) /\ k \in 0..N
          BY <4>2
        <5>2. n[k] <= n[m - 1] /\ n[k] \in Nat
          BY Zenon, <1>8, <2>2, <5>1
        <5> QED BY <3>1, <5>2
      <4> QED BY Zenon, <4>1, <4>2
    <3> QED BY <3>2
  <2> HIDE DEF M
  <2> QED BY Zenon, <2>1, <2>2, UpTo
<1>10. \A k, m \in 0..N : k <= m => k \in 0..m
  OBVIOUS
<1> QED BY Zenon, <1>3, <1>7, <1>8, <1>9, <1>10 DEF SumsOf

(* The least and the greatest of some numbers. *)
LEMMA MinIs ==
  ASSUME NEW S \in SUBSET Nat, S # {}
  PROVE  Min(S) \in S /\ \A y \in S : Min(S) <= y
<1>1. \E x \in S : \A y \in S : x <= y
  BY Zenon, LeastNumber
<1> QED BY Zenon, <1>1 DEF Min

LEMMA MaxIs ==
  ASSUME NEW S \in SUBSET Nat, S # {}, NEW B \in Nat, \A x \in S : x <= B
  PROVE  Max(S) \in S /\ \A y \in S : Max(S) >= y
<1> DEFINE D == {b \in 0..B : B - b \in S}
<1>1. D \in SUBSET Nat
  OBVIOUS
<1>2. \A x \in S : B - x \in D
  <2> SUFFICES ASSUME NEW x \in S PROVE B - x \in D
    OBVIOUS
  <2>1. x \in Nat /\ x <= B
    OBVIOUS
  <2>2. B - x \in 0..B /\ B - (B - x) = x
    BY <2>1
  <2> QED BY Zenon, <2>2
<1>3. PICK b \in D : \A d \in D : b <= d
  <2>1. D # {}
    BY Zenon, <1>2
  <2> QED BY Zenon, <1>1, <2>1, LeastNumber
<1>4. B - b \in S
  OBVIOUS
<1>5. \A y \in S : B - b >= y
  BY <1>1, <1>2, <1>3
<1>6. \E x \in S : \A y \in S : x >= y
  BY Zenon, <1>4, <1>5
<1> QED BY Zenon, <1>6 DEF Max


(* What k3_expert_ref makes of six tensors of one shard. *)
MadeOf(tn, lo, hi, own, con) ==
  [ok |-> TRUE, shard |-> tn[1].shard, off |-> lo, nbytes |-> own[6], contiguous |-> con,
   part |-> [k \in 1..6 |-> [t |-> tn[k], at |-> IF con THEN tn[k].off - lo ELSE own[k - 1]]]]

LEMMA RefMade ==
  ASSUME NEW tn, NEW lo, NEW hi, NEW own, NEW con \in BOOLEAN, con <=> hi - lo = own[6],
         \A k \in 1..6 : tn[k] \in Accepted /\ tn[k].shard = tn[1].shard,
         lo \in Nat, \A k \in 1..6 : lo <= tn[k].off,
         hi \in Nat, \A k \in 1..6 : tn[k].off + tn[k].nbytes <= hi,
         \E k \in 1..6 : tn[k].off + tn[k].nbytes = hi,
         own[0] = 0, \A k \in 1..6 : own[k] = own[k - 1] + tn[k].nbytes,
         \A k \in 0..6 : own[k] \in Nat,
         \A k, m \in 0..6 : k <= m => own[k] <= own[m]
  PROVE  RefOk(MadeOf(tn, lo, hi, own, con))
<1> DEFINE r == MadeOf(tn, lo, hi, own, con)
           at(k) == IF con THEN tn[k].off - lo ELSE own[k - 1]
<1>1. /\ r.shard = tn[1].shard /\ r.off = lo /\ r.nbytes = own[6] /\ r.contiguous = con
      /\ r.part = [k \in 1..6 |-> [t |-> tn[k], at |-> at(k)]]
  BY Zenon DEF MadeOf
<1> HIDE DEF r, at
<1>2. ASSUME NEW k \in 1..6
      PROVE  r.part[k].t = tn[k] /\ r.part[k].at = at(k)
  <2>1. r.part[k] = [t |-> tn[k], at |-> at(k)]
    BY Zenon, <1>1
  <2> QED BY <2>1
<1>3. ASSUME NEW k \in 1..6
      PROVE  /\ tn[k].off \in Nat /\ tn[k].nbytes \in Nat /\ tn[k].shard \in Nat \ {0}
             /\ k - 1 \in 0..6 /\ own[k - 1] \in Nat /\ own[k] = own[k - 1] + tn[k].nbytes
             /\ own[k] \in Nat
  <2>1. tn[k].off \in Nat /\ tn[k].nbytes \in Nat /\ tn[k].shard \in Nat \ {0}
    BY Zenon, AcceptedIs
  <2>2. k - 1 \in 0..6 /\ k \in 0..6
    OBVIOUS
  <2> QED BY Zenon, <2>1, <2>2
<1>4. ASSUME NEW k \in 1..6 PROVE at(k) \in Nat
  <2>1. CASE con
    <3>1. at(k) = tn[k].off - lo /\ lo <= tn[k].off /\ tn[k].off \in Nat
      BY Zenon, <1>3, <2>1 DEF at
    <3> QED BY <3>1
  <2>2. CASE ~con
    BY Zenon, <1>3, <2>2 DEF at
  <2> QED BY Zenon, <2>1, <2>2
<1>5. r.nbytes \in Nat /\ r.off \in Nat /\ r.shard \in Nat \ {0}
  <2>1. 1 \in 1..6 /\ 6 \in 0..6
    OBVIOUS
  <2> QED BY Zenon, <1>1, <1>3, <2>1
<1>6. \A k \in 1..6 : /\ r.part[k].t \in Accepted /\ r.part[k].t.shard = r.shard
                      /\ r.part[k].at \in Nat
  <2> TAKE k \in 1..6
  <2>1. r.part[k].t = tn[k] /\ r.part[k].at = at(k) /\ at(k) \in Nat /\ r.shard = tn[1].shard
    BY Zenon, <1>1, <1>2, <1>4
  <2> QED BY Zenon, <2>1
<1>7. ASSUME con
      PROVE  /\ \A k \in 1..6 : /\ tn[k].off = lo + at(k)
                                /\ at(k) + tn[k].nbytes <= own[6]
             /\ \E k \in 1..6 : at(k) + tn[k].nbytes = own[6]
  <2>1. hi - lo = own[6]
    BY Zenon, <1>7
  <2>2. ASSUME NEW k \in 1..6
        PROVE  tn[k].off = lo + at(k) /\ at(k) + tn[k].nbytes <= own[6]
    <3>1. at(k) = tn[k].off - lo /\ tn[k].off + tn[k].nbytes <= hi
      BY Zenon, <1>7 DEF at
    <3> QED BY <1>3, <2>1, <3>1
  <2>3. PICK k \in 1..6 : tn[k].off + tn[k].nbytes = hi
    BY Zenon
  <2>4. at(k) = tn[k].off - lo
    BY Zenon, <1>7 DEF at
  <2>5. at(k) + tn[k].nbytes = own[6]
    <3>1. tn[k].off \in Nat /\ tn[k].nbytes \in Nat
      BY Zenon, <1>3
    <3> QED BY <2>1, <2>3, <2>4, <3>1
  <2> QED BY Zenon, <2>2, <2>5
<1>8. ASSUME ~con
      PROVE  /\ at(1) = 0 /\ own[6] = at(6) + tn[6].nbytes
             /\ \A k \in 1..5 : at(k + 1) = at(k) + tn[k].nbytes
             /\ \A k, m \in 1..6 : k < m => at(k) + tn[k].nbytes <= at(m)
  <2>1. \A k : at(k) = own[k - 1]
    BY Zenon, <1>8 DEF at
  <2>2. 1 - 1 = 0 /\ 6 \in 1..6
    OBVIOUS
  <2>3. ASSUME NEW k \in 1..5 PROVE at(k + 1) = at(k) + tn[k].nbytes
    <3>1. (k + 1) - 1 = k /\ k \in 1..6
      OBVIOUS
    <3> QED BY Zenon, <1>3, <2>1, <3>1
  <2>4. ASSUME NEW k \in 1..6, NEW m \in 1..6, k < m PROVE at(k) + tn[k].nbytes <= at(m)
    <3>1. k <= m - 1 /\ m - 1 \in 0..6 /\ k \in 0..6
      BY <2>4
    <3>2. own[k] <= own[m - 1]
      BY Zenon, <3>1
    <3> QED BY Zenon, <1>3, <2>1, <3>2
  <2>5. at(1) = 0
    BY Zenon, <2>1, <2>2
  <2>6. own[6] = at(6) + tn[6].nbytes
    BY Zenon, <1>3, <2>1, <2>2
  <2> QED BY Zenon, <2>3, <2>4, <2>5, <2>6
<1>9. r.contiguous =>
        /\ \A k \in 1..6 : /\ r.part[k].t.off = r.off + r.part[k].at
                           /\ r.part[k].at + r.part[k].t.nbytes <= r.nbytes
        /\ \E k \in 1..6 : r.part[k].at + r.part[k].t.nbytes = r.nbytes
  <2> SUFFICES ASSUME con
               PROVE  /\ \A k \in 1..6 : /\ r.part[k].t.off = lo + r.part[k].at
                                         /\ r.part[k].at + r.part[k].t.nbytes <= own[6]
                      /\ \E k \in 1..6 : r.part[k].at + r.part[k].t.nbytes = own[6]
    BY Zenon, <1>1
  <2>1. ASSUME NEW k \in 1..6
        PROVE  /\ r.part[k].t.off = lo + r.part[k].at
               /\ r.part[k].at + r.part[k].t.nbytes <= own[6]
    <3>1. r.part[k].t = tn[k] /\ r.part[k].at = at(k)
      BY Zenon, <1>2
    <3>2. tn[k].off = lo + at(k) /\ at(k) + tn[k].nbytes <= own[6]
      BY Zenon, <1>7
    <3> QED BY Zenon, <3>1, <3>2
  <2>2. PICK k \in 1..6 : at(k) + tn[k].nbytes = own[6]
    BY Zenon, <1>7
  <2>3. r.part[k].at + r.part[k].t.nbytes = own[6]
    BY Zenon, <1>2, <2>2
  <2> QED BY Zenon, <2>1, <2>3
<1>10. ~r.contiguous =>
        /\ r.part[1].at = 0 /\ r.nbytes = r.part[6].at + r.part[6].t.nbytes
        /\ \A k \in 1..5 : r.part[k + 1].at = r.part[k].at + r.part[k].t.nbytes
        /\ \A k, m \in 1..6 : k < m => r.part[k].at + r.part[k].t.nbytes <= r.part[m].at
  <2> SUFFICES ASSUME ~con
               PROVE  /\ r.part[1].at = 0 /\ own[6] = r.part[6].at + r.part[6].t.nbytes
                      /\ \A k \in 1..5 : r.part[k + 1].at = r.part[k].at + r.part[k].t.nbytes
                      /\ \A k, m \in 1..6 : k < m => r.part[k].at + r.part[k].t.nbytes <= r.part[m].at
    BY Zenon, <1>1
  <2>1. 1 \in 1..6 /\ 6 \in 1..6
    OBVIOUS
  <2>2. r.part[1].at = 0
    BY Zenon, <1>2, <1>8, <2>1
  <2>3. own[6] = r.part[6].at + r.part[6].t.nbytes
    BY Zenon, <1>2, <1>8, <2>1
  <2>4. ASSUME NEW k \in 1..5 PROVE r.part[k + 1].at = r.part[k].at + r.part[k].t.nbytes
    <3>1. k \in 1..6 /\ k + 1 \in 1..6
      OBVIOUS
    <3>2. r.part[k].t = tn[k] /\ r.part[k].at = at(k) /\ r.part[k + 1].at = at(k + 1)
      BY Zenon, <1>2, <3>1
    <3> QED BY Zenon, <1>8, <3>2
  <2>5. ASSUME NEW k \in 1..6, NEW m \in 1..6, k < m
        PROVE  r.part[k].at + r.part[k].t.nbytes <= r.part[m].at
    <3>1. r.part[k].t = tn[k] /\ r.part[k].at = at(k) /\ r.part[m].at = at(m)
      BY Zenon, <1>2
    <3>2. at(k) + tn[k].nbytes <= at(m)
      BY Zenon, <1>8, <2>5
    <3> QED BY Zenon, <3>1, <3>2
  <2> QED BY Zenon, <2>2, <2>3, <2>4, <2>5
<1>11. RefOk(r)
  BY Zenon, <1>5, <1>6, <1>9, <1>10 DEF RefOk
<1> QED BY Zenon, <1>11 DEF r


(* k3_expert_ref finds the six tensors of an expert in one shard. *)
LEMMA ExpertRefOk ==
  ASSUME StInv, st.phase = "open", NEW e, \A k \in 1..6 : Part(e, k) \in Names, expert_ref(e).ok
  PROVE  RefOk(expert_ref(e))
<1> DEFINE f == [k \in 1..6 |-> st_find(Part(e, k))]
           Fits(tn) == \A w \in 1..3 : MatOk(tn[2 * w - 1], tn[2 * w], tn[1])
           lo(tn) == Min({tn[k].off : k \in 1..6})
           hi(tn) == Max({tn[k].off + tn[k].nbytes : k \in 1..6})
           len(tn) == [k \in 1..6 |-> tn[k].nbytes]
           con(tn) == Contiguous(hi(tn) - lo(tn), Sums(len(tn))[6])
           Ref(tn) == IF ~Fits(tn) THEN NoRef
                      ELSE MadeOf(tn, lo(tn), hi(tn), Sums(len(tn)), con(tn))
<1>1. expert_ref(e) = Ref(Vec(f))
  BY Zenon DEF expert_ref, MadeOf
<1>2. f = [k \in 1..6 |-> f[k]] /\ 6 \in Nat
  OBVIOUS
<1>3. \A k \in 1..6 : f[k] = st_find(Part(e, k))
  OBVIOUS
<1> HIDE DEF f
<1>4. Vec(f) = f
  BY Zenon, <1>2, VecIs
<1>5. expert_ref(e) = Ref(f)
  <2> HIDE DEF Ref
  <2> QED BY Zenon, <1>1, <1>4
<1>6. Fits(f) /\ expert_ref(e) = MadeOf(f, lo(f), hi(f), Sums(len(f)), con(f))
  <2> HIDE DEF Fits, lo, hi, len, con
  <2>1. ~NoRef.ok
    BY DEF NoRef
  <2> QED BY Zenon, <1>5, <2>1
<1>7. ASSUME NEW k \in 1..6 PROVE f[k] # None /\ f[k].shard = f[1].shard
  <2>1. ASSUME NEW w \in 1..3
        PROVE  /\ f[2 * w - 1] # None /\ f[2 * w - 1].shard = f[1].shard
               /\ f[2 * w] # None /\ f[2 * w].shard = f[1].shard
    BY Zenon, <1>6 DEF MatOk
  <2>2. \E w \in 1..3 : k = 2 * w - 1 \/ k = 2 * w
    <3>1. k \in {2 * 1 - 1, 2 * 1, 2 * 2 - 1, 2 * 2, 2 * 3 - 1, 2 * 3}
      OBVIOUS
    <3>2. 1 \in 1..3 /\ 2 \in 1..3 /\ 3 \in 1..3
      OBVIOUS
    <3> QED BY Zenon, <3>1, <3>2
  <2> QED BY Zenon, <2>1, <2>2
<1>8. ASSUME NEW k \in 1..6 PROVE f[k] \in Accepted
  <2>1. st_find(Part(e, k)) # None
    BY Zenon, <1>3, <1>7
  <2>2. PICK j \in 1..Len(st.t) : st_find(Part(e, k)) = st.t[j]
    BY Zenon, <2>1, FindIs
  <2>3. st.t \in Seq(Accepted)
    BY Zenon DEF StInv
  <2>4. st.t[j] \in Accepted
    BY <2>3
  <2> QED BY Zenon, <1>3, <2>2, <2>4
<1>9. \A k \in 1..6 : f[k].off \in Nat /\ f[k].nbytes \in Nat
  BY Zenon, <1>8, AcceptedIs
<1>10. lo(f) \in Nat /\ \A k \in 1..6 : lo(f) <= f[k].off
  <2> DEFINE S == {f[k].off : k \in 1..6}
  <2>1. 1 \in 1..6
    OBVIOUS
  <2>2. S \in SUBSET Nat /\ S # {} /\ \A k \in 1..6 : f[k].off \in S
    BY Zenon, <1>9, <2>1
  <2>3. lo(f) = Min(S)
    BY Zenon
  <2> HIDE DEF S, lo
  <2>4. lo(f) \in S /\ \A y \in S : lo(f) <= y
    BY <2>2, <2>3, MinIs
  <2> QED BY Zenon, <2>2, <2>4
<1>11. /\ hi(f) \in Nat /\ \A k \in 1..6 : f[k].off + f[k].nbytes <= hi(f)
       /\ \E k \in 1..6 : f[k].off + f[k].nbytes = hi(f)
  <2> DEFINE v(k) == f[k].off + f[k].nbytes
             S == {v(k) : k \in 1..6}
             B == v(1) + v(2) + v(3) + v(4) + v(5) + v(6)
  <2>1. \A k \in 1..6 : v(k) \in Nat
    BY <1>9
  <2>2. hi(f) = Max(S)
    BY Zenon
  <2> HIDE DEF v
  <2>3. B \in Nat /\ \A k \in 1..6 : v(k) <= B
    BY <2>1
  <2>4. 1 \in 1..6
    OBVIOUS
  <2> HIDE DEF B
  <2>5. S \in SUBSET Nat /\ S # {} /\ \A y \in S : y <= B
    BY Zenon, <2>1, <2>3, <2>4
  <2>6. (\A k \in 1..6 : v(k) \in S) /\ \A y \in S : \E k \in 1..6 : v(k) = y
    BY Zenon
  <2> HIDE DEF S, hi
  <2>7. hi(f) \in S /\ \A y \in S : hi(f) >= y
    BY Zenon, <2>2, <2>3, <2>5, MaxIs
  <2>8. PICK j \in 1..6 : v(j) = hi(f)
    BY Zenon, <2>6, <2>7
  <2>9. hi(f) \in Nat
    BY Zenon, <2>1, <2>8
  <2>10. \A k \in 1..6 : v(k) <= hi(f)
    BY <2>1, <2>6, <2>7, <2>9
  <2> QED BY Zenon, <2>8, <2>9, <2>10 DEF v
<1>12. /\ Sums(len(f))[0] = 0 /\ \A k \in 1..6 : Sums(len(f))[k] = Sums(len(f))[k - 1] + f[k].nbytes
       /\ \A k \in 0..6 : Sums(len(f))[k] \in Nat
       /\ \A k, m \in 0..6 : k <= m => Sums(len(f))[k] <= Sums(len(f))[m]
  <2>1. len(f) \in [1..6 -> Nat] /\ \A k \in 1..6 : len(f)[k] = f[k].nbytes
    BY Zenon, <1>9
  <2> HIDE DEF len
  <2>2. SumsOf(len(f), 6)
    BY Zenon, <1>2, <2>1, SumsIs
  <2> QED BY Zenon, <2>1, <2>2 DEF SumsOf
<1>13. con(f) \in BOOLEAN /\ (con(f) <=> hi(f) - lo(f) = Sums(len(f))[6])
  <2> HIDE DEF lo, hi, len
  <2> QED BY ONLY TRUE DEF Contiguous
<1> HIDE DEF lo, hi, len, con
<1>14. RefOk(MadeOf(f, lo(f), hi(f), Sums(len(f)), con(f)))
  BY Zenon, <1>7, <1>8, <1>10, <1>11, <1>12, <1>13, RefMade
<1> QED BY Zenon, <1>6, <1>14


-----------------------------------------------------------------------------
(* A read begins.                                                          *)
Started(y, kind, what, pad, segs) ==
  /\ IsRead(y) /\ y.kind = kind /\ y.what = what /\ y.pad = pad /\ y.segs = segs
  /\ y.i = 1 /\ y.got = 0 /\ y.total = 0 /\ y.done = (segs = <<>>)
  /\ \A k \in DOMAIN segs : segs[k].at..(segs[k].at + segs[k].len - 1) \subseteq DOMAIN y.buf
  /\ \A b \in DOMAIN y.buf : /\ y.buf[b] = Stale
                             /\ \E k \in DOMAIN segs : b \in segs[k].at..(segs[k].at + segs[k].len - 1)

(* What StartRead begins. *)
LEMMA StartIs ==
  ASSUME NEW r, StartRead(r)
  PROVE  Started(io', r.kind, r.what, r.pad, r.segs)
<1> DEFINE area(s) == s.at..(s.at + s.len - 1)
           all == UNION {area(s) : s \in Range(r.segs)}
           buf == [b \in all |-> Stale]
<1>1. io' = Rd(r.kind, r.what, r.segs, r.pad, 1, 0, 0, r.segs = <<>>, buf)
  BY Zenon DEF StartRead, Rd
<1>2. DOMAIN buf = all /\ \A b \in all : buf[b] = Stale
  BY Zenon
<1> HIDE DEF buf
<1>3. ASSUME NEW k \in DOMAIN r.segs PROVE area(r.segs[k]) \subseteq all
  <2>1. r.segs[k] \in Range(r.segs)
    BY Zenon DEF Range
  <2> HIDE DEF area
  <2> QED BY Zenon, <2>1
<1>4. ASSUME NEW b \in all PROVE \E k \in DOMAIN r.segs : b \in area(r.segs[k])
  <2> HIDE DEF area
  <2>1. PICK s \in Range(r.segs) : b \in area(s)
    BY Zenon
  <2>2. PICK k \in DOMAIN r.segs : s = r.segs[k]
    BY Zenon DEF Range
  <2> QED BY Zenon, <2>1, <2>2
<1> HIDE DEF all
<1>5. PICK y : y = io'
  BY Zenon
<1>6. /\ y.kind = r.kind /\ y.what = r.what /\ y.segs = r.segs /\ y.pad = r.pad /\ y.i = 1
      /\ y.got = 0 /\ y.total = 0 /\ y.done = (r.segs = <<>>) /\ y.buf = buf
  BY Zenon, <1>1, <1>5 DEF Rd
<1>7. IsRead(y)
  BY Zenon, <1>1, <1>5, <1>6 DEF IsRead
<1>8. Started(y, r.kind, r.what, r.pad, r.segs)
  BY Zenon, <1>2, <1>3, <1>4, <1>6, <1>7 DEF Started
<1> QED BY Zenon, <1>5, <1>8

(* A read of one segment has one buffer. *)
OneSegment(y, s) ==
  /\ y.done = FALSE /\ Len(y.segs) = 1 /\ y.segs[1] = s /\ DOMAIN y.buf = 0..(s.len - 1)
  /\ \A b \in 0..(s.len - 1) : y.buf[b] = Stale

LEMMA StartOne ==
  ASSUME NEW y, NEW kind, NEW what, NEW pad, NEW s, Started(y, kind, what, pad, <<s>>),
         s.at = 0, s.len \in Nat
  PROVE  OneSegment(y, s)
<1>1. <<s>> # <<>> /\ Len(<<s>>) = 1 /\ <<s>>[1] = s /\ DOMAIN <<s>> = {1}
  OBVIOUS
<1>2. s.at + s.len - 1 = s.len - 1 /\ s.at = 0
  OBVIOUS
<1>3. y.done = FALSE /\ Len(y.segs) = 1 /\ y.segs[1] = s
  BY Zenon, <1>1 DEF Started
<1>4. s.at..(s.at + s.len - 1) \subseteq DOMAIN y.buf
  BY Zenon, <1>1 DEF Started
<1>5. \A b \in DOMAIN y.buf : b \in s.at..(s.at + s.len - 1) /\ y.buf[b] = Stale
  BY Zenon, <1>1 DEF Started
<1>6. 0..(s.len - 1) \subseteq DOMAIN y.buf /\ DOMAIN y.buf \subseteq 0..(s.len - 1)
  BY Zenon, <1>2, <1>4, <1>5
<1>7. DOMAIN y.buf = 0..(s.len - 1)
  BY Zenon, <1>6
<1> QED BY Zenon, <1>3, <1>5, <1>7 DEF OneSegment

(* k3_st_read begins. *)
LEMMA StartsRead ==
  ASSUME NEW y, NEW t \in Accepted, Started(y, "read", t, 0, <<Seg(t, 0)>>)
  PROVE  ReadInv(y)
<1> DEFINE s == Seg(t, 0)
<1>1. s.at = 0 /\ s.len = t.nbytes /\ s.shard = t.shard /\ s.off = t.off
  BY DEF Seg
<1>2. t.nbytes \in Nat /\ t.off \in Nat
  BY Zenon, AcceptedIs
<1> HIDE DEF s
<1>3. /\ y.done = FALSE /\ Len(y.segs) = 1 /\ y.segs[1] = s /\ DOMAIN y.buf = 0..(s.len - 1)
  <2>1. Started(y, "read", t, 0, <<s>>) /\ s.len \in Nat
    BY Zenon, <1>1, <1>2 DEF s
  <2>2. OneSegment(y, s)
    BY Zenon, <1>1, <2>1, StartOne
  <2> QED BY Zenon, <2>2 DEF OneSegment
<1>4. IsRead(y) /\ y.kind = "read" /\ y.what = t /\ y.pad = 0 /\ y.i = 1 /\ y.got = 0 /\ y.total = 0
  BY Zenon DEF Started
<1>5. /\ 1 \in Nat /\ 0 \in Nat /\ 1..1 = {1} /\ "read" # "f32" /\ 0..(0 - 1) = {} /\ 0 + 0 = 0
      /\ 0 <= t.nbytes
  BY <1>2
<1>6. s.off = t.off + s.at /\ s.at..(s.at + s.len - 1) = 0..(s.len - 1)
  BY <1>1, <1>2
<1>7. Pieces(y)
  BY Zenon, <1>1, <1>2, <1>3, <1>4, <1>5, <1>6 DEF Pieces
<1>8. Begun(y, 0)
  BY Zenon, <1>5 DEF Begun
<1>9. Piecewise(y)
  BY Zenon, <1>1, <1>3, <1>4, <1>5, <1>7, <1>8 DEF Piecewise
<1> QED BY Zenon, <1>4, <1>9 DEF ReadInv


(* The run of an expert, or the window around it, begins to be read. *)
LEMMA StartsRun ==
  ASSUME NEW y, NEW kind \in {"expert", "direct"}, NEW r, RefOk(r), r.contiguous,
         NEW pad \in Nat, NEW s, Started(y, kind, r, pad, <<s>>),
         s.shard = r.shard, s.at = 0, s.len \in Nat, s.off \in Int, s.off + pad = r.off,
         pad + r.nbytes <= s.len, kind = "expert" => pad = 0 /\ s.len = r.nbytes
  PROVE  ReadInv(y)
<1>1. /\ y.done = FALSE /\ Len(y.segs) = 1 /\ y.segs[1] = s /\ DOMAIN y.buf = 0..(s.len - 1)
      /\ \A b \in 0..(s.len - 1) : y.buf[b] = Stale
  <2>1. OneSegment(y, s)
    BY Zenon, StartOne
  <2> QED BY Zenon, <2>1 DEF OneSegment
<1>2. IsRead(y) /\ y.kind = kind /\ y.what = r /\ y.pad = pad /\ y.i = 1 /\ y.got = 0 /\ y.total = 0
  BY Zenon DEF Started
<1>3. Run(y)
  BY Zenon, <1>1, <1>2 DEF Run
<1>4. 0 \in 0..s.len /\ \A p \in 0..(s.len - 1) : ~(p < 0)
  OBVIOUS
<1>5. RunRead(y, 0)
  BY Zenon, <1>1, <1>2, <1>4 DEF RunRead
<1>6. AsRun(y)
  BY Zenon, <1>1, <1>2, <1>3, <1>5 DEF AsRun
<1> QED BY Zenon, <1>2, <1>6 DEF ReadInv

(* The six parts of an expert begin to be read. *)
LEMMA StartsParts ==
  ASSUME NEW y, NEW r, RefOk(r), ~r.contiguous,
         Started(y, "expert", r, 0, [k \in 1..6 |-> Seg(r.part[k].t, r.part[k].at)])
  PROVE  ReadInv(y)
<1> DEFINE segs == [k \in 1..6 |-> Seg(r.part[k].t, r.part[k].at)]
<1>1. DOMAIN segs = 1..6 /\ \A k \in 1..6 : segs[k] = Seg(r.part[k].t, r.part[k].at)
  BY Zenon
<1>2. y.segs = segs
  BY Zenon DEF Started
<1> HIDE DEF segs
<1>3. Started(y, "expert", r, 0, segs)
  BY Zenon DEF segs
<1>4. ASSUME NEW k \in 1..6 PROVE segs[k].at = r.part[k].at /\ segs[k].len = r.part[k].t.nbytes
  <2>1. ASSUME NEW t, NEW at, NEW g, g = Seg(t, at) PROVE g.at = at /\ g.len = t.nbytes
    BY <2>1 DEF Seg
  <2> QED BY <1>1, <2>1
<1>5. segs # <<>>
  <2>1. DOMAIN <<>> = {} /\ 1 \in 1..6
    OBVIOUS
  <2> QED BY Zenon, <1>1, <2>1
<1>6. /\ IsRead(y) /\ y.kind = "expert" /\ y.what = r /\ y.pad = 0 /\ y.i = 1 /\ y.got = 0
      /\ y.total = 0 /\ y.done = FALSE
  BY Zenon, <1>3, <1>5 DEF Started
<1>7. \A k \in 1..6 : r.part[k].at..(r.part[k].at + r.part[k].t.nbytes - 1) \subseteq DOMAIN y.buf
  BY Zenon, <1>1, <1>3, <1>4 DEF Started
<1>8. \A b \in DOMAIN y.buf : b \in Int /\ y.buf[b] = Stale
  <2> SUFFICES ASSUME NEW b \in DOMAIN y.buf PROVE b \in Int /\ y.buf[b] = Stale
    BY Zenon
  <2>1. PICK k \in DOMAIN segs : b \in segs[k].at..(segs[k].at + segs[k].len - 1)
    BY Zenon, <1>3 DEF Started
  <2>2. b \in Int
    BY <2>1
  <2> QED BY Zenon, <1>3, <2>2 DEF Started
<1>9. Parts(y)
  <2>1. DOMAIN y.buf \subseteq Int
    BY Zenon, <1>8
  <2> QED BY Zenon, <1>2, <1>6, <1>7, <2>1 DEF Parts, segs
<1>10. 0 \in Nat /\ 0 <= 0 /\ 1 \in 1..6 /\ 1..(1 - 1) = {} /\ 0..(0 - 1) = {}
  OBVIOUS
<1>11. PartsBefore(y, 0, 1)
  BY Zenon, <1>6, <1>10 DEF PartsBefore, RefOk
<1>12. PartBegun(y, 0, 1)
  <2>1. r.part[1].t.nbytes \in Nat
    BY Zenon, <1>10, AcceptedIs DEF RefOk
  <2>2. 0 <= r.part[1].t.nbytes
    BY <2>1
  <2> QED BY Zenon, <1>6, <1>8, <1>10, <2>2 DEF PartBegun
<1>13. InParts(y)
  BY Zenon, <1>6, <1>9, <1>10, <1>11, <1>12 DEF InParts
<1> QED BY Zenon, <1>6, <1>13 DEF ReadInv


(* The segments of a widening: chunks of per bytes, the last one shorter. *)
Chunks(t, per, n) ==
  [k \in 1..n |-> [shard |-> t.shard, off |-> t.off + (k - 1) * per, at |-> (k - 1) * per,
                   len |-> Min({per, t.nbytes - (k - 1) * per})]]

ChunkOk(g, k, per, t, n) ==
  /\ g.at = (k - 1) * per /\ g.at \in Nat /\ g.len \in Nat
  /\ g.shard = t.shard /\ g.off = t.off + g.at
  /\ k # n => g.at + g.len = k * per
  /\ g.at % elemsize(t.dtype) = 0 /\ (g.at + g.len) % elemsize(t.dtype) = 0

LEMMA ChunkIs ==
  ASSUME NEW t \in Accepted, NEW q \in Nat \ {0}, NEW per, per = q * elemsize(t.dtype),
         NEW n, n = (t.nbytes + per - 1) \div per
  PROVE  n \in Nat /\ \A k \in 1..n : ChunkOk(Chunks(t, per, n)[k], k, per, t, n)
<1> DEFINE e == elemsize(t.dtype)
           B == t.nbytes
<1>1. t.dtype \in Formats /\ B \in Nat /\ t.off \in Nat /\ t.shape \in Seq(Nat) /\ B = numel(t) * e
  BY DEF Accepted
<1>2. e \in Nat \ {0}
  <2>1. e \in {1, 2, 4}
    BY Zenon, <1>1, ElemSize
  <2> QED BY <2>1
<1>3. PICK m \in Nat : B = m * e
  BY Zenon, <1>1, NumelType
<1> HIDE DEF e, B
<1>4. per = q * e /\ n = (B + per - 1) \div per
  BY Zenon DEF e, B
<1>5. per \in Nat \ {0}
  BY <1>2, <1>4
<1>6. n \in Nat /\ n * per <= B + per - 1
  <2>1. B + per - 1 \in Nat
    BY <1>1, <1>5
  <2> DEFINE a == B + per - 1
  <2> HIDE DEF a
  <2>2. a \div per \in Nat /\ a % per \in 0..(per - 1) /\ a = (a \div per) * per + (a % per)
    <3>1. a \in Nat
      BY Zenon, <2>1 DEF a
    <3> QED BY Zenon, <1>5, <3>1, ModParts
  <2>3. n = a \div per
    BY Zenon, <1>4 DEF a
  <2>4. n * per + (a % per) = a /\ n \in Nat
    BY Zenon, <2>2, <2>3
  <2>5. n * per \in Nat
    BY <1>5, <2>4
  <2>6. n * per <= a
    BY <2>2, <2>4, <2>5
  <2> QED BY Zenon, <2>4, <2>6 DEF a
<1>7. ASSUME NEW k \in 1..n PROVE ChunkOk(Chunks(t, per, n)[k], k, per, t, n)
  <2> DEFINE at == (k - 1) * per
             len == Min({per, B - at})
             g == Chunks(t, per, n)[k]
  <2>1. g = [shard |-> t.shard, off |-> t.off + at, at |-> at, len |-> len]
    BY Zenon DEF Chunks, B
  <2>2. at \in Nat /\ at + per = k * per
    BY <1>5, <1>6
  <2>3. k * per <= n * per /\ k * per \in Nat /\ n * per \in Nat
    <3>1. k * per \in Nat /\ n * per \in Nat /\ (n - k) * per \in Nat /\ (n - k) * per + k * per = n * per
      BY <1>5, <1>6
    <3> QED BY <3>1
  <2>4. k # n => k * per <= (n * per) - per
    <3> SUFFICES ASSUME k # n PROVE k * per <= (n * per) - per
      OBVIOUS
    <3>1. (n - k - 1) * per \in Nat /\ (n - k - 1) * per + k * per + per = n * per
      BY <1>5, <1>6
    <3> QED BY <1>5, <2>3, <3>1
  <2> HIDE DEF at
  <2>5. B - at \in Nat
    <3> DEFINE kp == k * per
               np == n * per
    <3>1. at \in Nat /\ at + per = kp /\ kp <= np /\ kp \in Nat /\ np \in Nat /\ np <= B + per - 1
      BY Zenon, <1>6, <2>2, <2>3
    <3>2. B \in Nat /\ per \in Nat
      BY Zenon, <1>1, <1>5
    <3> HIDE DEF kp, np
    <3> QED BY ONLY <3>1, <3>2
  <2>6. len \in Nat /\ (len = per \/ (len = B - at /\ B - at < per))
    <3> DEFINE S == {per, B - at}
    <3>1. S \in SUBSET Nat /\ S # {}
      BY <1>5, <2>5
    <3>2. Min(S) \in S /\ \A y \in S : Min(S) <= y
      BY <3>1, MinIs
    <3> QED BY <1>5, <2>5, <3>2
  <2> HIDE DEF len
  <2>7. k # n => at + len = k * per
    <3> DEFINE kp == k * per
               np == n * per
    <3>1. /\ at \in Nat /\ at + per = kp /\ kp \in Nat /\ np \in Nat /\ np <= B + per - 1
          /\ k # n => kp <= np - per
      BY Zenon, <1>6, <2>2, <2>3, <2>4
    <3>2. B \in Nat /\ per \in Nat
      BY Zenon, <1>1, <1>5
    <3>3. k # n => at + len = kp
      <4> HIDE DEF kp, np
      <4> QED BY ONLY <2>6, <3>1, <3>2
    <3> QED BY Zenon, <3>3
  <2>8. /\ 0 \in 0..(e - 1) /\ \A a \in Nat : (a * e) % e = 0
    <3>1. ASSUME NEW a \in Nat PROVE (a * e) % e = 0
      <4>1. (a * e + 0) % e = 0 /\ a * e + 0 = a * e
        BY <1>2, ModIs
      <4> QED BY Zenon, <4>1
    <3> QED BY <1>2, <3>1
  <2>9. at % e = 0
    <3>1. at = ((k - 1) * q) * e /\ (k - 1) * q \in Nat
      BY <1>2, <1>4, <1>6 DEF at
    <3> QED BY Zenon, <2>8, <3>1
  <2>10. (at + len) % e = 0
    <3>1. CASE len = per
      <4>1. at + len = (k * q) * e /\ k * q \in Nat
        BY <1>2, <1>4, <1>6, <2>2, <3>1
      <4> QED BY Zenon, <2>8, <4>1
    <3>2. CASE len = B - at
      <4>1. at + len = B
        BY <1>1, <2>2, <3>2
      <4> QED BY Zenon, <1>3, <2>8, <4>1
    <3> QED BY Zenon, <2>6, <3>1, <3>2
  <2> HIDE DEF g
  <2>11. g.shard = t.shard /\ g.off = t.off + at /\ g.at = at /\ g.len = len
    BY Zenon, <2>1
  <2>12. ChunkOk(g, k, per, t, n)
    BY Zenon, <2>2, <2>6, <2>7, <2>9, <2>10, <2>11 DEF ChunkOk, e, at
  <2> QED BY Zenon, <2>12 DEF g
<1> QED BY Zenon, <1>6, <1>7


(* k3_st_read_f32 begins. *)
LEMMA StartsF32 ==
  ASSUME NEW y, NEW t \in Accepted, NEW q \in Nat \ {0}, NEW per, per = q * elemsize(t.dtype),
         NEW n, n = (t.nbytes + per - 1) \div per, Started(y, "f32", t, 0, Chunks(t, per, n))
  PROVE  ReadInv(y)
<1> DEFINE segs == Chunks(t, per, n)
<1>1. n \in Nat /\ \A k \in 1..n : ChunkOk(segs[k], k, per, t, n)
  BY Zenon, ChunkIs
<1>2. DOMAIN segs = 1..n
  BY Zenon DEF Chunks
<1>3. Len(segs) = n /\ (segs = <<>> <=> n = 0)
  <2>1. segs = [k \in 1..n |-> segs[k]]
    BY Zenon, <1>2 DEF Chunks
  <2> HIDE DEF segs
  <2>2. Len(segs) = n
    BY <1>1, <2>1
  <2>3. segs = <<>> => n = 0
    BY <2>2
  <2>4. n = 0 => segs = <<>>
    BY <2>1
  <2> QED BY Zenon, <2>2, <2>3, <2>4
<1>4. Started(y, "f32", t, 0, segs)
  BY Zenon
<1> HIDE DEF segs
<1>5. /\ IsRead(y) /\ y.kind = "f32" /\ y.what = t /\ y.pad = 0 /\ y.segs = segs /\ y.i = 1
      /\ y.got = 0 /\ y.total = 0 /\ y.done = (n = 0)
  BY Zenon, <1>3, <1>4 DEF Started
<1>6. Pieces(y)
  <2>1. ASSUME NEW k \in 1..n
        PROVE  /\ segs[k].at \in Nat /\ segs[k].len \in Nat
               /\ segs[k].shard = t.shard /\ segs[k].off = t.off + segs[k].at
               /\ segs[k].at % elemsize(t.dtype) = 0
               /\ (segs[k].at + segs[k].len) % elemsize(t.dtype) = 0
    BY Zenon, <1>1 DEF ChunkOk
  <2>2. ASSUME NEW k \in 1..n
        PROVE  segs[k].at..(segs[k].at + segs[k].len - 1) \subseteq DOMAIN y.buf
    BY ONLY <1>2, <1>4, k \in 1..n, Zenon DEF Started
  <2>3. ASSUME NEW k \in 1..n, k # n PROVE segs[k + 1].at = segs[k].at + segs[k].len
    <3>1. k + 1 \in 1..n /\ (k + 1) - 1 = k
      BY <1>1, <2>3
    <3>2. segs[k + 1].at = ((k + 1) - 1) * per /\ segs[k].at + segs[k].len = k * per
      BY Zenon, <1>1, <2>3, <3>1 DEF ChunkOk
    <3> QED BY Zenon, <3>1, <3>2
  <2>4. "f32" # "read"
    OBVIOUS
  <2> QED BY Zenon, <1>1, <1>3, <1>5, <2>1, <2>2, <2>3, <2>4 DEF Pieces
<1>7. Begun(y, 0) /\ 0 \in Nat
  <2>1. 0..(0 - 1) = {} /\ 0 \in Nat
    OBVIOUS
  <2> QED BY Zenon, <2>1 DEF Begun
<1>8. Piecewise(y)
  <2>1. CASE n = 0
    <3>1. t.dtype \in Formats
      BY DEF Accepted
    <3>2. elemsize(t.dtype) \in {1, 2, 4}
      BY Zenon, <3>1, ElemSize
    <3>3. 0 % elemsize(t.dtype) = 0
      BY <3>2
    <3> QED BY Zenon, <1>5, <1>6, <1>7, <2>1, <3>3 DEF Piecewise
  <2>2. CASE n # 0
    <3>1. 1 \in 1..n
      BY <1>1, <2>2
    <3>2. segs[1].at = (1 - 1) * per /\ segs[1].len \in Nat /\ segs[1].at \in Nat
      BY Zenon, <1>1, <3>1 DEF ChunkOk
    <3>3. t.dtype \in Formats
      BY DEF Accepted
    <3>4. elemsize(t.dtype) \in {1, 2, 4}
      BY Zenon, <3>3, ElemSize
    <3>5. per \in Nat
      BY <3>4
    <3>6. segs[1].at = 0 /\ 0 <= segs[1].len /\ 0 + 0 = 0
      BY ONLY <3>2, <3>5
    <3> QED BY Zenon, <1>3, <1>5, <1>6, <1>7, <2>2, <3>1, <3>6 DEF Piecewise
  <2> QED BY Zenon, <2>1, <2>2
<1> QED BY Zenon, <1>5, <1>8 DEF ReadInv

(* Rounding up reaches at least the number. *)
LEMMA RoundUpIs ==
  ASSUME NEW x \in Nat
  PROVE  RoundUp(x) \in Nat /\ x <= RoundUp(x)
<1> DEFINE a == x + ALIGN - 1
<1>1. ALIGN \in Nat \ {0}
  BY ShardsAssumption
<1>2. a \in Nat
  BY <1>1
<1>3. RoundUp(x) = (a \div ALIGN) * ALIGN
  BY Zenon DEF RoundUp
<1> HIDE DEF a
<1>4. a \div ALIGN \in Nat /\ a % ALIGN \in 0..(ALIGN - 1) /\ a = (a \div ALIGN) * ALIGN + (a % ALIGN)
  BY Zenon, <1>1, <1>2, ModParts
<1> DEFINE up == (a \div ALIGN) * ALIGN
<1>5. up \in Nat
  BY <1>1, <1>4
<1> HIDE DEF up
<1>6. a = up + (a % ALIGN) /\ a % ALIGN \in 0..(ALIGN - 1)
  BY Zenon, <1>4 DEF up
<1>7. x <= up
  BY <1>1, <1>5, <1>6 DEF a
<1> QED BY Zenon, <1>3, <1>5, <1>7 DEF up

(* The window of an O_DIRECT read encloses the run. *)
LEMMA WindowIs ==
  ASSUME NEW r, r.off \in Nat, r.nbytes \in Nat
  PROVE  /\ Window(r).lo \in Nat /\ r.off - Window(r).lo \in Nat
         /\ Window(r).hi \in Nat /\ r.off + r.nbytes <= Window(r).hi
<1>1. ALIGN \in Nat \ {0}
  BY ShardsAssumption
<1> DEFINE lo == (r.off \div ALIGN) * ALIGN
<1>2. Window(r).lo = lo /\ Window(r).hi = RoundUp(r.off + r.nbytes)
  BY DEF Window
<1>3. r.off \div ALIGN \in Nat /\ r.off % ALIGN \in 0..(ALIGN - 1) /\ r.off = lo + (r.off % ALIGN)
  BY Zenon, <1>1, ModParts
<1>4. lo \in Nat
  BY <1>1, <1>3
<1> HIDE DEF lo
<1>5. r.off - lo \in Nat
  BY <1>1, <1>3, <1>4
<1>6. r.off + r.nbytes \in Nat
  OBVIOUS
<1>7. RoundUp(r.off + r.nbytes) \in Nat /\ r.off + r.nbytes <= RoundUp(r.off + r.nbytes)
  BY <1>6, RoundUpIs
<1> QED BY Zenon, <1>2, <1>4, <1>5, <1>7


(* What a caller asks for. *)
Callers ==
  /\ Sample \subseteq Names
  /\ \A e \in 0..(NExperts - 1), k \in 1..6 : Part(e, k) \in Names

(* A tensor that was found is one of an accepted header. *)
LEMMA FoundAccepted ==
  ASSUME StInv, st.phase = "open", NEW n \in Names, st_find(n) # None
  PROVE  st_find(n) \in Accepted
<1>1. PICK j \in 1..Len(st.t) : st_find(n) = st.t[j]
  BY Zenon, FindIs
<1>2. st.t \in Seq(Accepted)
  BY Zenon DEF StInv
<1>3. st.t[j] \in Accepted
  BY <1>2
<1> QED BY Zenon, <1>1, <1>3

(* k3_st_read and k3_st_read_f32 begin. *)
LEMMA ReadStarts ==
  ASSUME NEW t \in Accepted, Read(t) \/ ReadF32(t)
  PROVE  ReadInv(io')
<1>1. CASE Read(t)
  <2> DEFINE r == [kind |-> "read", what |-> t, pad |-> 0, segs |-> <<Seg(t, 0)>>]
  <2>1. StartRead(r)
    BY Zenon, <1>1 DEF Read
  <2>2. r.kind = "read" /\ r.what = t /\ r.pad = 0 /\ r.segs = <<Seg(t, 0)>>
    OBVIOUS
  <2> HIDE DEF r
  <2>3. Started(io', r.kind, r.what, r.pad, r.segs)
    BY Zenon, <2>1, StartIs
  <2>4. Started(io', "read", t, 0, <<Seg(t, 0)>>)
    BY Zenon, <2>2, <2>3
  <2> QED BY Zenon, <2>4, StartsRead
<1>2. CASE ReadF32(t)
  <2> DEFINE esz == elemsize(t.dtype)
             q == CHUNK \div esz
             per == q * esz
             n == (t.nbytes + per - 1) \div per
             r == [kind |-> "f32", what |-> t, pad |-> 0, segs |-> Chunks(t, per, n)]
  <2>1. StartRead(r)
    BY Zenon, <1>2 DEF ReadF32, Chunks
  <2>2. r.kind = "f32" /\ r.what = t /\ r.pad = 0 /\ r.segs = Chunks(t, per, n)
    BY Zenon
  <2> HIDE DEF r
  <2>3. Started(io', r.kind, r.what, r.pad, r.segs)
    BY Zenon, <2>1, StartIs
  <2>4. Started(io', "f32", t, 0, Chunks(t, per, n))
    BY Zenon, <2>2, <2>3
  <2>5. q \in Nat \ {0}
    <3>1. t.dtype \in Formats
      BY DEF Accepted
    <3>2. esz \in {1, 2, 4}
      BY Zenon, <3>1, ElemSize
    <3>3. CHUNK \in Nat /\ CHUNK >= 4
      BY ShardsAssumption
    <3> HIDE DEF esz
    <3> QED BY <3>2, <3>3
  <2> HIDE DEF q, n
  <2>6. per = q * elemsize(t.dtype) /\ n = (t.nbytes + per - 1) \div per
    BY Zenon DEF n
  <2> HIDE DEF per
  <2> QED BY Zenon, <2>4, <2>5, <2>6, StartsF32
<1> QED BY Zenon, <1>1, <1>2

(* k3_expert_load begins. *)
LEMMA LoadStarts ==
  ASSUME NEW r, RefOk(r), ExpertLoad(r)
  PROVE  ReadInv(io')
<1>1. CASE r.contiguous
  <2> DEFINE s == [shard |-> r.shard, off |-> r.off, len |-> r.nbytes, at |-> 0]
             x == [kind |-> "expert", what |-> r, pad |-> 0, segs |-> <<s>>]
  <2>1. StartRead(x)
    BY Zenon, <1>1 DEF ExpertLoad
  <2>2. x.kind = "expert" /\ x.what = r /\ x.pad = 0 /\ x.segs = <<s>>
    BY Zenon
  <2>3. s.shard = r.shard /\ s.off = r.off /\ s.len = r.nbytes /\ s.at = 0
    BY Zenon
  <2> HIDE DEF x, s
  <2>4. Started(io', "expert", r, 0, <<s>>)
    BY Zenon, <2>1, <2>2, StartIs
  <2>5. r.off \in Nat /\ r.nbytes \in Nat
    BY Zenon DEF RefOk
  <2>6. s.off \in Int /\ s.off + 0 = r.off /\ 0 + r.nbytes <= s.len /\ 0 \in Nat /\ s.len \in Nat
    BY <2>3, <2>5
  <2> QED BY Zenon, <1>1, <2>3, <2>4, <2>6, StartsRun
<1>2. CASE ~r.contiguous
  <2> DEFINE segs == [k \in 1..6 |-> Seg(r.part[k].t, r.part[k].at)]
             x == [kind |-> "expert", what |-> r, pad |-> 0, segs |-> segs]
  <2>1. StartRead(x)
    BY Zenon, <1>2 DEF ExpertLoad
  <2>2. x.kind = "expert" /\ x.what = r /\ x.pad = 0 /\ x.segs = segs
    BY Zenon
  <2> HIDE DEF x
  <2>3. Started(io', x.kind, x.what, x.pad, x.segs)
    BY Zenon, <2>1, StartIs
  <2>4. Started(io', "expert", r, 0, segs)
    BY Zenon, <2>2, <2>3
  <2> QED BY Zenon, <1>2, <2>4, StartsParts
<1> QED BY Zenon, <1>1, <1>2

(* k3_expert_load_direct begins. *)
LEMMA DirectStarts ==
  ASSUME StInv, st.phase = "open", Callers, NEW e \in 0..(NExperts - 1), ExpertDirect(e)
  PROVE  ReadInv(io')
<1> DEFINE r == expert_ref(e)
           win == Window(r)
           s == [shard |-> r.shard, off |-> win.lo, at |-> 0, len |-> win.hi - win.lo]
           x == [kind |-> "direct", what |-> r, pad |-> r.off - win.lo, segs |-> <<s>>]
<1>1. /\ r.ok
      /\ ExpertLoad(r) \/ (r.contiguous /\ StartRead(x))
  BY Zenon DEF ExpertDirect
<1>2. RefOk(r)
  BY Zenon, <1>1, ExpertRefOk DEF Callers
<1>3. x.kind = "direct" /\ x.what = r /\ x.pad = r.off - win.lo /\ x.segs = <<s>>
  BY Zenon
<1>4. s.shard = r.shard /\ s.off = win.lo /\ s.len = win.hi - win.lo /\ s.at = 0
  BY Zenon
<1>5. r.off \in Nat /\ r.nbytes \in Nat
  BY Zenon, <1>2 DEF RefOk
<1> HIDE DEF x, s, r
<1>6. win.lo \in Nat /\ r.off - win.lo \in Nat /\ win.hi \in Nat /\ r.off + r.nbytes <= win.hi
  BY Zenon, <1>5, WindowIs
<1> HIDE DEF win
<1>7. CASE ExpertLoad(r)
  BY Zenon, <1>2, <1>7, LoadStarts
<1>8. CASE r.contiguous /\ StartRead(x)
  <2> DEFINE pad == r.off - win.lo
  <2>1. Started(io', x.kind, x.what, x.pad, x.segs)
    BY Zenon, <1>8, StartIs
  <2>2. Started(io', "direct", r, pad, <<s>>)
    BY Zenon, <1>3, <2>1
  <2>3. /\ pad \in Nat /\ s.len \in Nat /\ s.off \in Int /\ s.off + pad = r.off
        /\ pad + r.nbytes <= s.len /\ "direct" # "expert"
    BY <1>4, <1>5, <1>6
  <2> HIDE DEF pad
  <2> QED BY Zenon, <1>2, <1>4, <1>8, <2>2, <2>3, StartsRun
<1> QED BY Zenon, <1>1, <1>7, <1>8


-----------------------------------------------------------------------------
(* Reads go on, and what they return.                                      *)
LEMMA ReadGoesOn ==
  ASSUME NEW x, NEW y, NEW n \in Nat, ReadInv(x), x # Idle, AfterPread(x, y, n)
  PROVE  ReadInv(y)
<1>1. IsRead(y) /\ y.kind = x.kind /\ y.pad = x.pad
  BY ONLY AfterPread(x, y, n), Zenon DEF AfterPread, After
<1>2. CASE x.kind \in {"read", "f32"} /\ x.pad = 0 /\ Piecewise(x)
  BY Zenon, <1>1, <1>2, PiecewisePread DEF ReadInv
<1>3. CASE x.kind \in {"expert", "direct"} /\ AsRun(x)
  BY Zenon, <1>1, <1>3, AsRunPread DEF ReadInv
<1>4. CASE InParts(x)
  BY Zenon, <1>1, <1>4, InPartsPread DEF ReadInv
<1> QED BY Zenon, <1>2, <1>3, <1>4 DEF ReadInv

LEMMA ReadEndsEarly ==
  ASSUME NEW x, NEW y, ReadInv(x), x # Idle, AfterNothing(x, y)
  PROVE  ReadInv(y)
<1>1. IsRead(y) /\ y.kind = x.kind /\ y.pad = x.pad
  BY ONLY AfterNothing(x, y), Zenon DEF AfterNothing, After
<1>2. CASE x.kind \in {"read", "f32"} /\ x.pad = 0 /\ Piecewise(x)
  BY Zenon, <1>1, <1>2, PiecewiseNothing DEF ReadInv
<1>3. CASE x.kind \in {"expert", "direct"} /\ AsRun(x)
  <2>1. x.kind # "f32"
    BY <1>3
  <2> QED BY Zenon, <1>1, <1>3, <2>1, AsRunNothing DEF ReadInv
<1>4. CASE InParts(x)
  BY Zenon, <1>1, <1>4, InPartsNothing DEF ReadInv
<1> QED BY Zenon, <1>2, <1>3, <1>4 DEF ReadInv

(* Every step keeps what is known of the read. *)
LEMMA NextReadInv ==
  ASSUME StInv, Callers, ReadInv(io), ShardsNext \/ Close \/ UNCHANGED shardVars
  PROVE  ReadInv(io')
<1>1. CASE io' = io
  BY Zenon, <1>1
<1>2. CASE io' = Idle
  BY Zenon, <1>2 DEF ReadInv
<1>3. Reading => io # Idle /\ IsRead(io) /\ io.done \in BOOLEAN
  <2> SUFFICES ASSUME Reading PROVE io # Idle /\ IsRead(io) /\ io.done \in BOOLEAN
    OBVIOUS
  <2>1. Idle.kind = "idle"
    BY DEF Idle
  <2>2. io # Idle
    BY Zenon, <2>1 DEF Reading
  <2> QED BY Zenon, <2>2 DEF ReadInv, Piecewise, AsRun, InParts
<1>4. ASSUME NEW n \in Nat, Pread(n) PROVE ReadInv(io')
  <2>1. Reading
    BY Zenon, <1>4 DEF Pread
  <2>2. AfterPread(io, io', n)
    BY Zenon, <1>3, <1>4, <2>1, PreadIs
  <2> QED BY Zenon, <1>3, <2>1, <2>2, ReadGoesOn
<1>5. CASE PreadNothing
  <2>1. Reading
    BY Zenon, <1>5 DEF PreadNothing
  <2>2. AfterNothing(io, io')
    BY Zenon, <1>3, <1>5, <2>1, PreadNothingIs
  <2> QED BY Zenon, <1>3, <2>1, <2>2, ReadEndsEarly
<1>6. ASSUME NEW e \in 0..(NExperts - 1), ExpertDirect(e) PROVE ReadInv(io')
  <2>1. st.phase = "open"
    BY Zenon, <1>6 DEF ExpertDirect, ExpertLoad, StartRead
  <2> QED BY Zenon, <1>6, <2>1, DirectStarts
<1>7. ASSUME NEW n \in Sample, st_find(n) # None, Read(st_find(n)) \/ ReadF32(st_find(n))
      PROVE  ReadInv(io')
  <2>1. st.phase = "open"
    BY Zenon, <1>7 DEF Read, ReadF32, StartRead
  <2>2. n \in Names
    BY Zenon DEF Callers
  <2>3. st_find(n) \in Accepted
    BY Zenon, <1>7, <2>1, <2>2, FoundAccepted
  <2> QED BY Zenon, <1>7, <2>3, ReadStarts
<1>8. CASE ShardsNext
  <2>1. StartOpen \/ ScanRefused \/ Index \/ (\E direct \in BOOLEAN : ScanShard(direct)) => io' = io
    BY Zenon DEF StartOpen, ScanRefused, Index, ScanShard
  <2>2. Dropped => io' = Idle
    BY Zenon DEF Dropped
  <2>3. ASSUME NEW n \in 1..(IF Reading THEN Segment.len - io.got ELSE 0) PROVE n \in Nat
    OBVIOUS
  <2> QED BY Zenon, <1>1, <1>2, <1>4, <1>5, <1>6, <1>7, <1>8, <2>1, <2>2, <2>3 DEF ShardsNext
<1>9. Close => io' = Idle
  BY Zenon DEF Close
<1>10. UNCHANGED shardVars => io' = io
  BY Zenon DEF shardVars
<1> QED BY Zenon, <1>1, <1>2, <1>8, <1>9, <1>10

(* The parts of an expert all have bytes. *)
NoEmptyPart ==
  io.kind \in {"expert", "direct"} => \A k \in 1..6 : io.what.part[k].t.nbytes > 0

(* A number cut off below at zero. *)
LEMMA CutOff ==
  ASSUME NEW a \in Int
  PROVE  Max({a, 0}) = IF a > 0 THEN a ELSE 0
<1> DEFINE S == {a, 0}
           m == IF a > 0 THEN a ELSE 0
<1>1. m \in S /\ \A y \in S : m >= y
  OBVIOUS
<1>2. \A x \in S : x \in Int
  OBVIOUS
<1> HIDE DEF S, m
<1>3. Max(S) \in S /\ \A y \in S : Max(S) >= y
  <2>1. \E x \in S : \A y \in S : x >= y
    BY Zenon, <1>1
  <2> QED BY Zenon, <2>1 DEF Max
<1>4. Max(S) = m
  BY <1>1, <1>2, <1>3
<1> QED BY Zenon, <1>4 DEF S, m


(* What a run returned, against what is in the buffer. *)
LEMMA RunHonest ==
  ASSUME AsRun(io), io.kind \in {"expert", "direct"}, io.done,
         \A k \in 1..6 : io.what.part[k].t.nbytes > 0
  PROVE  Returned = io.what.nbytes <=>
           \A k \in 1..6 :
             Holds(io.pad + io.what.part[k].at, io.what.part[k].t, io.what.part[k].t.nbytes)
<1> DEFINE r == io.what
           s == io.segs[1]
           whole == io.pad + r.nbytes
           held(k) == Holds(io.pad + r.part[k].at, r.part[k].t, r.part[k].t.nbytes)
<1>1. Run(io) /\ RunRead(io, io.total)
  BY Zenon DEF AsRun
<1>2. /\ RefOk(r) /\ r.contiguous /\ io.pad \in Nat
      /\ s.shard = r.shard /\ s.len \in Nat /\ s.off + io.pad = r.off /\ s.off \in Int
      /\ whole <= s.len /\ (io.kind = "expert" => io.pad = 0 /\ s.len = r.nbytes)
      /\ DOMAIN io.buf = 0..(s.len - 1)
  BY ONLY <1>1, Zenon DEF Run
<1>3. /\ io.total \in 0..s.len
      /\ \A p \in 0..(s.len - 1) : io.buf[p] = IF p < io.total THEN <<r.shard, s.off + p>> ELSE Stale
  BY ONLY <1>1, Zenon DEF RunRead
<1>4. /\ r.nbytes \in Nat /\ r.off \in Nat /\ r.shard \in Nat \ {0}
      /\ \A k \in 1..6 : /\ r.part[k].t \in Accepted /\ r.part[k].t.shard = r.shard
                         /\ r.part[k].at \in Nat /\ r.part[k].t.off = r.off + r.part[k].at
                         /\ r.part[k].at + r.part[k].t.nbytes <= r.nbytes
  BY ONLY <1>2, Zenon DEF RefOk
<1>5. \E k \in 1..6 : r.part[k].at + r.part[k].t.nbytes = r.nbytes
  BY ONLY <1>2, Zenon DEF RefOk
<1>6. Returned = IF io.kind = "direct" THEN IF io.total >= whole THEN r.nbytes
                                             ELSE Max({io.total - io.pad, 0})
                 ELSE io.total
  BY Zenon DEF Returned
<1>7. \A k \in 1..6 : r.part[k].t.nbytes > 0
  OBVIOUS
<1>8. whole = io.pad + r.nbytes
  OBVIOUS
<1> HIDE DEF r, s, whole
<1>9. \A k \in 1..6 : r.part[k].t.nbytes \in Nat
  BY Zenon, <1>4, AcceptedIs
<1>10. /\ io.pad \in Nat /\ s.len \in Nat /\ s.off \in Int /\ r.nbytes \in Nat /\ r.off \in Nat
       /\ whole = io.pad + r.nbytes /\ s.off + io.pad = r.off /\ whole <= s.len
       /\ io.total \in Nat /\ io.total <= s.len
  <2>1. io.total \in Nat /\ io.total <= s.len
    <3>1. s.len \in Nat /\ io.total \in 0..s.len
      BY Zenon, <1>2, <1>3
    <3> QED BY ONLY <3>1
  <2> QED BY Zenon, <1>2, <1>4, <1>8, <2>1
<1>11. PICK last \in 1..6 : r.part[last].at + r.part[last].t.nbytes = r.nbytes
  BY Zenon, <1>5
<1>12. r.part[last].at \in Nat /\ r.part[last].t.nbytes \in Nat /\ r.part[last].t.nbytes > 0
       /\ r.part[last].t.shard = r.shard
  BY Zenon, <1>4, <1>7, <1>9
<1>13. Returned = r.nbytes <=> io.total >= whole
  <2>1. r.nbytes > 0
    BY ONLY <1>11, <1>12
  <2>2. CASE io.kind = "expert"
    <3>1. Returned = io.total /\ io.pad = 0 /\ s.len = r.nbytes
      BY ONLY <2>2, <1>2, <1>6
    <3> QED BY ONLY <3>1, <1>10
  <2>3. CASE io.kind = "direct"
    <3>1. io.total - io.pad \in Int
      BY ONLY <1>10
    <3>2. Max({io.total - io.pad, 0}) = IF io.total - io.pad > 0 THEN io.total - io.pad ELSE 0
      BY Zenon, <3>1, CutOff
    <3>3. Returned = IF io.total >= whole THEN r.nbytes ELSE Max({io.total - io.pad, 0})
      BY Zenon, <2>3, <1>6
    <3> QED BY ONLY <3>2, <3>3, <1>10, <2>1
  <2> QED BY Zenon, <2>2, <2>3
<1>14. ASSUME io.total >= whole, NEW k \in 1..6 PROVE held(k)
  <2> DEFINE at == r.part[k].at
             t == r.part[k].t
  <2>1. at \in Nat /\ t.off = r.off + at /\ at + t.nbytes <= r.nbytes /\ t.nbytes \in Nat
    BY Zenon, <1>4, <1>9
  <2>2. t.shard = r.shard
    BY Zenon, <1>4
  <2> HIDE DEF at, t
  <2>3. ASSUME NEW b \in 0..(t.nbytes - 1)
        PROVE  (io.pad + at) + b \in DOMAIN io.buf /\ io.buf[(io.pad + at) + b] = <<t.shard, t.off + b>>
    <3> DEFINE p == (io.pad + at) + b
    <3>1. b \in Nat /\ b < t.nbytes
      BY ONLY <2>1, b \in 0..(t.nbytes - 1)
    <3>2. p \in 0..(s.len - 1) /\ p < io.total /\ s.off + p = t.off + b
      BY ONLY <2>1, <3>1, <1>10, io.total >= whole
    <3> HIDE DEF p
    <3>3. io.buf[p] = <<r.shard, s.off + p>>
      BY Zenon, <3>2, <1>3
    <3>4. p \in DOMAIN io.buf
      BY Zenon, <3>2, <1>2
    <3>5. io.buf[p] = <<t.shard, t.off + b>>
      BY Zenon, <3>2, <3>3, <2>2
    <3> QED BY Zenon, <3>4, <3>5 DEF p
  <2> QED BY Zenon, <2>3 DEF Holds, at, t
<1>15. ASSUME \A k \in 1..6 : held(k) PROVE io.total >= whole
  <2> DEFINE at == r.part[last].at
             t == r.part[last].t
             b == t.nbytes - 1
             p == (io.pad + at) + b
  <2>1. held(last)
    BY Zenon, <1>15
  <2>2. at \in Nat /\ t.nbytes \in Nat /\ t.nbytes > 0 /\ at + t.nbytes = r.nbytes
    BY Zenon, <1>11, <1>12
  <2>3. t.shard = r.shard /\ r.shard # 0
    <3>1. r.shard # 0
      BY ONLY <1>4
    <3> QED BY Zenon, <3>1, <1>12
  <2>4. \A d \in 0..(t.nbytes - 1) : io.buf[(io.pad + at) + d] = <<t.shard, t.off + d>>
    BY Zenon, <2>1 DEF Holds
  <2> HIDE DEF at, t
  <2>5. b \in 0..(t.nbytes - 1)
    BY ONLY <2>2
  <2>6. io.buf[p] = <<t.shard, t.off + b>>
    BY Zenon, <2>4, <2>5
  <2>7. p = whole - 1 /\ p \in 0..(s.len - 1)
    BY ONLY <2>2, <1>10
  <2> HIDE DEF b, p
  <2>8. io.buf[p] # Stale
    BY ONLY <2>3, <2>6 DEF Stale
  <2>9. p < io.total
    BY Zenon, <2>7, <2>8, <1>3
  <2> QED BY ONLY <2>7, <2>9, <1>10
<1>16. Returned = r.nbytes <=> \A k \in 1..6 : held(k)
  BY Zenon, <1>13, <1>14, <1>15
<1> QED BY Zenon, <1>16 DEF r

(* A finished read says truthfully what it read. *)
LEMMA Honest ==
  ASSUME ReadInv(io), NoEmptyPart
  PROVE  CountHonest
<1> SUFFICES ASSUME io.kind # "idle", io.done PROVE CountHonest
  BY Zenon DEF CountHonest
<1>0. Idle.kind = "idle"
  BY DEF Idle
<1>1. CASE io.kind \in {"read", "f32"} /\ io.pad = 0 /\ Piecewise(io)
  <2>1. Begun(io, io.total) /\ (io.kind = "f32" => io.total % elemsize(io.what.dtype) = 0)
        /\ io.total \in Nat
    BY Zenon, <1>1 DEF Piecewise
  <2>2. Returned = io.total
    BY <1>1 DEF Returned
  <2>3. ASSUME NEW b \in 0..(io.total - 1)
        PROVE  0 + b \in DOMAIN io.buf /\ io.buf[0 + b] = <<io.what.shard, io.what.off + b>>
    <3>1. 0 + b = b
      BY ONLY <2>1, b \in 0..(io.total - 1)
    <3>2. Has(io, b, io.what.shard, io.what.off + b)
      BY Zenon, <2>1 DEF Begun
    <3> QED BY Zenon, <3>1, <3>2 DEF Has
  <2>4. Holds(0, io.what, io.total)
    BY Zenon, <2>3 DEF Holds
  <2> QED BY Zenon, <1>1, <2>1, <2>2, <2>4 DEF CountHonest
<1>2. CASE io.kind \in {"expert", "direct"} /\ AsRun(io)
  <2>1. io.kind \notin {"read", "f32"}
    BY <1>2
  <2>2. \A k \in 1..6 : io.what.part[k].t.nbytes > 0
    BY Zenon, <1>2 DEF NoEmptyPart
  <2> QED BY Zenon, <1>2, <2>1, <2>2, RunHonest DEF CountHonest
<1>3. CASE InParts(io)
  <2>1. /\ io.kind = "expert" /\ io.pad = 0 /\ RefOk(io.what)
        /\ (io.total = io.what.nbytes <=> \A k \in 1..6 : PartRead(io, k))
    BY Zenon, <1>3 DEF InParts, Parts
  <2>2. io.kind \notin {"read", "f32"} /\ Returned = io.total
    BY <2>1 DEF Returned
  <2>3. ASSUME NEW k \in 1..6
        PROVE  PartRead(io, k)
               <=> Holds(io.pad + io.what.part[k].at, io.what.part[k].t, io.what.part[k].t.nbytes)
    <3>1. io.what.part[k].at \in Nat
      BY Zenon, <2>1 DEF RefOk
    <3>2. io.pad + io.what.part[k].at = io.what.part[k].at
      BY ONLY <3>1, <2>1
    <3> QED BY Zenon, <3>2 DEF PartRead, Holds, Has
  <2> QED BY Zenon, <2>1, <2>2, <2>3 DEF CountHonest
<1> QED BY Zenon, <1>0, <1>1, <1>2, <1>3 DEF ReadInv
=============================================================================
