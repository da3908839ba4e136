---------------------------- MODULE KernelsProof ----------------------------
(***************************************************************************)
(* Proofs about the kernels (KernelOps, Kernels): what a row kernel, the   *)
(* recurrence of a head and the router's selection compute does not depend *)
(* on how a team of threads shares the iterations, nor on the vector unit. *)
(***************************************************************************)
EXTENDS Kernels, FiniteSetTheorems, TLAPS

-----------------------------------------------------------------------------
(* The vector kernels.                                                     *)

(* Lane j of vector k holds the accumulator 4 k + j. *)
LEMMA ElementIs ==
  ASSUME NEW j \in 0..3
  PROVE  Element(0, j) = j /\ Element(1, j) = j + 4 /\ Element(2, j) = j + 8 /\ Element(3, j) = j + 12
BY DEF Element

(* Two vectors of four lanes are eight accumulators ... *)
LEMMA GroupAvx2 ==
  ASSUME NEW exact, NEW w, NEW x, NEW n
  PROVE  mx_group_avx2(exact, w, x, n) = mx_group(exact, w, x, n)
<1> DEFINE s(l) == Lane(exact, w, x, l, 8, n)
           a == [j \in 0..3 |-> Add(exact, s(j), s(j + 4))]
           b == [j \in 0..3 |-> Add(exact, s(Element(0, j)), s(Element(1, j)))]
<1>1. mx_group(exact, w, x, n) = Rest(exact, w, x, Sum4(exact, a), 8, n)
  BY Zenon DEF mx_group
<1>2. mx_group_avx2(exact, w, x, n) = Rest(exact, w, x, Sum4(exact, b), 8, n)
  BY Zenon DEF mx_group_avx2
<1>3. a = b
  BY Zenon, ElementIs
<1> QED BY Zenon, <1>1, <1>2, <1>3

(* ... and four are sixteen. *)
LEMMA RowAvx2 ==
  ASSUME NEW exact, NEW w, NEW x, NEW n
  PROVE  matmul_avx2(exact, w, x, n) = matmul(exact, w, x, n)
<1> DEFINE s(l) == Lane(exact, w, x, l, 16, n)
           a == [j \in 0..3 |-> Add(exact, Add(exact, s(j), s(j + 4)), Add(exact, s(j + 8), s(j + 12)))]
           b == [j \in 0..3 |-> Add(exact, Add(exact, s(Element(0, j)), s(Element(1, j))),
                                           Add(exact, s(Element(2, j)), s(Element(3, j))))]
<1>1. matmul(exact, w, x, n) = Rest(exact, w, x, Sum4(exact, a), 16, n)
  BY Zenon DEF matmul
<1>2. matmul_avx2(exact, w, x, n) = Rest(exact, w, x, Sum4(exact, b), 16, n)
  BY Zenon DEF matmul_avx2
<1>3. a = b
  BY Zenon, ElementIs
<1> QED BY Zenon, <1>1, <1>2, <1>3

LEMMA MxAvx2 ==
  ASSUME NEW exact, NEW pr, NEW sr, NEW x, NEW n, NEW group
  PROVE  matmul_mxfp4(exact, TRUE, pr, sr, x, n, group) = matmul_mxfp4(exact, FALSE, pr, sr, x, n, group)
<1> DEFINE ngrp == (n + group - 1) \div group
           a == [g \in 0..(ngrp - 1) |-> mx_sub(exact, TRUE, pr, x, n, group, g)]
           b == [g \in 0..(ngrp - 1) |-> mx_sub(exact, FALSE, pr, x, n, group, g)]
<1>1. ASSUME NEW g PROVE mx_sub(exact, TRUE, pr, x, n, group, g) = mx_sub(exact, FALSE, pr, x, n, group, g)
  BY Zenon, GroupAvx2 DEF mx_sub
<1>2. a = b
  BY Zenon, <1>1
<1>3. /\ matmul_mxfp4(exact, TRUE, pr, sr, x, n, group) = mx_total(exact, a, sr, ngrp)
      /\ matmul_mxfp4(exact, FALSE, pr, sr, x, n, group) = mx_total(exact, b, sr, ngrp)
  BY Zenon DEF matmul_mxfp4
<1> QED BY Zenon, <1>2, <1>3

RowKernels == {"f32", "bf16", "bf16_avx2", "mx", "mx_avx2"}

(* Which kernels agree to the last bit. *)
Portable(kern) == IF kern \in {"mx", "mx_avx2"} THEN "mx" ELSE "f32"
Agree(kern, exact, o, n) == Row(kern, exact, o, n) = Row(Portable(kern), exact, o, n)

LEMMA RowsAgree ==
  ASSUME NEW kern \in RowKernels, NEW exact, NEW o, NEW n
  PROVE  Agree(kern, exact, o, n)
<1> DEFINE w == [i \in 0..(n - 1) |-> W16(o, i)]
           x == [i \in 0..(n - 1) |-> X(i)]
           mx(v) == matmul_mxfp4(exact, v, Packed(o, n), Scales(o, n), x, n, Group)
<1>1. /\ Row("f32", exact, o, n) = matmul(exact, w, x, n)
      /\ Row("bf16", exact, o, n) = matmul(exact, w, x, n)
      /\ Row("bf16_avx2", exact, o, n) = matmul_avx2(exact, w, x, n)
      /\ Row("mx", exact, o, n) = mx(FALSE)
      /\ Row("mx_avx2", exact, o, n) = mx(TRUE)
  BY Zenon DEF Row
<1>2. matmul_avx2(exact, w, x, n) = matmul(exact, w, x, n) /\ mx(TRUE) = mx(FALSE)
  BY Zenon, RowAvx2, MxAvx2
<1> HIDE DEF w, x, mx
<1> QED BY <1>1, <1>2 DEF Agree, Portable, RowKernels


-----------------------------------------------------------------------------
(* Induction and recursion up to a number.                                 *)

(* A set of natural numbers that is not empty has a least element. *)
LEMMA Least ==
  ASSUME NEW A \in SUBSET Nat, A # {}
  PROVE  \E a \in A : \A b \in A : a <= b
<1> DEFINE R == OpToRel(<, Nat)
<1>1. IsWellFoundedOn(R, Nat)
  BY NatLessThanWellFounded
<1>2. PICK a \in A : \A b \in A : <<b, a>> \notin R
  BY Zenon, <1>1, WFMin
<1>3. \A b \in A : ~(b < a)
  BY Zenon, <1>2 DEF OpToRel
<1> QED BY <1>3

(* What holds of a number and passes on holds up to a bound. *)
LEMMA UpTo ==
  ASSUME NEW from \in Nat, NEW to \in Nat, NEW A, from \in A,
         \A k \in (from + 1)..to : k - 1 \in A => k \in A
  PROVE  \A k \in from..to : k \in A
<1> DEFINE Left == {k \in from..to : k \notin A}
<1> SUFFICES ASSUME Left # {} PROVE FALSE
  BY Zenon
<1>1. PICK k \in Left : \A b \in Left : k <= b
  <2>1. Left \in SUBSET Nat
    OBVIOUS
  <2> HIDE DEF Left
  <2> QED BY Zenon, <2>1, Least
<1>2. k \in (from + 1)..to /\ k - 1 \in from..to /\ k - 1 < k
  BY <1>1
<1>3. k - 1 \in A
  BY <1>1, <1>2
<1> QED BY <1>1, <1>2, <1>3

(* A function that follows a first value and a step on the values in V. *)
Follows(u, from, to, V, base, g) ==
  /\ u \in [from..to -> V] /\ u[from] = base
  /\ \A k \in (from + 1)..to : u[k] = g[<<k, u[k - 1]>>]

LEMMA Recursion ==
  ASSUME NEW from \in Nat, NEW to \in Nat, from <= to, NEW V, NEW base \in V,
         NEW g \in [((from + 1)..to) \X V -> V]
  PROVE  \E u : Follows(u, from, to, V, base, g)
<1> DEFINE Sol(u, k) == /\ u \in [from..k -> V] /\ u[from] = base
                        /\ \A m \in (from + 1)..k : u[m] = g[<<m, u[m - 1]>>]
           A == {k \in from..to : \E u : Sol(u, k)}
<1>1. from \in A
  <2>1. Sol([k \in from..from |-> base], from) /\ from \in from..to
    OBVIOUS
  <2> HIDE DEF Sol
  <2> QED BY Zenon, <2>1
<1>2. ASSUME NEW k \in (from + 1)..to, k - 1 \in A PROVE k \in A
  <2>1. PICK u : Sol(u, k - 1)
    BY Zenon, <1>2
  <2> DEFINE v == [m \in from..k |-> IF m = k THEN g[<<k, u[k - 1]>>] ELSE u[m]]
  <2>2. u[k - 1] \in V
    BY <2>1
  <2>3. g[<<k, u[k - 1]>>] \in V
    BY Zenon, <2>2
  <2>4. v \in [from..k -> V] /\ v[from] = base
    BY <2>1, <2>3
  <2>5. ASSUME NEW m \in (from + 1)..k PROVE v[m] = g[<<m, v[m - 1]>>]
    <3>1. v[m - 1] = u[m - 1]
      OBVIOUS
    <3>2. m # k => u[m] = g[<<m, u[m - 1]>>] /\ v[m] = u[m]
      BY <2>1
    <3>3. m = k => v[m] = g[<<k, u[k - 1]>>]
      OBVIOUS
    <3> QED BY Zenon, <3>1, <3>2, <3>3
  <2>6. Sol(v, k)
    BY Zenon, <2>4, <2>5
  <2> HIDE DEF v, Sol
  <2>7. k \in from..to
    OBVIOUS
  <2> QED BY Zenon, <2>6, <2>7
<1> HIDE DEF A
<1>3. to \in from..to
  OBVIOUS
<1>4. to \in A
  BY Zenon, <1>1, <1>2, <1>3, UpTo
<1>5. PICK u : Sol(u, to)
  BY Zenon, <1>4 DEF A
<1> QED BY Zenon, <1>5 DEF Follows


-----------------------------------------------------------------------------
(* The heads of the KDA recurrence.                                        *)

LEMMA FloatsInt ==
  ASSUME NEW a \in Int, NEW b \in Int
  PROVE  /\ FMul(a, b) \in Int /\ FAdd(a, b) \in Int /\ FNeg(a) \in Int
         /\ Fn(a, b) \in Int /\ Fn2(a, b, b) \in Int
<1>1. ASSUME NEW i \in Int PROVE i % P \in Int
  BY DEF P
<1>2. a * b \in Int /\ (a + b) * (a + b) + 3 \in Int /\ P - a \in Int
  BY DEF P
<1>3. b * b + a * b + a \in Int /\ b * (b + a) + a * b + 1 \in Int
  BY <1>2
<1> QED BY Zenon, <1>1, <1>2, <1>3 DEF FMul, FAdd, FNeg, Fn, Fn2

LEMMA InInt ==
  ASSUME NEW a \in Int, NEW h \in Int, NEW t \in Int
  PROVE  In(a, h, t) \in Int /\ S0(h) \in Int
<1>1. ASSUME NEW i \in Int PROVE i % P \in Int
  BY DEF P
<1> DEFINE i == h + 2
           j == t + 5
<1>2. i \in Int /\ j \in Int
  OBVIOUS
<1> HIDE DEF i, j
<1>3. i * (j + a) + a * j + 1 \in Int
  BY <1>2
<1>4. In(a, h, t) \in Int
  BY Zenon, <1>1, <1>3 DEF In, Fn2, i, j
<1>5. 3 \in Int
  OBVIOUS
<1> QED BY Zenon, <1>4, <1>5, FloatsInt DEF S0

(* Head h after t tokens, one head after the other. *)
Serial(h) ==
  LET s[t \in 0..NTok] == IF t = 0 THEN [S |-> S0(h), o |-> 0]
                          ELSE Step(s[t - 1].S, Fn(1, In(1, h, t - 1)), h, t - 1)
  IN  s

HeadState == [S : Int, o : Int]

LEMMA StepInt ==
  ASSUME NEW s \in Int, NEW q \in Int, NEW h \in Int, NEW t \in Int
  PROVE  Step(s, q, h, t) \in HeadState
<1> DEFINE k == In(2, h, t)
           v == In(3, h, t)
           alpha == In(4, h, t)
           beta == In(5, h, t)
           S1 == FMul(s, alpha)
           u == FMul(k, S1)
           S2 == FAdd(S1, FMul(FMul(k, beta), FAdd(v, FNeg(u))))
<1>1. k \in Int /\ v \in Int /\ alpha \in Int /\ beta \in Int
  BY InInt
<1> HIDE DEF k, v, alpha, beta
<1>2. S1 \in Int
  BY Zenon, <1>1, FloatsInt
<1> HIDE DEF S1
<1>3. u \in Int
  BY Zenon, <1>1, <1>2, FloatsInt
<1> HIDE DEF u
<1>4. FMul(k, beta) \in Int /\ FNeg(u) \in Int
  BY Zenon, <1>1, <1>3, FloatsInt
<1>5. FAdd(v, FNeg(u)) \in Int
  BY Zenon, <1>1, <1>4, FloatsInt
<1>6. FMul(FMul(k, beta), FAdd(v, FNeg(u))) \in Int
  BY Zenon, <1>4, <1>5, FloatsInt
<1>7. S2 \in Int
  BY Zenon, <1>2, <1>6, FloatsInt
<1> HIDE DEF S2
<1>8. FMul(q, S2) \in Int
  BY Zenon, <1>7, FloatsInt
<1>9. Step(s, q, h, t) = [S |-> S2, o |-> FMul(q, S2)]
  BY Zenon DEF Step, kda_step, k, v, alpha, beta, S1, u, S2
<1> QED BY <1>7, <1>8, <1>9 DEF HeadState

LEMMA SerialIs ==
  ASSUME NEW h \in Int
  PROVE  /\ Serial(h)[0].S = S0(h)
         /\ \A t \in 1..NTok : Serial(h)[t] = Step(Serial(h)[t - 1].S, Fn(1, In(1, h, t - 1)), h, t - 1)
<1> DEFINE base == [S |-> S0(h), o |-> 0]
           step(k, a) == Step(a.S, Fn(1, In(1, h, k - 1)), h, k - 1)
           g == [z \in ((0 + 1)..NTok) \X HeadState |-> step(z[1], z[2])]
           Eq(u) == u = [k \in 0..NTok |-> IF k = 0 THEN base ELSE step(k, u[k - 1])]
           f == CHOOSE u : Eq(u)
<1>1. NTok \in Nat /\ 0 \in Nat /\ 0 <= NTok /\ 0 + 1 = 1
  BY KernelAssumption
<1>2. base \in HeadState
  <2>1. S0(h) \in Int
    BY InInt
  <2> QED BY <2>1 DEF HeadState
<1>3. ASSUME NEW k \in 1..NTok, NEW a \in HeadState PROVE step(k, a) \in HeadState
  <2>1. a.S \in Int
    BY DEF HeadState
  <2>2. k - 1 \in Int /\ 1 \in Int
    BY <1>1
  <2>3. Fn(1, In(1, h, k - 1)) \in Int
    BY Zenon, <2>2, InInt, FloatsInt
  <2> QED BY Zenon, <2>1, <2>2, <2>3, StepInt
<1>4. Serial(h) = f
  BY Zenon DEF Serial
<1> HIDE DEF base, step
<1>5. /\ g \in [((0 + 1)..NTok) \X HeadState -> HeadState]
      /\ \A k \in 1..NTok, a \in HeadState : g[<<k, a>>] = step(k, a)
  BY <1>1, <1>3
<1> HIDE DEF g
<1>6. PICK u : Follows(u, 0, NTok, HeadState, base, g)
  BY Zenon, <1>1, <1>2, <1>5, Recursion
<1>7. Eq(u)
  <2>1. ASSUME NEW k \in 1..NTok PROVE u[k] = step(k, u[k - 1])
    <3>1. k - 1 \in 0..NTok
      BY <1>1
    <3>2. u[k - 1] \in HeadState
      BY Zenon, <1>6, <3>1 DEF Follows
    <3> QED BY Zenon, <1>1, <1>5, <1>6, <3>2 DEF Follows
  <2>2. \A k \in 0..NTok : k # 0 => k \in 1..NTok
    BY <1>1
  <2>3. \A k \in 0..NTok : u[k] = IF k = 0 THEN base ELSE step(k, u[k - 1])
    BY Zenon, <1>6, <2>1, <2>2 DEF Follows
  <2> QED BY Zenon, <1>6, <2>3 DEF Follows
<1>8. Eq(f)
  <2> HIDE DEF Eq
  <2> QED BY Zenon, <1>7
<1>9. f[0] = base /\ \A k \in 1..NTok : f[k] = step(k, f[k - 1])
  <2> HIDE DEF f
  <2>1. (\A k \in 1..NTok : k \in 0..NTok /\ k # 0) /\ 0 \in 0..NTok
    BY <1>1
  <2> QED BY Zenon, <1>8, <2>1
<1> HIDE DEF f
<1>10. base.S = S0(h)
  BY DEF base
<1> QED BY Zenon, <1>4, <1>9, <1>10 DEF step


-----------------------------------------------------------------------------
(* What holds while a team works on a region, whatever the order.          *)
RegionInv ==
  /\ job \in RowJobs \cup RouterJobs \cup HeadJobs
  /\ stage \in [Iterations -> Nat]
  /\ y = [i \in Iterations |-> y[i]]
  /\ wr = [h \in 0..(Heads - 1) |-> wr[h]]
  /\ S = [h \in 0..(Heads - 1) |-> S[h]]

RowsInv ==
  job.kind = "rows" =>
    \A o \in Iterations : stage[o] = 1 => y[o] = <<Row(job.kern, job.exact, o, job.in)>>

Choice(e) == IF job.score[e] = NaN THEN NaN ELSE job.score[e] + job.bias[e]

RouterInv ==
  job.kind = "router" => \A e \in Iterations : stage[e] = 1 => y[e] = <<Choice(e)>>

(* A head has used up t tokens; after the first half of the next one its   *)
(* own slice of the work row holds the scaled q.                           *)
HeadOk(h, n, s, o, q) ==
  LET t == n \div 2
  IN  /\ n <= 2 * NTok /\ s = Serial(h)[t].S /\ o = [i \in 1..t |-> Serial(h)[i].o]
      /\ n % 2 = 1 => q = Fn(1, In(1, h, t))

HeadsInv ==
  job.kind = "heads" => \A h \in Iterations : HeadOk(h, stage[h], S[h], y[h], wr[h])

KernelInv == RegionInv /\ RowsInv /\ RouterInv /\ HeadsInv

LEMMA Kinds ==
  ASSUME RegionInv
  PROVE  /\ Iterations \subseteq Nat
         /\ job.kind = "heads" => Iterations = 0..(Heads - 1) /\ Steps = 2 * NTok
         /\ job.kind = "router" => Iterations = 0..(NExperts - 1) /\ Steps = 1
         /\ job.kind = "rows" => job.kern \in RowKernels
                                 /\ job.exact \in BOOLEAN
<1>1. \/ job \in RowJobs /\ job.kind = "rows"
      \/ job \in RouterJobs /\ job.kind = "router"
      \/ job.kind = "heads"
  BY DEF RegionInv, RowJobs, RouterJobs, HeadJobs
<1>2. /\ job.kind = "heads" => N = Heads /\ Steps = 2 * NTok
      /\ job.kind = "router" => N = NExperts /\ Steps = 1
      /\ job.kind = "rows" => N = Rows
  BY DEF N, Steps
<1>3. N \in Nat
  BY <1>1, <1>2, KernelAssumption
<1>4. Iterations = 0..(N - 1) /\ Iterations \subseteq Nat
  BY <1>3 DEF Iterations
<1>5. job.kind = "rows" => job.kern \in RowKernels
                           /\ job.exact \in BOOLEAN
  BY <1>1 DEF RowJobs, RowKernels
<1> QED BY Zenon, <1>2, <1>4, <1>5

(* A region begins. *)
LEMMA InitKernelInv ==
  ASSUME KernelsInit
  PROVE  KernelInv
<1>1. RegionInv
  <2>1. job \in RowJobs \cup RouterJobs \cup HeadJobs
    BY Zenon DEF KernelsInit
  <2>2. stage \in [Iterations -> Nat]
    BY DEF KernelsInit
  <2> QED BY Zenon, <2>1, <2>2 DEF KernelsInit, RegionInv
<1>2. \A i \in Iterations : stage[i] = 0 /\ y[i] = <<>>
  BY Zenon DEF KernelsInit
<1>3. RowsInv /\ RouterInv
  <2>1. 0 # 1
    OBVIOUS
  <2> QED BY Zenon, <1>2, <2>1 DEF RowsInv, RouterInv
<1>4. ASSUME job.kind = "heads", NEW h \in Iterations PROVE HeadOk(h, stage[h], S[h], y[h], wr[h])
  <2>1. h \in 0..(Heads - 1) /\ h \in Int
    BY <1>1, <1>4, Kinds
  <2>2. S[h] = Serial(h)[0].S
    BY Zenon, <2>1, SerialIs DEF KernelsInit
  <2>3. stage[h] = 0 /\ 0 \div 2 = 0 /\ 0 <= 2 * NTok /\ 0 % 2 # 1
    BY <1>2, KernelAssumption
  <2>4. y[h] = [i \in 1..0 |-> Serial(h)[i].o]
    BY <1>2
  <2> QED BY Zenon, <2>2, <2>3, <2>4 DEF HeadOk
<1> QED BY Zenon, <1>1, <1>3, <1>4 DEF KernelInv, HeadsInv

(* A list grows by its next element. *)
LEMMA Longer ==
  ASSUME NEW f, NEW t \in Nat
  PROVE  Append([i \in 1..t |-> f[i]], f[t + 1]) = [i \in 1..(t + 1) |-> f[i]]
OBVIOUS


(* The bookkeeping of one step: iteration i goes on, the others do not. *)
LEMMA StageStep ==
  ASSUME RegionInv, NEW i \in Iterations, NEW n \in Nat, NEW v,
         job' = job, stage' = [stage EXCEPT ![i] = n],
         y' = y \/ y' = [y EXCEPT ![i] = v]
  PROVE  /\ Iterations' = Iterations /\ stage' \in [Iterations -> Nat]
         /\ y' = [k \in Iterations |-> y'[k]]
         /\ stage'[i] = n /\ \A k \in Iterations \ {i} : stage'[k] = stage[k] /\ y'[k] = y[k]
<1>1. Iterations' = Iterations
  BY Zenon DEF Iterations, N
<1>2. stage \in [Iterations -> Nat] /\ y = [k \in Iterations |-> y[k]]
  BY Zenon DEF RegionInv
<1>3. stage' \in [Iterations -> Nat] /\ stage'[i] = n /\ \A k \in Iterations \ {i} : stage'[k] = stage[k]
  BY <1>2
<1>4. y' = [k \in Iterations |-> y'[k]] /\ \A k \in Iterations \ {i} : y'[k] = y[k]
  BY <1>2
<1> QED BY Zenon, <1>1, <1>3, <1>4

(* A row, or a score, is stored. *)
LEMMA StoreKeeps ==
  ASSUME KernelInv, NEW i \in Iterations, RowDone(i) \/ ScoreDone(i)
  PROVE  KernelInv'
<1> DEFINE v == IF job.kind = "rows" THEN <<Row(job.kern, job.exact, i, job.in)>> ELSE <<Choice(i)>>
<1>1. RegionInv
  BY Zenon DEF KernelInv
<1>2. /\ job' = job /\ wr' = wr /\ S' = S
      /\ stage' = [stage EXCEPT ![i] = 1] /\ y' = [y EXCEPT ![i] = v]
      /\ job.kind # "heads"
  <2>1. "rows" # "router" /\ "rows" # "heads" /\ "router" # "heads"
    OBVIOUS
  <2> QED BY Zenon, <2>1 DEF RowDone, ScoreDone, Choice
<1> HIDE DEF v
<1>3. 1 \in Nat
  OBVIOUS
<1>4. /\ Iterations' = Iterations /\ stage' \in [Iterations -> Nat]
      /\ y' = [k \in Iterations |-> y'[k]]
      /\ stage'[i] = 1 /\ \A k \in Iterations \ {i} : stage'[k] = stage[k] /\ y'[k] = y[k]
  BY Zenon, <1>1, <1>2, <1>3, StageStep
<1>5. RegionInv'
  BY Zenon, <1>1, <1>2, <1>4 DEF RegionInv
<1>6. y'[i] = v
  BY <1>1, <1>2 DEF RegionInv
<1>7. RowsInv'
  <2> SUFFICES ASSUME job'.kind = "rows", NEW o \in Iterations, stage'[o] = 1
               PROVE  y'[o] = <<Row(job.kern, job.exact, o, job.in)>>
    BY Zenon, <1>2, <1>4 DEF RowsInv
  <2>1. CASE o = i
    BY Zenon, <1>2, <1>6, <2>1 DEF v
  <2>2. CASE o # i
    BY Zenon, <1>2, <1>4, <2>2 DEF KernelInv, RowsInv
  <2> QED BY Zenon, <2>1, <2>2
<1>8. RouterInv'
  <2>0. "rows" # "router"
    OBVIOUS
  <2>3. ASSUME NEW e PROVE Choice(e)' = Choice(e)
    BY Zenon, <1>2 DEF Choice
  <2> SUFFICES ASSUME job'.kind = "router", NEW e \in Iterations, stage'[e] = 1
               PROVE  y'[e] = <<Choice(e)>>
    BY Zenon, <1>2, <1>4, <2>3 DEF RouterInv
  <2>1. CASE e = i
    BY Zenon, <1>2, <1>6, <2>0, <2>1 DEF v
  <2>2. CASE e # i
    BY Zenon, <1>2, <1>4, <2>2 DEF KernelInv, RouterInv
  <2> QED BY Zenon, <2>1, <2>2
<1>9. HeadsInv'
  BY Zenon, <1>2 DEF HeadsInv
<1> QED BY Zenon, <1>5, <1>7, <1>8, <1>9 DEF KernelInv

(* A cell of a row is written. *)
LEMMA Written ==
  ASSUME NEW D, NEW f, f = [k \in D |-> f[k]], NEW i \in D, NEW v, NEW f2, f2 = [f EXCEPT ![i] = v]
  PROVE  f2 = [k \in D |-> f2[k]] /\ f2[i] = v /\ \A k \in D \ {i} : f2[k] = f[k]
OBVIOUS

(* Half a token of a head. *)
LEMMA Halves ==
  ASSUME NEW n \in Nat
  PROVE  /\ n % 2 = 0 => (n + 1) % 2 = 1 /\ (n + 1) \div 2 = n \div 2
         /\ n % 2 = 1 => (n + 1) % 2 # 1 /\ (n + 1) \div 2 = n \div 2 + 1
                         /\ (n <= 2 * NTok => n + 1 <= 2 * NTok /\ n \div 2 + 1 \in 1..NTok)
         /\ n \div 2 \in Nat
<1>1. NTok \in Nat
  BY KernelAssumption
<1> QED BY <1>1

LEMMA HeadKeeps ==
  ASSUME KernelInv, NEW h \in Iterations, HeadScale(h) \/ HeadStep(h)
  PROVE  KernelInv'
<1> DEFINE t == stage[h] \div 2
<1>1. RegionInv
  BY Zenon DEF KernelInv
<1>2. job.kind = "heads" /\ job.kind # "rows" /\ job.kind # "router" /\ job' = job
  <2>1. "rows" # "heads" /\ "router" # "heads"
    OBVIOUS
  <2> QED BY Zenon, <2>1 DEF HeadScale, HeadStep
<1>3. Iterations = 0..(Heads - 1) /\ Steps = 2 * NTok /\ Iterations \subseteq Nat
  BY Zenon, <1>1, <1>2, Kinds
<1>4. stage[h] \in Nat /\ stage[h] + 1 \in Nat /\ h \in Int
  BY <1>1, <1>3 DEF RegionInv
<1>5. stage' = [stage EXCEPT ![h] = stage[h] + 1]
  BY Zenon DEF HeadScale, HeadStep
<1>6. HeadOk(h, stage[h], S[h], y[h], wr[h])
  BY Zenon, <1>2 DEF KernelInv, HeadsInv
<1>7. RowsInv' /\ RouterInv'
  BY Zenon, <1>2 DEF RowsInv, RouterInv
<1>8. \A k \in Iterations \ {h} : HeadOk(k, stage[k], S[k], y[k], wr[k])
  BY Zenon, <1>2 DEF KernelInv, HeadsInv
<1>9. CASE HeadScale(h)
  <2>1. wr' = [wr EXCEPT ![h] = Fn(1, In(1, h, t))] /\ y' = y /\ S' = S
        /\ stage[h] % 2 = 0 /\ stage[h] < Steps
    BY Zenon, <1>9 DEF HeadScale, Slice
  <2>2. /\ Iterations' = Iterations /\ stage' \in [Iterations -> Nat]
        /\ y' = [k \in Iterations |-> y'[k]]
        /\ stage'[h] = stage[h] + 1 /\ \A k \in Iterations \ {h} : stage'[k] = stage[k] /\ y'[k] = y[k]
    BY Zenon, <1>1, <1>2, <1>4, <1>5, <2>1, StageStep
  <2>3. /\ wr' = [k \in 0..(Heads - 1) |-> wr'[k]] /\ wr'[h] = Fn(1, In(1, h, t))
        /\ \A k \in Iterations \ {h} : wr'[k] = wr[k]
    <3>1. wr = [k \in 0..(Heads - 1) |-> wr[k]] /\ h \in 0..(Heads - 1)
      BY Zenon, <1>1, <1>3 DEF RegionInv
    <3> QED BY Zenon, <1>3, <2>1, <3>1, Written
  <2>4. RegionInv'
    BY Zenon, <1>1, <1>2, <2>1, <2>2, <2>3 DEF RegionInv
  <2>5. HeadOk(h, stage'[h], S'[h], y'[h], wr'[h])
    <3>1. (stage[h] + 1) \div 2 = t /\ (stage[h] + 1) % 2 = 1
      BY Zenon, <1>4, <2>1, Halves
    <3>2. stage[h] + 1 <= 2 * NTok
      <4>1. NTok \in Nat
        BY KernelAssumption
      <4>2. stage[h] < 2 * NTok
        BY Zenon, <1>3, <2>1
      <4> QED BY ONLY <1>4, <4>1, <4>2
    <3> QED BY Zenon, <1>6, <2>1, <2>2, <2>3, <3>1, <3>2 DEF HeadOk
  <2>6. HeadsInv'
    <3>1. ASSUME NEW k \in Iterations PROVE HeadOk(k, stage'[k], S'[k], y'[k], wr'[k])
      <4>1. CASE k = h
        BY Zenon, <2>5, <4>1
      <4>2. CASE k # h
        <5>1. stage'[k] = stage[k] /\ S'[k] = S[k] /\ y'[k] = y[k] /\ wr'[k] = wr[k]
          BY Zenon, <2>1, <2>2, <2>3, <4>2
        <5> QED BY Zenon, <1>8, <4>2, <5>1
      <4> QED BY Zenon, <4>1, <4>2
    <3> QED BY Zenon, <2>2, <3>1 DEF HeadsInv
  <2> QED BY Zenon, <1>7, <2>4, <2>6 DEF KernelInv
<1>10. CASE HeadStep(h)
  <2> DEFINE r == Step(S[h], wr[h], h, t)
  <2>1. S' = [S EXCEPT ![h] = r.S] /\ y' = [y EXCEPT ![h] = Append(y[h], r.o)] /\ wr' = wr
        /\ stage[h] % 2 = 1
    BY Zenon, <1>10 DEF HeadStep, Slice
  <2>2. /\ Iterations' = Iterations /\ stage' \in [Iterations -> Nat]
        /\ y' = [k \in Iterations |-> y'[k]]
        /\ stage'[h] = stage[h] + 1 /\ \A k \in Iterations \ {h} : stage'[k] = stage[k] /\ y'[k] = y[k]
    BY Zenon, <1>1, <1>2, <1>4, <1>5, <2>1, StageStep
  <2>3. /\ S' = [k \in 0..(Heads - 1) |-> S'[k]] /\ S'[h] = r.S
        /\ \A k \in Iterations \ {h} : S'[k] = S[k]
    <3>1. S = [k \in 0..(Heads - 1) |-> S[k]] /\ h \in 0..(Heads - 1)
      BY Zenon, <1>1, <1>3 DEF RegionInv
    <3> QED BY Zenon, <1>3, <2>1, <3>1, Written
  <2>4. RegionInv'
    BY Zenon, <1>1, <1>2, <2>1, <2>2, <2>3 DEF RegionInv
  <2>5. y'[h] = Append(y[h], r.o)
    BY <1>1, <2>1 DEF RegionInv
  <2>6. HeadOk(h, stage'[h], S'[h], y'[h], wr'[h])
    <3>1. /\ (stage[h] + 1) \div 2 = t + 1 /\ (stage[h] + 1) % 2 # 1
          /\ stage[h] + 1 <= 2 * NTok /\ t + 1 \in 1..NTok /\ t \in Nat
      BY Zenon, <1>4, <1>6, <2>1, Halves DEF HeadOk
    <3>2. (t + 1) - 1 = t
      BY <3>1
    <3>3. S[h] = Serial(h)[t].S /\ y[h] = [i \in 1..t |-> Serial(h)[i].o] /\ wr[h] = Fn(1, In(1, h, t))
      BY Zenon, <1>6, <2>1 DEF HeadOk
    <3>4. r = Serial(h)[t + 1]
      <4>1. Serial(h)[t + 1] =
              Step(Serial(h)[(t + 1) - 1].S, Fn(1, In(1, h, (t + 1) - 1)), h, (t + 1) - 1)
        BY Zenon, <1>4, <3>1, SerialIs
      <4> QED BY Zenon, <3>2, <3>3, <4>1
    <3> DEFINE f == [i \in Nat |-> Serial(h)[i].o]
    <3> HIDE DEF t, r
    <3>5. Append(y[h], r.o) = [i \in 1..(t + 1) |-> Serial(h)[i].o]
      <4>1. \A i \in Nat : f[i] = Serial(h)[i].o
        OBVIOUS
      <4> HIDE DEF f
      <4>2. t + 1 \in Nat /\ 1..(t + 1) \subseteq Nat /\ 1..t \subseteq Nat
        BY <3>1
      <4>3. y[h] = [i \in 1..t |-> f[i]] /\ r.o = f[t + 1]
        <5>1. r.o = f[t + 1]
          BY Zenon, <3>4, <4>1, <4>2
        <5>2. \A i \in 1..t : f[i] = Serial(h)[i].o
          BY Zenon, <4>1, <4>2
        <5>3. y[h] = [i \in 1..t |-> f[i]]
          BY Zenon, <3>3, <5>2
        <5> QED BY Zenon, <5>1, <5>3
      <4>4. Append([i \in 1..t |-> f[i]], f[t + 1]) = [i \in 1..(t + 1) |-> f[i]]
        BY <3>1, Longer
      <4>5. \A i \in 1..(t + 1) : f[i] = Serial(h)[i].o
        BY Zenon, <4>1, <4>2
      <4> QED BY Zenon, <4>3, <4>4, <4>5
    <3> QED BY Zenon, <2>2, <2>3, <2>5, <3>1, <3>4, <3>5 DEF HeadOk
  <2>7. HeadsInv'
    <3>1. ASSUME NEW k \in Iterations PROVE HeadOk(k, stage'[k], S'[k], y'[k], wr'[k])
      <4>1. CASE k = h
        BY Zenon, <2>6, <4>1
      <4>2. CASE k # h
        <5>1. stage'[k] = stage[k] /\ S'[k] = S[k] /\ y'[k] = y[k] /\ wr'[k] = wr[k]
          BY Zenon, <2>1, <2>2, <2>3, <4>2
        <5> QED BY Zenon, <1>8, <4>2, <5>1
      <4> QED BY Zenon, <4>1, <4>2
    <3> QED BY Zenon, <2>2, <3>1 DEF HeadsInv
  <2> QED BY Zenon, <1>7, <2>4, <2>7 DEF KernelInv
<1> QED BY Zenon, <1>9, <1>10


LEMMA NextKernelInv ==
  ASSUME KernelInv, [KernelsNext]_kernelVars
  PROVE  KernelInv'
<1>1. CASE UNCHANGED kernelVars
  <2>1. job' = job /\ stage' = stage /\ y' = y /\ wr' = wr /\ S' = S
    BY Zenon, <1>1 DEF kernelVars
  <2>2. Iterations' = Iterations
    BY Zenon, <2>1 DEF Iterations, N
  <2>3. RegionInv'
    BY Zenon, <2>1, <2>2 DEF KernelInv, RegionInv
  <2>4. RowsInv' /\ RouterInv' /\ HeadsInv'
    BY Zenon, <2>1, <2>2 DEF KernelInv, RowsInv, RouterInv, HeadsInv, Choice
  <2> QED BY Zenon, <2>3, <2>4 DEF KernelInv
<1> QED BY Zenon, <1>1, StoreKeeps, HeadKeeps DEF KernelsNext

(* Whatever order the threads take the iterations in, each leaves what it  *)
(* alone is to leave.                                                      *)
THEOREM KernelAlways == KernelsSpec => []KernelInv
<1>1. KernelsInit => KernelInv
  BY Zenon, InitKernelInv
<1>2. KernelInv /\ [KernelsNext]_kernelVars => KernelInv'
  BY Zenon, NextKernelInv
<1> QED BY <1>1, <1>2, PTL DEF KernelsSpec

(* RowsBitIdentical, for every length of a row, number of rows and order   *)
(* of the iterations: the AVX2 kernels do the operations of the portable   *)
(* ones in the same order.                                                 *)
THEOREM RowsAlwaysIdentical == KernelsSpec => []RowsBitIdentical
<1>1. KernelInv => RowsBitIdentical
  <2> SUFFICES ASSUME KernelInv, job.kind = "rows", ~job.exact, NEW o \in Iterations, stage[o] = 1
               PROVE  y[o] = <<Row(Portable(job.kern), FALSE, o, job.in)>>
    BY Zenon DEF RowsBitIdentical, Portable
  <2>1. y[o] = <<Row(job.kern, job.exact, o, job.in)>>
    BY Zenon DEF KernelInv, RowsInv
  <2>2. job.kern \in RowKernels /\ job.exact = FALSE
    BY Kinds DEF KernelInv
  <2>3. Agree(job.kern, job.exact, o, job.in)
    BY Zenon, <2>2, RowsAgree
  <2> QED BY Zenon, <2>1, <2>2, <2>3 DEF Agree
<1> QED BY <1>1, KernelAlways, PTL

(* HeadsExact, for every number of heads, tokens and threads: no head      *)
(* reads in the shared work row what another one put there.                *)
THEOREM HeadsAlwaysExact == KernelsSpec => []HeadsExact
<1>1. KernelInv => HeadsExact
  <2>1. ASSUME KernelInv, job.kind = "heads", NEW h \in Iterations
        PROVE  LET t == stage[h] \div 2
               IN  S[h] = Serial(h)[t].S /\ y[h] = [i \in 1..t |-> Serial(h)[i].o]
    BY Zenon, <2>1 DEF KernelInv, HeadsInv, HeadOk
  <2> QED BY Zenon, <2>1 DEF HeadsExact, Serial
<1> QED BY <1>1, KernelAlways, PTL


-----------------------------------------------------------------------------
(* The router's selection.                                                 *)

(* Of the experts below m that are left, b is the one to take. *)
Left(c, taken, m) == {e \in 0..(m - 1) : e \notin taken /\ c[e] # NaN}
Precedes(c, e, f) == c[e] > c[f] \/ (c[e] = c[f] /\ e < f)
IsBest(c, taken, m, b) ==
  IF Left(c, taken, m) = {} THEN b = NoBest
  ELSE b \in Left(c, taken, m) /\ \A f \in Left(c, taken, m) \ {b} : Precedes(c, b, f)

(* The scan looks at one more expert. *)
LEMMA ScanOne ==
  ASSUME NEW n \in Nat, NEW c \in [0..(n - 1) -> Int], NEW taken, NEW m \in 1..n,
         NEW b, IsBest(c, taken, m - 1, b)
  PROVE  IsBest(c, taken, m, IF m - 1 \notin taken /\ c[m - 1] # NaN /\ (b = NoBest \/ c[m - 1] > c[b])
                             THEN m - 1 ELSE b)
<1> DEFINE e == m - 1
           A == Left(c, taken, m - 1)
           B == Left(c, taken, m)
           is == e \notin taken /\ c[e] # NaN
<1>1. e \in 0..(n - 1) /\ e \in Int /\ c[e] \in Int
  OBVIOUS
<1>2. B = (IF is THEN A \cup {e} ELSE A)
  BY DEF Left
<1>3. \A f \in A : f \in 0..(n - 1) /\ f < e /\ f # e /\ f # NoBest /\ c[f] \in Int
  BY DEF Left, NoBest
<1>4. IF A = {} THEN b = NoBest ELSE b \in A /\ \A f \in A \ {b} : Precedes(c, b, f)
  BY Zenon DEF IsBest
<1> HIDE DEF e, A, B
<1>5. CASE ~is
  BY Zenon, <1>2, <1>4, <1>5 DEF IsBest, e, A, B
<1>6. CASE is /\ A = {}
  <2>1. b = NoBest /\ B = {e} /\ B # {} /\ e \in B /\ B \ {e} = {}
    BY <1>2, <1>4, <1>6
  <2> QED BY Zenon, <1>6, <2>1 DEF IsBest, e, B
<1>7. CASE is /\ A # {}
  <2>1. B = A \cup {e} /\ B # {} /\ b \in A /\ b # NoBest /\ e \in B /\ b \in B
    BY Zenon, <1>2, <1>3, <1>4, <1>7
  <2>2. c[b] \in Int /\ b < e /\ b \in Int
    BY <1>3, <2>1
  <2>3. CASE c[e] > c[b]
    <3>1. ASSUME NEW f \in B \ {e} PROVE Precedes(c, e, f)
      <4>1. f \in A
        BY Zenon, <2>1
      <4>2. f = b \/ Precedes(c, b, f)
        BY Zenon, <1>4, <1>7, <4>1
      <4>3. c[f] \in Int
        BY Zenon, <1>3, <4>1
      <4> QED BY <1>1, <2>2, <2>3, <4>2, <4>3 DEF Precedes
    <3> QED BY Zenon, <1>7, <2>1, <2>3, <3>1 DEF IsBest, e, B
  <2>4. CASE ~(c[e] > c[b])
    <3>1. Precedes(c, b, e)
      BY <1>1, <2>2, <2>4 DEF Precedes
    <3>2. \A f \in B \ {b} : Precedes(c, b, f)
      BY Zenon, <1>4, <1>7, <2>1, <3>1
    <3> QED BY Zenon, <1>7, <2>1, <2>4, <3>2 DEF IsBest, e, B
  <2> QED BY Zenon, <2>3, <2>4
<1> QED BY Zenon, <1>5, <1>6, <1>7


LEMMA BestIs ==
  ASSUME NEW n \in Nat, NEW c \in [0..(n - 1) -> Int], NEW taken
  PROVE  IsBest(c, taken, n, Best(c, taken)) /\ Best(c, taken) \in Int
<1> DEFINE step(k, b) == LET e == k - 1
                         IN  IF e \notin taken /\ c[e] # NaN /\ (b = NoBest \/ c[e] > c[b]) THEN e ELSE b
           g == [z \in ((0 + 1)..n) \X Int |-> step(z[1], z[2])]
           Eq(u) == u = [k \in 0..n |-> IF k = 0 THEN NoBest ELSE step(k, u[k - 1])]
           f == CHOOSE u : Eq(u)
<1>1. 0 \in Nat /\ 0 <= n /\ 0 + 1 = 1 /\ NoBest \in Int /\ n \in 0..n
  BY DEF NoBest
<1>2. Cardinality(DOMAIN c) = n
  <2>1. DOMAIN c = 0..(n - 1) /\ 0 \in Int /\ n - 1 \in Int
    OBVIOUS
  <2>2. Cardinality(0..(n - 1)) = IF 0 > n - 1 THEN 0 ELSE (n - 1) - 0 + 1
    BY ONLY <2>1, FS_Interval
  <2> QED BY ONLY <2>1, <2>2, n \in Nat
<1>3. ASSUME NEW k \in 1..n, NEW b \in Int PROVE step(k, b) \in Int
  OBVIOUS
<1>4. Best(c, taken) = f[n]
  <2>1. Best(c, taken) = LET best[m \in 0..n] ==
                               IF m = 0 THEN NoBest
                               ELSE LET b == best[m - 1] e == m - 1
                                    IN  IF e \notin taken /\ c[e] # NaN /\ (b = NoBest \/ c[e] > c[b])
                                        THEN e ELSE b
                         IN  best[n]
    BY Zenon, <1>2 DEF Best
  <2> QED BY Zenon, <2>1
<1> HIDE DEF step
<1>5. /\ g \in [((0 + 1)..n) \X Int -> Int]
      /\ \A k \in 1..n, a \in Int : g[<<k, a>>] = step(k, a)
  BY Zenon, <1>1, <1>3
<1> HIDE DEF g
<1>6. PICK u : Follows(u, 0, n, Int, NoBest, g)
  BY Zenon, <1>1, <1>5, Recursion
<1>7. Eq(u)
  <2>1. ASSUME NEW k \in 1..n PROVE u[k] = step(k, u[k - 1])
    <3>1. k - 1 \in 0..n
      BY <1>1
    <3>2. u[k - 1] \in Int
      BY Zenon, <1>6, <3>1 DEF Follows
    <3> QED BY Zenon, <1>1, <1>5, <1>6, <3>2 DEF Follows
  <2>2. \A k \in 0..n : k # 0 => k \in 1..n
    BY <1>1
  <2>3. \A k \in 0..n : u[k] = IF k = 0 THEN NoBest ELSE step(k, u[k - 1])
    BY Zenon, <1>6, <2>1, <2>2 DEF Follows
  <2> QED BY Zenon, <1>6, <2>3 DEF Follows
<1>8. Eq(f)
  <2> HIDE DEF Eq
  <2> QED BY Zenon, <1>7
<1>9. f[0] = NoBest /\ \A k \in 1..n : f[k] = step(k, f[k - 1])
  <2> HIDE DEF f
  <2>1. (\A k \in 1..n : k \in 0..n /\ k # 0) /\ 0 \in 0..n
    BY <1>1
  <2> QED BY Zenon, <1>8, <2>1
<1> HIDE DEF f
<1> DEFINE A == {k \in 0..n : IsBest(c, taken, k, f[k]) /\ f[k] \in Int}
<1>10. 0 \in A
  <2>1. Left(c, taken, 0) = {} /\ 0 \in 0..n
    BY DEF Left
  <2> QED BY Zenon, <1>1, <1>9, <2>1 DEF IsBest
<1>11. ASSUME NEW k \in (0 + 1)..n, k - 1 \in A PROVE k \in A
  <2>1. k \in 1..n /\ k \in 0..n
    OBVIOUS
  <2>2. IsBest(c, taken, k - 1, f[k - 1]) /\ f[k - 1] \in Int
    BY Zenon, <1>11
  <2>3. IsBest(c, taken, k, step(k, f[k - 1]))
    BY Zenon, <2>1, <2>2, ScanOne DEF step
  <2> QED BY Zenon, <1>3, <1>9, <2>1, <2>2, <2>3
<1>12. \A k \in 0..n : k \in A
  <2> HIDE DEF A
  <2> QED BY Zenon, <1>1, <1>10, <1>11, UpTo
<1> QED BY Zenon, <1>1, <1>4, <1>12


(* Each slot holds the best of what the slots before it have left. *)
Chosen(c, s, k) ==
  s \in Seq(Int) /\ Len(s) = k /\ \A j \in 1..k : s[j] = Best(c, {s[i] : i \in 1..(j - 1)})

LEMMA TopKIs ==
  ASSUME NEW n \in Nat, NEW c \in [0..(n - 1) -> Int], NEW t \in Nat
  PROVE  Chosen(c, TopK(c, t), t)
<1> DEFINE V == Seq(Int)
           step(k, s) == Append(s, Best(c, {s[i] : i \in 1..(k - 1)}))
           g == [z \in ((0 + 1)..t) \X V |-> step(z[1], z[2])]
           Eq(u) == u = [k \in 0..t |-> IF k = 0 THEN <<>> ELSE step(k, u[k - 1])]
           f == CHOOSE u : Eq(u)
<1>1. 0 \in Nat /\ 0 <= t /\ 0 + 1 = 1 /\ <<>> \in V /\ t \in 0..t
  OBVIOUS
<1>2. ASSUME NEW T PROVE Best(c, T) \in Int
  BY Zenon, BestIs
<1>3. ASSUME NEW k \in 1..t, NEW s \in V PROVE step(k, s) \in V
  <2> DEFINE b == Best(c, {s[i] : i \in 1..(k - 1)})
  <2>1. b \in Int
    BY Zenon, <1>2
  <2> HIDE DEF b
  <2>2. Append(s, b) \in V
    BY <2>1
  <2> QED BY Zenon, <2>2 DEF b
<1>4. TopK(c, t) = f[t]
  BY Zenon DEF TopK
<1> HIDE DEF step, V
<1>5. /\ g \in [((0 + 1)..t) \X V -> V]
      /\ \A k \in 1..t, a \in V : g[<<k, a>>] = step(k, a)
  BY Zenon, <1>1, <1>3
<1> HIDE DEF g
<1>6. PICK u : Follows(u, 0, t, V, <<>>, g)
  BY Zenon, <1>1, <1>5, Recursion
<1>7. Eq(u)
  <2>1. ASSUME NEW k \in 1..t PROVE u[k] = step(k, u[k - 1])
    <3>1. k - 1 \in 0..t
      BY <1>1
    <3>2. u[k - 1] \in V
      BY Zenon, <1>6, <3>1 DEF Follows
    <3> QED BY Zenon, <1>1, <1>5, <1>6, <3>2 DEF Follows
  <2>2. \A k \in 0..t : k # 0 => k \in 1..t
    BY <1>1
  <2>3. \A k \in 0..t : u[k] = IF k = 0 THEN <<>> ELSE step(k, u[k - 1])
    BY Zenon, <1>6, <2>1, <2>2 DEF Follows
  <2> QED BY Zenon, <1>6, <2>3 DEF Follows
<1>8. Eq(f)
  <2> HIDE DEF Eq
  <2> QED BY Zenon, <1>7
<1>9. f[0] = <<>> /\ \A k \in 1..t : f[k] = step(k, f[k - 1])
  <2> HIDE DEF f
  <2>1. (\A k \in 1..t : k \in 0..t /\ k # 0) /\ 0 \in 0..t
    BY <1>1
  <2> QED BY Zenon, <1>8, <2>1
<1> HIDE DEF f
<1> DEFINE A == {k \in 0..t : Chosen(c, f[k], k)}
<1>10. 0 \in A
  <2>1. Len(<<>>) = 0 /\ 1..0 = {} /\ 0 \in 0..t
    OBVIOUS
  <2> QED BY Zenon, <1>1, <1>9, <2>1 DEF V, Chosen
<1>11. ASSUME NEW k \in (0 + 1)..t, k - 1 \in A PROVE k \in A
  <2> DEFINE s == f[k - 1]
             b == Best(c, {s[i] : i \in 1..(k - 1)})
             r == Append(s, b)
  <2>1. k \in 1..t /\ k \in 0..t /\ k \in Nat
    OBVIOUS
  <2>2. Chosen(c, s, k - 1)
    BY Zenon, <1>11
  <2>3. b \in Int
    BY Zenon, <1>2
  <2>4. f[k] = r
    BY Zenon, <1>9, <2>1 DEF step
  <2> HIDE DEF s, b
  <2>5. r \in V /\ Len(r) = k /\ r[k] = b /\ \A j \in 1..(k - 1) : r[j] = s[j]
    BY <2>1, <2>2, <2>3 DEF V, Chosen
  <2> HIDE DEF r
  <2>6. ASSUME NEW j \in 1..k PROVE r[j] = Best(c, {r[i] : i \in 1..(j - 1)})
    <3>1. \A i \in 1..(j - 1) : i \in 1..(k - 1)
      BY <2>1
    <3>2. {r[i] : i \in 1..(j - 1)} = {s[i] : i \in 1..(j - 1)}
      BY Zenon, <2>5, <3>1
    <3>3. j = k \/ j \in 1..(k - 1)
      BY <2>1
    <3> QED BY Zenon, <2>2, <2>5, <3>2, <3>3 DEF b, Chosen
  <2>7. Chosen(c, r, k)
    BY Zenon, <2>5, <2>6 DEF V, Chosen
  <2> QED BY Zenon, <2>1, <2>4, <2>7
<1>12. \A k \in 0..t : k \in A
  <2> HIDE DEF A
  <2> QED BY Zenon, <1>1, <1>10, <1>11, UpTo
<1> QED BY Zenon, <1>1, <1>4, <1>12


(* The experts that can be chosen, and those that go before one of them. *)
Real(c, n) == {e \in 0..(n - 1) : c[e] # NaN}
Before(c, n, e) == {f \in Real(c, n) : Precedes(c, f, e)}

(* The first slots hold some experts, and with each all that go before it. *)
Prefix(c, n, T, k) ==
  T \in SUBSET Real(c, n) /\ Cardinality(T) = k /\ \A e \in T : Before(c, n, e) \subseteq T

LEMMA RealFinite ==
  ASSUME NEW n \in Nat, NEW c
  PROVE  IsFiniteSet(Real(c, n)) /\ Cardinality(Real(c, n)) \in Nat
<1>1. IsFiniteSet(0..(n - 1))
  <2>1. 0 \in Int /\ n - 1 \in Int
    OBVIOUS
  <2> QED BY ONLY <2>1, FS_Interval
<1>2. Real(c, n) \in SUBSET (0..(n - 1))
  BY DEF Real
<1> QED BY Zenon, <1>1, <1>2, FS_Subset, FS_CardinalityType

(* One more expert is chosen. *)
LEMMA NextSlot ==
  ASSUME NEW n \in Nat, NEW c \in [0..(n - 1) -> Int], NEW T, NEW k \in Nat,
         k < Cardinality(Real(c, n)), Prefix(c, n, T, k), NEW b, b = Best(c, T)
  PROVE  b \in Real(c, n) /\ Before(c, n, b) = T /\ Prefix(c, n, T \cup {b}, k + 1)
<1> DEFINE R == Real(c, n)
<1>1. IsFiniteSet(R) /\ Cardinality(R) \in Nat
  BY Zenon, RealFinite
<1>2. IsFiniteSet(T) /\ T \in SUBSET R /\ Cardinality(T) = k
  BY Zenon, <1>1, FS_Subset DEF Prefix
<1>3. T # R
  BY <1>1, <1>2
<1>4. Left(c, T, n) = R \ T
  BY Zenon DEF Left, Real
<1>5. R \ T # {}
  BY Zenon, <1>2, <1>3
<1>6. b \in R /\ b \notin T /\ \A f \in (R \ T) \ {b} : Precedes(c, b, f)
  BY Zenon, <1>4, <1>5, BestIs DEF IsBest
<1>7. \A e \in R : e \in Int /\ c[e] \in Int
  BY DEF Real
<1> HIDE DEF R
<1>8. \A e, f \in R : e # f => (Precedes(c, e, f) <=> ~Precedes(c, f, e))
  BY <1>7 DEF Precedes
<1>9. \A e \in R : ~Precedes(c, e, e)
  BY <1>7 DEF Precedes
<1>10. Before(c, n, b) \subseteq T
  BY Zenon, <1>6, <1>8, <1>9 DEF Before, R
<1>11. ASSUME NEW e \in T PROVE e \in Before(c, n, b)
  <2>1. e \in R /\ e # b /\ Before(c, n, e) \subseteq T
    BY Zenon, <1>2, <1>6 DEF Prefix
  <2>2. ~Precedes(c, b, e)
    BY Zenon, <1>6, <2>1 DEF Before, R
  <2> QED BY Zenon, <1>6, <1>8, <2>1, <2>2 DEF Before, R
<1>12. Before(c, n, b) = T
  BY Zenon, <1>10, <1>11
<1>13. Cardinality(T \cup {b}) = k + 1
  BY Zenon, <1>2, <1>6, FS_AddElement
<1>14. \A e \in T \cup {b} : Before(c, n, e) \subseteq T \cup {b}
  BY Zenon, <1>12 DEF Prefix
<1> QED BY Zenon, <1>2, <1>6, <1>12, <1>13, <1>14 DEF Prefix, R

(* What a chosen slot is. *)
SlotOk(c, n, j, e) ==
  IF j > Cardinality(Real(c, n)) THEN e = NoBest
  ELSE e \in Real(c, n) /\ Cardinality(Before(c, n, e)) = j - 1

LEMMA Selection ==
  ASSUME NEW n \in Nat, NEW c \in [0..(n - 1) -> Int], NEW t \in Nat, NEW s, Chosen(c, s, t)
  PROVE  \A j \in 1..t : SlotOk(c, n, j, s[j])
<1> DEFINE R == Cardinality(Real(c, n))
           T(j) == {s[i] : i \in 1..j}
           A == {k \in 0..t : IF k <= R THEN Prefix(c, n, T(k), k) ELSE Real(c, n) \subseteq T(k)}
<1>1. R \in Nat /\ IsFiniteSet(Real(c, n)) /\ 0 \in Nat
  BY Zenon, RealFinite
<1>2. 0 \in A
  <2>1. T(0) = {} /\ 0 \in 0..t /\ 0 <= R
    BY <1>1
  <2> QED BY Zenon, <2>1, FS_EmptySet DEF Prefix
<1>3. ASSUME NEW k \in 1..t PROVE T(k) = T(k - 1) \cup {s[k]} /\ s[k] = Best(c, T(k - 1)) /\ k - 1 \in 0..t /\ k \in 0..t /\ k - 1 \in Nat
  <2>1. 1..k = (1..(k - 1)) \cup {k} /\ k - 1 \in 0..t /\ k \in 0..t /\ k - 1 \in Nat
    OBVIOUS
  <2>2. T(k) = T(k - 1) \cup {s[k]}
    BY Zenon, <2>1
  <2> QED BY Zenon, <2>1, <2>2 DEF Chosen
<1> HIDE DEF R, T
<1>4. ASSUME NEW k \in 1..t, k - 1 \in A, k <= R
      PROVE  s[k] \in Real(c, n) /\ Before(c, n, s[k]) = T(k - 1) /\ Prefix(c, n, T(k - 1), k - 1) /\ Prefix(c, n, T(k), k)
  <2>1. k - 1 < R /\ k - 1 <= R /\ (k - 1) + 1 = k
    BY <1>1, <1>4
  <2>2. Prefix(c, n, T(k - 1), k - 1)
    BY Zenon, <1>4, <2>1
  <2>3. k - 1 < Cardinality(Real(c, n)) /\ k - 1 \in Nat /\ s[k] = Best(c, T(k - 1))
    BY Zenon, <1>3, <2>1 DEF R
  <2>4. /\ s[k] \in Real(c, n) /\ Before(c, n, s[k]) = T(k - 1)
        /\ Prefix(c, n, T(k - 1) \cup {s[k]}, (k - 1) + 1)
    BY ONLY Zenon, n \in Nat, c \in [0..(n - 1) -> Int], <2>2, <2>3, NextSlot
  <2> QED BY Zenon, <1>3, <2>1, <2>2, <2>4
<1>5. ASSUME NEW k \in 1..t, k - 1 \in A, ~(k <= R) PROVE Real(c, n) \subseteq T(k - 1)
  <2>1. CASE k - 1 <= R
    <3>1. k - 1 = R
      BY <1>1, <1>5, <2>1
    <3>2. T(k - 1) \in SUBSET Real(c, n) /\ Cardinality(T(k - 1)) = R
      BY Zenon, <1>5, <2>1, <3>1 DEF Prefix
    <3> QED BY Zenon, <1>1, <3>2, FS_Subset DEF R
  <2> QED BY Zenon, <1>5, <2>1
<1>6. ASSUME NEW k \in (0 + 1)..t, k - 1 \in A PROVE k \in A
  <2>1. k \in 1..t
    OBVIOUS
  <2> QED BY Zenon, <1>3, <1>4, <1>5, <1>6, <2>1
<1>7. \A k \in 0..t : k \in A
  <2> HIDE DEF A
  <2> QED BY Zenon, <1>1, <1>2, <1>6, UpTo
<1> SUFFICES ASSUME NEW j \in 1..t PROVE SlotOk(c, n, j, s[j])
  BY Zenon
<1>8. j - 1 \in A /\ (j > R <=> ~(j <= R))
  <2>1. j - 1 \in 0..t /\ (j > R <=> ~(j <= R))
    BY <1>1
  <2> HIDE DEF A
  <2> QED BY Zenon, <1>7, <2>1
<1> HIDE DEF A
<1>9. CASE j <= R
  BY Zenon, <1>4, <1>8, <1>9 DEF SlotOk, Prefix, R
<1>10. CASE ~(j <= R)
  <2>1. Left(c, T(j - 1), n) = {}
    BY Zenon, <1>5, <1>8, <1>10 DEF Left, Real
  <2>2. s[j] = NoBest
    BY Zenon, <1>3, <2>1, BestIs DEF IsBest
  <2> QED BY Zenon, <1>8, <1>10, <2>2 DEF SlotOk, R
<1> QED BY Zenon, <1>9, <1>10


(* RouterStable, for every number of experts, of slots and of scores.      *)
THEOREM RouterAlwaysStable == KernelsSpec => []RouterStable
<1>1. KernelInv => RouterStable
  <2> DEFINE c == [e \in Iterations |-> y[e][1]]
             real == {e \in Iterations : job.score[e] # NaN}
             ch(e) == job.score[e] + job.bias[e]
             before(e) == {f \in real : ch(f) > ch(e) \/ (ch(f) = ch(e) /\ f < e)}
             idx == TopK(c, topk)
  <2>1. SUFFICES ASSUME KernelInv, job.kind = "router", Done, NEW j \in 1..topk
                 PROVE  IF j > Cardinality(real) THEN Selected[j].w = 0
                        ELSE /\ Selected[j].e \in real
                             /\ Cardinality(before(Selected[j].e)) = j - 1
                             /\ Selected[j].w = job.score[Selected[j].e]
    BY Zenon DEF RouterStable
  <2>2. RegionInv /\ RouterInv
    BY Zenon, <2>1 DEF KernelInv
  <2>3. Iterations = 0..(NExperts - 1) /\ Steps = 1
    BY Zenon, <2>1, <2>2, Kinds
  <2>4. /\ job.score \in [0..(NExperts - 1) -> {NaN} \cup 1..MaxScore]
        /\ job.bias \in [0..(NExperts - 1) -> {0, 1}]
    BY <2>1, <2>2 DEF RegionInv, RowJobs, RouterJobs, HeadJobs
  <2>5. NExperts \in Nat /\ topk \in Nat /\ MaxScore \in Nat
    BY KernelAssumption
  <2>6. ASSUME NEW e \in Iterations PROVE c[e] = Choice(e)
    <3>1. y[e] = <<Choice(e)>>
      BY Zenon, <2>1, <2>2, <2>3 DEF Done, RouterInv
    <3> QED BY <3>1
  <2> HIDE DEF c
  <2>7. ASSUME NEW e \in 0..(NExperts - 1)
        PROVE  /\ c[e] \in Int /\ (c[e] # NaN <=> job.score[e] # NaN)
               /\ job.score[e] # NaN => c[e] = ch(e)
    <3>1. c[e] = Choice(e)
      BY Zenon, <2>3, <2>6
    <3>2. job.score[e] \in {NaN} \cup 1..MaxScore /\ job.bias[e] \in {0, 1}
      BY Zenon, <2>4
    <3> QED BY <2>5, <3>1, <3>2 DEF Choice, NaN
  <2>8. c \in [0..(NExperts - 1) -> Int]
    BY Zenon, <2>3, <2>7 DEF c
  <2>9. real = Real(c, NExperts)
    BY Zenon, <2>3, <2>7 DEF Real
  <2>10. ASSUME NEW e \in real PROVE before(e) = Before(c, NExperts, e)
    <3>1. \A f \in real : c[f] = ch(f)
      BY Zenon, <2>3, <2>7
    <3> HIDE DEF real, ch
    <3> QED BY Zenon, <2>9, <2>10, <3>1 DEF Before, Precedes
  <2> HIDE DEF real, before
  <2>11. SlotOk(c, NExperts, j, idx[j])
    <3>1. Chosen(c, idx, topk)
      BY Zenon, <2>5, <2>8, TopKIs
    <3> HIDE DEF idx
    <3> QED BY Zenon, <2>5, <2>8, <3>1, Selection
  <2>12. Selected[j] = IF idx[j] = NoBest THEN [e |-> 0, w |-> 0]
                       ELSE [e |-> idx[j], w |-> job.score[idx[j]]]
    BY Zenon DEF Selected, c
  <2> HIDE DEF idx
  <2>13. CASE j > Cardinality(real)
    <3>1. idx[j] = NoBest
      BY Zenon, <2>9, <2>11, <2>13 DEF SlotOk
    <3> QED BY <2>12, <2>13, <3>1
  <2>14. CASE ~(j > Cardinality(real))
    <3>1. idx[j] \in real /\ Cardinality(before(idx[j])) = j - 1
      BY Zenon, <2>9, <2>10, <2>11, <2>14 DEF SlotOk
    <3>2. idx[j] # NoBest
      BY <2>3, <2>5, <3>1 DEF real, NoBest
    <3>3. Selected[j].e = idx[j] /\ Selected[j].w = job.score[idx[j]]
      BY <2>12, <3>2
    <3> QED BY Zenon, <2>14, <3>1, <3>3
  <2> QED BY Zenon, <2>13, <2>14
<1> QED BY <1>1, KernelAlways, PTL


-----------------------------------------------------------------------------
(* The rows over the integers.                                             *)

(* s holds the sums of the first values of p. *)
Sums(s, p, n) == s \in [0..n -> Int] /\ s[0] = 0 /\ \A i \in 1..n : s[i] = s[i - 1] + p[i - 1]

LEMMA FourMore ==
  ASSUME NEW n \in Nat, NEW p \in [0..(n - 1) -> Int], NEW s, Sums(s, p, n),
         NEW m \in Nat, m + 4 <= n
  PROVE  s[m + 4] = s[m] + p[m] + p[m + 1] + p[m + 2] + p[m + 3] /\ s[m] \in Int /\ s[m + 4] \in Int
<1>1. m \in 0..n /\ m + 1 \in 1..n /\ m + 2 \in 1..n /\ m + 3 \in 1..n /\ m + 4 \in 1..n
  OBVIOUS
<1>2. /\ (m + 1) - 1 = m /\ (m + 2) - 1 = m + 1 /\ (m + 3) - 1 = m + 2 /\ (m + 4) - 1 = m + 3
      /\ m + 4 \in 0..n
  OBVIOUS
<1>3. /\ s[m + 1] = s[m] + p[m] /\ s[m + 2] = s[m + 1] + p[m + 1]
      /\ s[m + 3] = s[m + 2] + p[m + 2] /\ s[m + 4] = s[m + 3] + p[m + 3]
      /\ s[m] \in Int /\ s[m + 4] \in Int
  BY Zenon, <1>1, <1>2 DEF Sums
<1>4. p[m] \in Int /\ p[m + 1] \in Int /\ p[m + 2] \in Int /\ p[m + 3] \in Int
  OBVIOUS
<1> QED BY <1>3, <1>4

LEMMA EightMore ==
  ASSUME NEW n \in Nat, NEW p \in [0..(n - 1) -> Int], NEW s, Sums(s, p, n),
         NEW m \in Nat, m + 8 <= n
  PROVE  /\ s[m + 8] = s[m] + p[m] + p[m + 1] + p[m + 2] + p[m + 3]
                            + p[m + 4] + p[m + 5] + p[m + 6] + p[m + 7]
         /\ s[m] \in Int /\ s[m + 8] \in Int
<1> DEFINE k == m + 4
<1>1. k \in Nat /\ m + 4 <= n /\ k + 4 <= n
  OBVIOUS
<1>2. s[k] = s[m] + p[m] + p[m + 1] + p[m + 2] + p[m + 3] /\ s[m] \in Int /\ s[k] \in Int
  BY Zenon, <1>1, FourMore
<1> HIDE DEF k
<1>3. s[k + 4] = s[k] + p[k] + p[k + 1] + p[k + 2] + p[k + 3] /\ s[k + 4] \in Int
  BY Zenon, <1>1, FourMore
<1>4. k + 4 = m + 8 /\ k + 1 = m + 5 /\ k + 2 = m + 6 /\ k + 3 = m + 7 /\ k = m + 4
  BY DEF k
<1>5. s[m + 8] = s[k] + p[m + 4] + p[m + 5] + p[m + 6] + p[m + 7] /\ s[m + 8] \in Int
  BY Zenon, <1>3, <1>4
<1>6. /\ p[m] \in Int /\ p[m + 1] \in Int /\ p[m + 2] \in Int /\ p[m + 3] \in Int
      /\ p[m + 4] \in Int /\ p[m + 5] \in Int /\ p[m + 6] \in Int /\ p[m + 7] \in Int
  OBVIOUS
<1> QED BY <1>2, <1>5, <1>6

(* The products that accumulator l of a loop by `step' sums. *)
LaneSums(a, p, l, step, n) ==
  /\ a \in [0..(n \div step) -> Int] /\ a[0] = 0
  /\ \A b \in 1..(n \div step) : a[b] = p[(b - 1) * step + l] + a[b - 1]

LaneOk(a, w, x, p, l, step, n) ==
  LaneSums(a, p, l, step, n) /\ Lane(TRUE, w, x, l, step, n) = a[n \div step]

LEMMA LaneIs ==
  ASSUME NEW n \in Nat, NEW step \in {8, 16}, NEW l \in 0..(step - 1), NEW w, NEW x,
         NEW p \in [0..(n - 1) -> Int], \A i \in 0..(n - 1) : p[i] = w[i] * x[i]
  PROVE  \E a : LaneOk(a, w, x, p, l, step, n)
<1> DEFINE N1 == n \div step
           nx(k, a) == w[(k - 1) * step + l] * x[(k - 1) * step + l] + a
           g == [z \in ((0 + 1)..N1) \X Int |-> nx(z[1], z[2])]
           Eq(u) == u = [k \in 0..N1 |-> IF k = 0 THEN 0 ELSE nx(k, u[k - 1])]
           f == CHOOSE u : Eq(u)
<1>1. N1 \in Nat /\ 0 \in Nat /\ 0 <= N1 /\ 0 + 1 = 1 /\ 0 \in Int
  OBVIOUS
<1>2. ASSUME NEW k \in 1..N1 PROVE (k - 1) * step + l \in 0..(n - 1)
  <2>1. CASE step = 8
    BY <2>1
  <2>2. CASE step = 16
    BY <2>2
  <2> QED BY <2>1, <2>2
<1>3. ASSUME NEW k \in 1..N1, NEW a \in Int PROVE nx(k, a) \in Int /\ nx(k, a) = p[(k - 1) * step + l] + a
  <2> DEFINE i == (k - 1) * step + l
  <2>1. i \in 0..(n - 1)
    BY Zenon, <1>2
  <2> HIDE DEF i
  <2>2. w[i] * x[i] = p[i] /\ p[i] \in Int
    BY Zenon, <2>1
  <2>3. w[i] * x[i] + a \in Int
    BY <2>2
  <2> QED BY Zenon, <2>2, <2>3 DEF i
<1>4. Lane(TRUE, w, x, l, step, n) = f[N1]
  BY Zenon DEF Lane, Fma
<1> HIDE DEF nx, N1
<1>5. /\ g \in [((0 + 1)..N1) \X Int -> Int]
      /\ \A k \in 1..N1, a \in Int : g[<<k, a>>] = nx(k, a)
  BY Zenon, <1>1, <1>3
<1> HIDE DEF g
<1>6. PICK u : Follows(u, 0, N1, Int, 0, g)
  BY Zenon, <1>1, <1>5, Recursion
<1>7. Eq(u)
  <2>1. ASSUME NEW k \in 1..N1 PROVE u[k] = nx(k, u[k - 1])
    <3>1. k - 1 \in 0..N1
      BY <1>1
    <3>2. u[k - 1] \in Int
      BY Zenon, <1>6, <3>1 DEF Follows
    <3> QED BY Zenon, <1>1, <1>5, <1>6, <3>2 DEF Follows
  <2>2. \A k \in 0..N1 : k # 0 => k \in 1..N1
    BY <1>1
  <2>3. \A k \in 0..N1 : u[k] = IF k = 0 THEN 0 ELSE nx(k, u[k - 1])
    BY Zenon, <1>6, <2>1, <2>2 DEF Follows
  <2> QED BY Zenon, <1>6, <2>3 DEF Follows
<1>8. Eq(f)
  <2> HIDE DEF Eq
  <2> QED BY Zenon, <1>7
<1>9. f[0] = 0 /\ DOMAIN f = 0..N1 /\ \A k \in 1..N1 : f[k] = nx(k, f[k - 1])
  <2> HIDE DEF f
  <2>1. (\A k \in 1..N1 : k \in 0..N1 /\ k # 0) /\ 0 \in 0..N1
    BY <1>1
  <2> QED BY Zenon, <1>8, <2>1
<1>10. f = [k \in 0..N1 |-> f[k]]
  <2> HIDE DEF f
  <2> QED BY Zenon, <1>8
<1> HIDE DEF f
<1> DEFINE A == {k \in 0..N1 : f[k] \in Int}
<1>11. 0 \in A
  BY <1>1, <1>9
<1>12. ASSUME NEW k \in (0 + 1)..N1, k - 1 \in A PROVE k \in A
  <2>1. k \in 1..N1 /\ k \in 0..N1
    BY <1>1
  <2> QED BY Zenon, <1>3, <1>9, <1>12, <2>1
<1>13. \A k \in 0..N1 : k \in A
  <2> HIDE DEF A
  <2> QED BY Zenon, <1>1, <1>11, <1>12, UpTo
<1>14. f \in [0..N1 -> Int]
  BY Zenon, <1>10, <1>13
<1>15. ASSUME NEW k \in 1..N1 PROVE f[k] = p[(k - 1) * step + l] + f[k - 1]
  <2>1. k - 1 \in 0..N1
    BY <1>1
  <2>2. f[k - 1] \in Int
    BY Zenon, <1>13, <2>1
  <2> QED BY Zenon, <1>3, <1>9, <2>2
<1> QED BY Zenon, <1>4, <1>9, <1>14, <1>15 DEF LaneOk, LaneSums, N1


(* The loop over what is left of a row. *)
RestOk(w, x, acc, step, n, s) == Rest(TRUE, w, x, acc, step, n) = s[n]

LEMMA RestIs ==
  ASSUME NEW n \in Nat, NEW step \in {8, 16}, NEW w, NEW x,
         NEW p \in [0..(n - 1) -> Int], \A i \in 0..(n - 1) : p[i] = w[i] * x[i],
         NEW s, Sums(s, p, n), NEW acc, acc = s[step * (n \div step)]
  PROVE  RestOk(w, x, acc, step, n, s)
<1> DEFINE from == step * (n \div step)
           Eq(u) == u = [i \in from..n |-> IF i = from THEN acc ELSE w[i - 1] * x[i - 1] + u[i - 1]]
           f == CHOOSE u : Eq(u)
           v == [i \in from..n |-> s[i]]
<1>1. from \in Nat /\ from <= n
  <2>1. CASE step = 8
    BY <2>1
  <2>2. CASE step = 16
    BY <2>2
  <2> QED BY <2>1, <2>2
<1>2. Rest(TRUE, w, x, acc, step, n) = f[n]
  BY Zenon DEF Rest, Fma
<1>3. acc = s[from]
  BY Zenon
<1> HIDE DEF from
<1>4. ASSUME NEW i \in (from + 1)..n PROVE s[i] = w[i - 1] * x[i - 1] + s[i - 1]
  <2>1. i \in 1..n /\ i - 1 \in 0..(n - 1) /\ i - 1 \in 0..n
    BY <1>1
  <2>2. s[i] = s[i - 1] + p[i - 1] /\ p[i - 1] = w[i - 1] * x[i - 1]
    BY Zenon, <2>1 DEF Sums
  <2>3. s[i - 1] \in Int /\ p[i - 1] \in Int
    BY Zenon, <2>1 DEF Sums
  <2> DEFINE a == s[i - 1]
             q == p[i - 1]
  <2>4. a + q = q + a
    <3> HIDE DEF a, q
    <3>1. a \in Int /\ q \in Int
      BY Zenon, <2>3 DEF a, q
    <3> QED BY <3>1
  <2> QED BY Zenon, <2>2, <2>4
<1>5. Eq(v)
  <2>1. ASSUME NEW i \in from..n PROVE v[i] = IF i = from THEN acc ELSE w[i - 1] * x[i - 1] + v[i - 1]
    <3>1. i # from => i \in (from + 1)..n /\ i - 1 \in from..n
      BY <1>1
    <3> QED BY Zenon, <1>3, <1>4, <3>1
  <2> QED BY Zenon, <2>1
<1>6. Eq(f)
  <2> HIDE DEF Eq, v
  <2> QED BY Zenon, <1>5
<1> HIDE DEF f
<1>7. ASSUME NEW i \in from..n, i # from PROVE f[i] = w[i - 1] * x[i - 1] + f[i - 1]
  BY Zenon, <1>6, <1>7
<1> DEFINE A == {i \in from..n : f[i] = s[i]}
<1>8. from \in A
  <2>1. from \in from..n
    BY <1>1
  <2> QED BY Zenon, <1>3, <1>6, <2>1
<1>9. ASSUME NEW i \in (from + 1)..n, i - 1 \in A PROVE i \in A
  <2>1. i \in from..n /\ i # from
    BY <1>1
  <2>2. f[i - 1] = s[i - 1]
    BY Zenon, <1>9
  <2>3. f[i] = s[i]
    BY ONLY Zenon, i \in (from + 1)..n, <1>4, <1>7, <2>1, <2>2
  <2> QED BY Zenon, <2>1, <2>3
<1>10. \A i \in from..n : i \in A
  <2> HIDE DEF A
  <2> QED BY Zenon, <1>1, <1>8, <1>9, UpTo
<1>11. n \in from..n
  BY <1>1
<1> QED BY Zenon, <1>2, <1>10, <1>11 DEF RestOk

(* Eight accumulators hold what the blocks of eight so far sum to. *)
Eight(A, l, b) == A[l][b] + A[l + 1][b] + A[l + 2][b] + A[l + 3][b]
                  + A[l + 4][b] + A[l + 5][b] + A[l + 6][b] + A[l + 7][b]

EightGoOn(A, s, l, b, m) ==
  /\ Eight(A, l, b) = Eight(A, l, b - 1) + (s[m + 8] - s[m])
  /\ Eight(A, l, b) \in Int /\ Eight(A, l, b - 1) \in Int /\ s[m + 8] \in Int /\ s[m] \in Int

LEMMA EightLanes ==
  ASSUME NEW n \in Nat, NEW step \in {8, 16}, NEW p \in [0..(n - 1) -> Int], NEW A,
         \A l \in 0..(step - 1) : LaneSums(A[l], p, l, step, n),
         NEW s, Sums(s, p, n), NEW l \in 0..(step - 8), NEW b \in 1..(n \div step)
  PROVE  EightGoOn(A, s, l, b, (b - 1) * step + l)
<1> DEFINE m == (b - 1) * step + l
<1>1. m \in Nat /\ m + 8 <= n
  <2>1. CASE step = 8
    BY <2>1
  <2>2. CASE step = 16
    BY <2>2
  <2> QED BY <2>1, <2>2
<1>2. ASSUME NEW d \in 0..7
      PROVE  A[l + d][b] = p[m + d] + A[l + d][b - 1] /\ A[l + d][b] \in Int /\ A[l + d][b - 1] \in Int /\ p[m + d] \in Int
  <2>1. l + d \in 0..(step - 1) /\ b \in 0..(n \div step) /\ b - 1 \in 0..(n \div step)
    OBVIOUS
  <2>2. (b - 1) * step + (l + d) = m + d
    <3> DEFINE q == (b - 1) * step
    <3>1. q \in Int
      OBVIOUS
    <3> HIDE DEF q
    <3>2. q + (l + d) = (q + l) + d
      BY <3>1
    <3> QED BY Zenon, <3>2 DEF q
  <2>3. m + d \in 0..(n - 1)
    BY <1>1
  <2> HIDE DEF m
  <2>4. LaneSums(A[l + d], p, l + d, step, n)
    BY Zenon, <2>1
  <2> QED BY Zenon, <2>1, <2>2, <2>3, <2>4 DEF LaneSums
<1> HIDE DEF m
<1>3. /\ s[m + 8] = s[m] + p[m] + p[m + 1] + p[m + 2] + p[m + 3]
                            + p[m + 4] + p[m + 5] + p[m + 6] + p[m + 7]
      /\ s[m] \in Int /\ s[m + 8] \in Int
  BY Zenon, <1>1, EightMore
<1> DEFINE q(d) == p[m + d]
           C(d) == A[l + d][b - 1]
           q0 == q(0) q1 == q(1) q2 == q(2) q3 == q(3) q4 == q(4) q5 == q(5) q6 == q(6) q7 == q(7)
           c0 == C(0) c1 == C(1) c2 == C(2) c3 == C(3) c4 == C(4) c5 == C(5) c6 == C(6) c7 == C(7)
           t == s[m]
           more == t + q0 + q1 + q2 + q3 + q4 + q5 + q6 + q7
           old == c0 + c1 + c2 + c3 + c4 + c5 + c6 + c7
           new == (q0 + c0) + (q1 + c1) + (q2 + c2) + (q3 + c3)
                  + (q4 + c4) + (q5 + c5) + (q6 + c6) + (q7 + c7)
<1>4. \A d \in 0..7 : A[l + d][b] = q(d) + C(d) /\ q(d) \in Int /\ C(d) \in Int
  BY Zenon, <1>2
<1>5. /\ 0 \in 0..7 /\ 1 \in 0..7 /\ 2 \in 0..7 /\ 3 \in 0..7 /\ 4 \in 0..7 /\ 5 \in 0..7
      /\ 6 \in 0..7 /\ 7 \in 0..7 /\ l + 0 = l /\ m + 0 = m
  BY <1>1
<1> HIDE DEF q, C
<1>6. /\ A[l][b] = q0 + c0 /\ A[l + 1][b] = q1 + c1 /\ A[l + 2][b] = q2 + c2
      /\ A[l + 3][b] = q3 + c3 /\ A[l + 4][b] = q4 + c4 /\ A[l + 5][b] = q5 + c5
      /\ A[l + 6][b] = q6 + c6 /\ A[l + 7][b] = q7 + c7
  BY Zenon, <1>4, <1>5
<1>7. /\ q0 \in Int /\ q1 \in Int /\ q2 \in Int /\ q3 \in Int /\ q4 \in Int /\ q5 \in Int
      /\ q6 \in Int /\ q7 \in Int /\ c0 \in Int /\ c1 \in Int /\ c2 \in Int /\ c3 \in Int
      /\ c4 \in Int /\ c5 \in Int /\ c6 \in Int /\ c7 \in Int /\ t \in Int
  BY Zenon, <1>3, <1>4, <1>5
<1>8. Eight(A, l, b) = new
  BY Zenon, <1>6 DEF Eight
<1>9. Eight(A, l, b - 1) = old /\ s[m + 8] = more
  BY Zenon, <1>3, <1>5 DEF Eight, q, C
<1> HIDE DEF q0, q1, q2, q3, q4, q5, q6, q7, c0, c1, c2, c3, c4, c5, c6, c7, t
<1>10. new = old + (more - t) /\ new \in Int /\ old \in Int
  BY ONLY <1>7
<1> HIDE DEF new, old, more
<1> QED BY Zenon, <1>3, <1>8, <1>9, <1>10 DEF EightGoOn, m, t


LEMMA LanesAre ==
  ASSUME NEW n \in Nat, NEW step \in {8, 16}, NEW w, NEW x,
         NEW p \in [0..(n - 1) -> Int], \A i \in 0..(n - 1) : p[i] = w[i] * x[i]
  PROVE  \E A : \A l \in 0..(step - 1) : LaneOk(A[l], w, x, p, l, step, n)
<1> DEFINE A == [l \in 0..(step - 1) |-> CHOOSE a : LaneOk(a, w, x, p, l, step, n)]
<1>1. ASSUME NEW l \in 0..(step - 1) PROVE LaneOk(A[l], w, x, p, l, step, n)
  <2>1. \E a : LaneOk(a, w, x, p, l, step, n)
    BY Zenon, LaneIs
  <2> QED BY Zenon, <2>1
<1> HIDE DEF A
<1> QED BY Zenon, <1>1

LEMMA EightZero ==
  ASSUME NEW n \in Nat, NEW step \in {8, 16}, NEW p, NEW A,
         \A l \in 0..(step - 1) : LaneSums(A[l], p, l, step, n), NEW l \in 0..(step - 8)
  PROVE  Eight(A, l, 0) = 0
<1>1. ASSUME NEW d \in 0..7 PROVE A[l + d][0] = 0
  <2>1. l + d \in 0..(step - 1)
    OBVIOUS
  <2> QED BY Zenon, <2>1 DEF LaneSums
<1>2. /\ 0 \in 0..7 /\ 1 \in 0..7 /\ 2 \in 0..7 /\ 3 \in 0..7 /\ 4 \in 0..7 /\ 5 \in 0..7
      /\ 6 \in 0..7 /\ 7 \in 0..7 /\ l + 0 = l
  OBVIOUS
<1>3. Eight(A, l, 0) = 0 + 0 + 0 + 0 + 0 + 0 + 0 + 0
  BY Zenon, <1>1, <1>2 DEF Eight
<1> QED BY ONLY <1>3

(* What the accumulators hold together after b blocks. *)
LEMMA BlocksOfEight ==
  ASSUME NEW n \in Nat, NEW p \in [0..(n - 1) -> Int], NEW A,
         \A l \in 0..(8 - 1) : LaneSums(A[l], p, l, 8, n), NEW s, Sums(s, p, n)
  PROVE  s[8 * (n \div 8)] = Eight(A, 0, n \div 8) /\ Eight(A, 0, n \div 8) \in Int
<1> DEFINE to == n \div 8
           B == {b \in 0..to : s[8 * b] = Eight(A, 0, b) /\ Eight(A, 0, b) \in Int}
<1>1. to \in Nat /\ 0 \in Nat /\ 8 \in {8, 16} /\ 0 \in 0..(8 - 8) /\ 8 * 0 = 0 /\ 0 \in 0..to /\ 0 \in Int /\ to \in 0..to
  OBVIOUS
<1>2. 0 \in B
  <2>1. Eight(A, 0, 0) = 0
    BY ONLY Zenon, n \in Nat, \A l \in 0..(8 - 1) : LaneSums(A[l], p, l, 8, n), <1>1, EightZero
  <2> QED BY Zenon, <1>1, <2>1 DEF Sums
<1>3. ASSUME NEW b \in (0 + 1)..to, b - 1 \in B PROVE b \in B
  <2> DEFINE m == (b - 1) * 8 + 0
  <2>1. b \in 1..(n \div 8) /\ b \in 0..to /\ m + 8 = 8 * b /\ m = 8 * (b - 1)
    OBVIOUS
  <2>2. EightGoOn(A, s, 0, b, m)
    BY Zenon, <1>1, <2>1, EightLanes
  <2>3. s[m] = Eight(A, 0, b - 1)
    BY Zenon, <1>3, <2>1
  <2> HIDE DEF m
  <2>4. Eight(A, 0, b) = s[m + 8]
    BY ONLY <2>2, <2>3 DEF EightGoOn
  <2> QED BY Zenon, <2>1, <2>2, <2>4 DEF EightGoOn
<1>4. \A b \in 0..to : b \in B
  <2> HIDE DEF B, to
  <2> QED BY Zenon, <1>1, <1>2, <1>3, UpTo
<1> QED BY Zenon, <1>1, <1>4

LEMMA BlocksOfSixteen ==
  ASSUME NEW n \in Nat, NEW p \in [0..(n - 1) -> Int], NEW A,
         \A l \in 0..(16 - 1) : LaneSums(A[l], p, l, 16, n), NEW s, Sums(s, p, n)
  PROVE  /\ s[16 * (n \div 16)] = Eight(A, 0, n \div 16) + Eight(A, 8, n \div 16)
         /\ Eight(A, 0, n \div 16) \in Int /\ Eight(A, 8, n \div 16) \in Int
<1> DEFINE to == n \div 16
           lo(b) == Eight(A, 0, b)
           hi(b) == Eight(A, 8, b)
           B == {b \in 0..to : s[16 * b] = lo(b) + hi(b) /\ lo(b) \in Int /\ hi(b) \in Int}
<1>1. /\ to \in Nat /\ 0 \in Nat /\ 16 \in {8, 16} /\ 0 \in 0..(16 - 8) /\ 8 \in 0..(16 - 8)
      /\ 16 * 0 = 0 /\ 0 \in 0..to /\ 0 \in Int /\ to \in 0..to /\ 0 + 0 = 0
  OBVIOUS
<1>2. 0 \in B
  <2>1. lo(0) = 0 /\ hi(0) = 0
    BY ONLY Zenon, n \in Nat, \A l \in 0..(16 - 1) : LaneSums(A[l], p, l, 16, n), <1>1, EightZero
  <2> QED BY Zenon, <1>1, <2>1 DEF Sums
<1>3. ASSUME NEW b \in (0 + 1)..to, b - 1 \in B PROVE b \in B
  <2> DEFINE m == (b - 1) * 16 + 0
             k == (b - 1) * 16 + 8
  <2>1. b \in 1..(n \div 16) /\ b \in 0..to /\ m = 16 * (b - 1) /\ k = m + 8 /\ k + 8 = 16 * b
    OBVIOUS
  <2>2. EightGoOn(A, s, 0, b, m) /\ EightGoOn(A, s, 8, b, k)
    BY Zenon, <1>1, <2>1, EightLanes
  <2> DEFINE l1 == lo(b)
             l0 == lo(b - 1)
             h1 == hi(b)
             h0 == hi(b - 1)
             s0 == s[m]
             s1 == s[m + 8]
             s2 == s[k + 8]
  <2>3. s0 = l0 + h0 /\ s[k] = s1
    BY Zenon, <1>3, <2>1
  <2> HIDE DEF m, k
  <2>4. /\ l1 = l0 + (s1 - s0) /\ h1 = h0 + (s2 - s1)
        /\ l1 \in Int /\ l0 \in Int /\ h1 \in Int /\ h0 \in Int /\ s0 \in Int /\ s1 \in Int /\ s2 \in Int
    BY Zenon, <2>2, <2>3 DEF EightGoOn
  <2> HIDE DEF l1, l0, h1, h0, s0, s1, s2
  <2>5. s2 = l1 + h1
    BY ONLY <2>3, <2>4
  <2> QED BY Zenon, <2>1, <2>4, <2>5 DEF l1, h1, s2
<1>4. \A b \in 0..to : b \in B
  <2> HIDE DEF B, to
  <2> QED BY Zenon, <1>1, <1>2, <1>3, UpTo
<1> QED BY Zenon, <1>1, <1>4


(* One group of an MXFP4 row. *)
GroupOk(w, x, n, s) == mx_group(TRUE, w, x, n) = s[n]

LEMMA GroupIs ==
  ASSUME NEW n \in Nat, NEW w, NEW x,
         NEW p \in [0..(n - 1) -> Int], \A i \in 0..(n - 1) : p[i] = w[i] * x[i],
         NEW s, Sums(s, p, n)
  PROVE  GroupOk(w, x, n, s)
<1> DEFINE to == n \div 8
           lane(l) == Lane(TRUE, w, x, l, 8, n)
           acc == Sum4(TRUE, [j \in 0..3 |-> Add(TRUE, lane(j), lane(j + 4))])
<1>1. 8 \in {8, 16} /\ to \in 0..to
  OBVIOUS
<1>2. PICK A : \A l \in 0..(8 - 1) : LaneOk(A[l], w, x, p, l, 8, n)
  BY Zenon, <1>1, LanesAre
<1> DEFINE a0 == A[0][to] a1 == A[1][to] a2 == A[2][to] a3 == A[3][to]
           a4 == A[4][to] a5 == A[5][to] a6 == A[6][to] a7 == A[7][to]
<1>3. \A l \in 0..(8 - 1) : lane(l) = A[l][to] /\ A[l][to] \in Int /\ LaneSums(A[l], p, l, 8, n)
  BY Zenon, <1>1, <1>2 DEF LaneOk, LaneSums
<1>4. /\ 0 \in 0..(8 - 1) /\ 1 \in 0..(8 - 1) /\ 2 \in 0..(8 - 1) /\ 3 \in 0..(8 - 1)
      /\ 4 \in 0..(8 - 1) /\ 5 \in 0..(8 - 1) /\ 6 \in 0..(8 - 1) /\ 7 \in 0..(8 - 1)
      /\ 0 \in 0..3 /\ 1 \in 0..3 /\ 2 \in 0..3 /\ 3 \in 0..3
      /\ 0 + 1 = 1 /\ 0 + 2 = 2 /\ 0 + 3 = 3 /\ 0 + 4 = 4 /\ 0 + 5 = 5 /\ 0 + 6 = 6 /\ 0 + 7 = 7
      /\ 1 + 4 = 5 /\ 2 + 4 = 6 /\ 3 + 4 = 7
  OBVIOUS
<1>5. acc = ((lane(0) + lane(4)) + (lane(1) + lane(5))) + ((lane(2) + lane(6)) + (lane(3) + lane(7)))
  <2> HIDE DEF lane
  <2> QED BY Zenon, <1>4 DEF Sum4, Add
<1>6. acc = ((a0 + a4) + (a1 + a5)) + ((a2 + a6) + (a3 + a7))
  <2> HIDE DEF lane, acc
  <2> QED BY Zenon, <1>3, <1>4, <1>5
<1>7. Eight(A, 0, to) = a0 + a1 + a2 + a3 + a4 + a5 + a6 + a7
  BY Zenon, <1>4 DEF Eight
<1>8. /\ a0 \in Int /\ a1 \in Int /\ a2 \in Int /\ a3 \in Int
      /\ a4 \in Int /\ a5 \in Int /\ a6 \in Int /\ a7 \in Int
  BY Zenon, <1>3, <1>4
<1>9. s[8 * to] = Eight(A, 0, to)
  BY Zenon, <1>3, BlocksOfEight
<1>10. mx_group(TRUE, w, x, n) = Rest(TRUE, w, x, acc, 8, n)
  BY Zenon DEF mx_group
<1> HIDE DEF acc, a0, a1, a2, a3, a4, a5, a6, a7
<1>11. acc = Eight(A, 0, to)
  BY ONLY <1>6, <1>7, <1>8
<1>12. acc = s[8 * (n \div 8)]
  BY Zenon, <1>9, <1>11
<1>13. RestOk(w, x, acc, 8, n, s)
  BY Zenon, <1>1, <1>12, RestIs
<1> QED BY Zenon, <1>10, <1>13 DEF RestOk, GroupOk

(* A row of numbers. *)
MatmulOk(w, x, n, s) == matmul(TRUE, w, x, n) = s[n]

LEMMA MatmulIs ==
  ASSUME NEW n \in Nat, NEW w, NEW x,
         NEW p \in [0..(n - 1) -> Int], \A i \in 0..(n - 1) : p[i] = w[i] * x[i],
         NEW s, Sums(s, p, n)
  PROVE  MatmulOk(w, x, n, s)
<1> DEFINE to == n \div 16
           lane(l) == Lane(TRUE, w, x, l, 16, n)
           acc == Sum4(TRUE, [j \in 0..3 |-> Add(TRUE, Add(TRUE, lane(j), lane(j + 4)),
                                                       Add(TRUE, lane(j + 8), lane(j + 12)))])
<1>1. 16 \in {8, 16} /\ to \in 0..to
  OBVIOUS
<1>2. PICK A : \A l \in 0..(16 - 1) : LaneOk(A[l], w, x, p, l, 16, n)
  BY Zenon, <1>1, LanesAre
<1> DEFINE a0 == A[0][to] a1 == A[1][to] a2 == A[2][to] a3 == A[3][to]
           a4 == A[4][to] a5 == A[5][to] a6 == A[6][to] a7 == A[7][to]
           b0 == A[8][to] b1 == A[9][to] b2 == A[10][to] b3 == A[11][to]
           b4 == A[12][to] b5 == A[13][to] b6 == A[14][to] b7 == A[15][to]
<1>3. \A l \in 0..(16 - 1) : lane(l) = A[l][to] /\ A[l][to] \in Int /\ LaneSums(A[l], p, l, 16, n)
  BY Zenon, <1>1, <1>2 DEF LaneOk, LaneSums
<1>4. /\ 0 \in 0..(16 - 1) /\ 1 \in 0..(16 - 1) /\ 2 \in 0..(16 - 1) /\ 3 \in 0..(16 - 1)
      /\ 4 \in 0..(16 - 1) /\ 5 \in 0..(16 - 1) /\ 6 \in 0..(16 - 1) /\ 7 \in 0..(16 - 1)
      /\ 8 \in 0..(16 - 1) /\ 9 \in 0..(16 - 1) /\ 10 \in 0..(16 - 1) /\ 11 \in 0..(16 - 1)
      /\ 12 \in 0..(16 - 1) /\ 13 \in 0..(16 - 1) /\ 14 \in 0..(16 - 1) /\ 15 \in 0..(16 - 1)
      /\ 0 \in 0..3 /\ 1 \in 0..3 /\ 2 \in 0..3 /\ 3 \in 0..3
  OBVIOUS
<1>5. /\ 0 + 1 = 1 /\ 0 + 2 = 2 /\ 0 + 3 = 3 /\ 0 + 4 = 4 /\ 0 + 5 = 5 /\ 0 + 6 = 6 /\ 0 + 7 = 7
      /\ 8 + 1 = 9 /\ 8 + 2 = 10 /\ 8 + 3 = 11 /\ 8 + 4 = 12 /\ 8 + 5 = 13 /\ 8 + 6 = 14 /\ 8 + 7 = 15
      /\ 1 + 4 = 5 /\ 2 + 4 = 6 /\ 3 + 4 = 7 /\ 0 + 8 = 8 /\ 1 + 8 = 9 /\ 2 + 8 = 10 /\ 3 + 8 = 11
      /\ 0 + 12 = 12 /\ 1 + 12 = 13 /\ 2 + 12 = 14 /\ 3 + 12 = 15
  OBVIOUS
<1>6. acc = (((lane(0) + lane(4)) + (lane(8) + lane(12))) + ((lane(1) + lane(5)) + (lane(9) + lane(13))))
            + (((lane(2) + lane(6)) + (lane(10) + lane(14))) + ((lane(3) + lane(7)) + (lane(11) + lane(15))))
  <2> HIDE DEF lane
  <2> QED BY Zenon, <1>4, <1>5 DEF Sum4, Add
<1>7. acc = (((a0 + a4) + (b0 + b4)) + ((a1 + a5) + (b1 + b5)))
            + (((a2 + a6) + (b2 + b6)) + ((a3 + a7) + (b3 + b7)))
  <2> HIDE DEF lane, acc
  <2> QED BY Zenon, <1>3, <1>4, <1>6
<1>8. /\ Eight(A, 0, to) = a0 + a1 + a2 + a3 + a4 + a5 + a6 + a7
      /\ Eight(A, 8, to) = b0 + b1 + b2 + b3 + b4 + b5 + b6 + b7
  BY Zenon, <1>5 DEF Eight
<1>9. /\ a0 \in Int /\ a1 \in Int /\ a2 \in Int /\ a3 \in Int
      /\ a4 \in Int /\ a5 \in Int /\ a6 \in Int /\ a7 \in Int
      /\ b0 \in Int /\ b1 \in Int /\ b2 \in Int /\ b3 \in Int
      /\ b4 \in Int /\ b5 \in Int /\ b6 \in Int /\ b7 \in Int
  BY Zenon, <1>3, <1>4
<1>10. s[16 * to] = Eight(A, 0, to) + Eight(A, 8, to)
  BY Zenon, <1>3, BlocksOfSixteen
<1>11. matmul(TRUE, w, x, n) = Rest(TRUE, w, x, acc, 16, n)
  BY Zenon DEF matmul
<1> HIDE DEF acc, a0, a1, a2, a3, a4, a5, a6, a7, b0, b1, b2, b3, b4, b5, b6, b7
<1>12. acc = Eight(A, 0, to) + Eight(A, 8, to)
  BY ONLY <1>7, <1>8, <1>9
<1>13. acc = s[16 * (n \div 16)]
  BY Zenon, <1>10, <1>12
<1>14. RestOk(w, x, acc, 16, n, s)
  BY Zenon, <1>1, <1>13, RestIs
<1> QED BY Zenon, <1>11, <1>14 DEF RestOk, MatmulOk


LEMMA SumsExist ==
  ASSUME NEW n \in Nat, NEW p \in [0..(n - 1) -> Int]
  PROVE  \E s : Sums(s, p, n)
<1> DEFINE g == [z \in ((0 + 1)..n) \X Int |-> z[2] + p[z[1] - 1]]
<1>1. 0 \in Nat /\ 0 <= n /\ 0 + 1 = 1 /\ 0 \in Int
  OBVIOUS
<1>2. ASSUME NEW k \in 1..n, NEW a \in Int PROVE a + p[k - 1] \in Int
  OBVIOUS
<1>3. /\ g \in [((0 + 1)..n) \X Int -> Int]
      /\ \A k \in 1..n, a \in Int : g[<<k, a>>] = a + p[k - 1]
  BY Zenon, <1>1, <1>2
<1> HIDE DEF g
<1>4. PICK s : Follows(s, 0, n, Int, 0, g)
  BY Zenon, <1>1, <1>3, Recursion
<1>5. ASSUME NEW k \in 1..n PROVE s[k] = s[k - 1] + p[k - 1]
  <2>1. k - 1 \in 0..n
    OBVIOUS
  <2>2. s[k - 1] \in Int
    BY Zenon, <1>4, <2>1 DEF Follows
  <2> QED BY Zenon, <1>1, <1>3, <1>4, <2>2 DEF Follows
<1>6. Sums(s, p, n)
  BY Zenon, <1>4, <1>5 DEF Sums, Follows
<1> QED BY Zenon, <1>6

-----------------------------------------------------------------------------
(* An MXFP4 row: the value of a code, and what a scale multiplies by.      *)
LEMMA CodeInt ==
  ASSUME NEW byte \in 0..255
  PROVE  /\ E2M1(byte % 16) \in Int /\ E2M1(byte \div 16) \in Int
         /\ PAIR(byte, 0) = E2M1(byte % 16) /\ PAIR(byte, 1) = E2M1(byte \div 16)
<1>1. ASSUME NEW c \in 0..15 PROVE E2M1(c) \in Int
  <2> DEFINE m == <<0, 1, 2, 3, 4, 6, 8, 12>>[(c % 8) + 1]
  <2>1. (c % 8) + 1 \in 1..8
    OBVIOUS
  <2>2. m \in Int
    BY <2>1
  <2> HIDE DEF m
  <2>3. -m \in Int
    BY <2>2
  <2> QED BY Zenon, <2>2, <2>3 DEF E2M1, m
<1>2. byte % 16 \in 0..15 /\ byte \div 16 \in 0..15 /\ 0 # 1
  OBVIOUS
<1> QED BY Zenon, <1>1, <1>2 DEF PAIR

Factor(b) == IF b = 255 THEN 0 ELSE 2^(b - 127)

(* A packed row, its scales and an input, as far as they need be known. *)
PackedRow(pr, sr, x, n) ==
  /\ n \in Nat /\ n % 2 = 0
  /\ \A j \in 0..((n \div 2) - 1) : pr[j] \in 0..255
  /\ \A g \in 0..(n \div 32) : sr[g] \in 127..255
  /\ \A i \in 0..(n - 1) : x[i] \in Int

(* Element 32 g + j, as the group that holds it unpacks it. *)
Unpack(pr, g, j) == PAIR(pr[g * (32 \div 2) + (j \div 2)], j % 2)

Unpacked(pr, sr, x, g, j) ==
  /\ mxfp4_dequant(pr, sr, 32 * g + j, 32) = Unpack(pr, g, j) * Factor(sr[g])
  /\ Unpack(pr, g, j) \in Int /\ Factor(sr[g]) \in Int /\ x[32 * g + j] \in Int

LEMMA UnpackIs ==
  ASSUME NEW pr, NEW sr, NEW x, NEW n, PackedRow(pr, sr, x, n), NEW g \in Nat, NEW j \in 0..31, 32 * g + j < n
  PROVE  Unpacked(pr, sr, x, g, j)
<1> DEFINE i == 32 * g + j
           k == g * (32 \div 2) + (j \div 2)
<1>1. n \in Nat /\ n % 2 = 0
  BY Zenon DEF PackedRow
<1>2. /\ i \in 0..(n - 1) /\ k \in 0..((n \div 2) - 1) /\ g \in 0..(n \div 32)
      /\ i \div 2 = k /\ i % 2 = j % 2 /\ i \div 32 = g /\ j % 2 \in {0, 1} /\ 0 # 1
  BY <1>1
<1> HIDE DEF i, k
<1>3. pr[k] \in 0..255 /\ sr[g] \in 127..255 /\ x[i] \in Int
  BY Zenon, <1>2 DEF PackedRow
<1> DEFINE byte == pr[k]
           b == sr[g]
           e == PAIR(byte, j % 2)
<1>4. /\ E2M1(byte % 16) \in Int /\ E2M1(byte \div 16) \in Int
      /\ PAIR(byte, 0) = E2M1(byte % 16) /\ PAIR(byte, 1) = E2M1(byte \div 16)
  BY Zenon, <1>3, CodeInt
<1>5. Factor(b) \in Int
  <2> HIDE DEF b
  <2>1. b \in 127..255
    BY Zenon, <1>3 DEF b
  <2>2. b - 127 \in Nat /\ 0 \in Int
    BY <2>1
  <2> DEFINE d == b - 127
  <2> HIDE DEF d
  <2>3. d \in Nat
    BY Zenon, <2>2 DEF d
  <2>4. 2^d \in Int
    BY <2>3
  <2> QED BY Zenon, <2>2, <2>4 DEF Factor, d
<1>6. e = E2M1(IF j % 2 = 1 THEN byte \div 16 ELSE byte % 16) /\ e \in Int
  BY Zenon, <1>2, <1>4
<1>7. mxfp4_dequant(pr, sr, i, 32) = E2M1(IF j % 2 = 1 THEN byte \div 16 ELSE byte % 16) * Factor(b)
  BY Zenon, <1>2 DEF mxfp4_dequant, Factor
<1> QED BY Zenon, <1>3, <1>5, <1>6, <1>7 DEF i, k, Unpacked, Unpack


LEMMA Distribute ==
  ASSUME NEW a \in Int, NEW f \in Int, NEW t \in Int, NEW e \in Int, NEW v \in Int
  PROVE  (a + f * t) + (e * f) * v = a + f * (t + e * v)
OBVIOUS

(* The products of a packed row, summed up to an element. *)
MxSums(s, pr, sr, x, n) ==
  /\ PackedRow(pr, sr, x, n) /\ s \in [0..n -> Int] /\ s[0] = 0
  /\ \A i \in 1..n : s[i] = s[i - 1] + mxfp4_dequant(pr, sr, i - 1, 32) * x[i - 1]

Size(n, g) == IF n - g * 32 > 32 THEN 32 ELSE n - g * 32

(* A group adds its scaled sum. *)
SubOk(s, pr, sr, x, n, g) ==
  LET sub == mx_sub(TRUE, FALSE, pr, x, n, 32, g)
  IN  s[32 * g + Size(n, g)] = s[32 * g] + Factor(sr[g]) * sub /\ sub \in Int /\ s[32 * g] \in Int

LEMMA SubIs ==
  ASSUME NEW pr, NEW sr, NEW x, NEW n, NEW s, MxSums(s, pr, sr, x, n), NEW g \in Nat, 32 * g < n
  PROVE  SubOk(s, pr, sr, x, n, g)
<1> DEFINE size == Size(n, g)
           wf == [j \in 0..(size - 1) |-> Num(TRUE, Unpack(pr, g, j))]
           xg == [j \in 0..(size - 1) |-> x[g * 32 + j]]
           p == [j \in 0..(size - 1) |-> wf[j] * xg[j]]
           sub == mx_sub(TRUE, FALSE, pr, x, n, 32, g)
           f == Factor(sr[g])
<1>1. PackedRow(pr, sr, x, n) /\ n \in Nat
  BY Zenon DEF MxSums, PackedRow
<1>2. size \in Nat /\ size <= 32 /\ 32 * g + size <= n /\ size \in 0..size /\ g * 32 = 32 * g /\ 32 * g \in 0..n /\ 0 < size
  BY <1>1 DEF Size
<1>3. sub = mx_group(TRUE, wf, xg, size)
  BY Zenon DEF mx_sub, Size, Unpack
<1> HIDE DEF size, sub
<1>4. ASSUME NEW j \in 0..(size - 1) PROVE Unpacked(pr, sr, x, g, j)
  <2>1. j \in 0..31 /\ 32 * g + j < n
    BY <1>1, <1>2
  <2> QED BY Zenon, <1>1, <2>1, UnpackIs
<1>5. ASSUME NEW j \in 0..(size - 1)
      PROVE  wf[j] = Unpack(pr, g, j) /\ xg[j] = x[32 * g + j] /\ wf[j] \in Int /\ xg[j] \in Int
  BY Zenon, <1>2, <1>4 DEF Unpacked, Num
<1> HIDE DEF wf, xg
<1>6. p \in [0..(size - 1) -> Int] /\ \A j \in 0..(size - 1) : p[j] = wf[j] * xg[j]
  <2>1. \A j \in 0..(size - 1) : wf[j] * xg[j] \in Int
    BY <1>5
  <2> QED BY Zenon, <2>1
<1> HIDE DEF p
<1>7. PICK t : Sums(t, p, size)
  BY Zenon, <1>2, <1>6, SumsExist
<1>8. sub = t[size]
  <2>1. GroupOk(wf, xg, size, t)
    BY Zenon, <1>2, <1>6, <1>7, GroupIs
  <2> QED BY Zenon, <1>3, <2>1 DEF GroupOk
<1>9. f \in Int
  <2>1. 0 \in 0..(size - 1)
    BY <1>2
  <2> QED BY Zenon, <1>4, <2>1 DEF Unpacked
<1>10. \A i \in 0..n : s[i] \in Int
  BY Zenon DEF MxSums
<1> HIDE DEF f
<1> DEFINE A == {j \in 0..size : s[32 * g + j] = s[32 * g] + f * t[j]}
<1>11. 0 \in A
  <2>1. 32 * g + 0 = 32 * g /\ 0 \in 0..size
    BY <1>2
  <2>2. t[0] = 0 /\ s[32 * g] \in Int
    BY Zenon, <1>2, <1>7, <1>10 DEF Sums
  <2>3. s[32 * g] = s[32 * g] + f * 0
    BY <1>9, <2>2
  <2> QED BY Zenon, <2>1, <2>2, <2>3
<1>12. ASSUME NEW j \in (0 + 1)..size, j - 1 \in A PROVE j \in A
  <2> DEFINE k == j - 1
             i == 32 * g + j
             e == Unpack(pr, g, k)
             v == x[32 * g + k]
             a == s[32 * g]
             b == t[k]
  <2>1. /\ k \in 0..(size - 1) /\ j \in 1..size /\ j \in 0..size /\ k \in 0..size /\ i \in 1..n
        /\ i - 1 = 32 * g + k
    BY <1>1, <1>2
  <2>2. s[32 * g + k] = a + f * b
    BY Zenon, <1>12
  <2>3. s[i] = s[32 * g + k] + mxfp4_dequant(pr, sr, 32 * g + k, 32) * v
    BY Zenon, <2>1 DEF MxSums
  <2>4. t[j] = b + p[k] /\ b \in Int
    BY Zenon, <1>7, <2>1 DEF Sums
  <2> HIDE DEF k
  <2>5. mxfp4_dequant(pr, sr, 32 * g + k, 32) = e * f /\ e \in Int /\ v \in Int
    BY Zenon, <1>4, <2>1 DEF Unpacked, f
  <2>6. p[k] = e * v
    BY Zenon, <1>5, <1>6, <2>1
  <2>7. a \in Int
    BY Zenon, <1>2, <1>10
  <2>8. s[i] = (a + f * b) + (e * f) * v
    BY Zenon, <2>2, <2>3, <2>5
  <2>9. t[j] = b + e * v
    BY Zenon, <2>4, <2>6
  <2> HIDE DEF a, b, e, v
  <2>10. (a + f * b) + (e * f) * v = a + f * (b + e * v)
    BY <1>9, <2>4, <2>5, <2>7, Distribute
  <2>11. s[i] = a + f * t[j]
    BY Zenon, <2>8, <2>9, <2>10
  <2> QED BY Zenon, <2>1, <2>11 DEF a
<1>13. \A j \in 0..size : j \in A
  <2>1. 0 \in Nat
    OBVIOUS
  <2> HIDE DEF A
  <2> QED BY Zenon, <1>2, <1>11, <1>12, <2>1, UpTo
<1>14. sub \in Int
  BY Zenon, <1>2, <1>7, <1>8 DEF Sums
<1>15. s[32 * g + size] = s[32 * g] + f * sub
  BY Zenon, <1>2, <1>8, <1>13
<1> QED BY Zenon, <1>2, <1>10, <1>14, <1>15 DEF SubOk, f, sub, size


(* An MXFP4 row is the sum of the products of its elements. *)
MxOk(pr, sr, x, n, s) == matmul_mxfp4(TRUE, FALSE, pr, sr, x, n, 32) = s[n]

LEMMA MxIs ==
  ASSUME NEW pr, NEW sr, NEW x, NEW n, NEW s, MxSums(s, pr, sr, x, n)
  PROVE  MxOk(pr, sr, x, n, s)
<1> DEFINE to == (n + 32 - 1) \div 32
           sub == [g \in 0..(to - 1) |-> mx_sub(TRUE, FALSE, pr, x, n, 32, g)]
           end(g) == IF 32 * g > n THEN n ELSE 32 * g
           next(g, a) == IF sr[g - 1] = 255 THEN a
                         ELSE Add(TRUE, a, Mul(TRUE, sub[g - 1], Num(TRUE, E8M0(sr[g - 1]))))
           Eq(u) == u = [g \in 0..to |-> IF g = 0 THEN 0 ELSE next(g, u[g - 1])]
           f == CHOOSE u : Eq(u)
           v == [g \in 0..to |-> s[end(g)]]
<1>1. PackedRow(pr, sr, x, n) /\ n \in Nat
  BY Zenon DEF MxSums, PackedRow
<1>2. to \in Nat /\ end(0) = 0 /\ end(to) = n /\ to \in 0..to /\ 0 \in 0..to /\ 0 \in Nat
  BY <1>1
<1>3. matmul_mxfp4(TRUE, FALSE, pr, sr, x, n, 32) = f[to]
  BY Zenon DEF matmul_mxfp4, mx_total
<1>4. s[0] = 0
  BY Zenon DEF MxSums
<1>5. ASSUME NEW g \in 1..to PROVE s[end(g)] = next(g, s[end(g - 1)])
  <2> DEFINE h == g - 1
             m == mx_sub(TRUE, FALSE, pr, x, n, 32, h)
             r == sr[h]
             a == s[32 * h]
  <2>1. /\ h \in Nat /\ 32 * h < n /\ end(h) = 32 * h /\ end(g) = 32 * h + Size(n, h)
        /\ h \in 0..(to - 1) /\ h \in 0..(n \div 32)
    BY <1>1 DEF Size
  <2>2. SubOk(s, pr, sr, x, n, h)
    BY Zenon, <2>1, SubIs
  <2>3. s[end(g)] = a + Factor(r) * m /\ m \in Int /\ a \in Int
    BY Zenon, <2>1, <2>2 DEF SubOk
  <2>4. r \in 127..255
    BY Zenon, <1>1, <2>1 DEF PackedRow
  <2>5. next(g, s[end(h)]) = IF r = 255 THEN a ELSE a + m * E8M0(r)
    BY Zenon, <2>1 DEF Add, Mul, Num
  <2> HIDE DEF a, m, r, next, end
  <2>6. CASE r = 255
    <3>1. Factor(r) = 0
      BY Zenon, <2>6 DEF Factor
    <3>2. a + 0 * m = a
      BY <2>3
    <3> QED BY Zenon, <2>3, <2>5, <2>6, <3>1, <3>2
  <2>7. CASE r # 255
    <3> DEFINE q == 2^(r - 127)
    <3>1. Factor(r) = q /\ E8M0(r) = q
      BY Zenon, <2>7 DEF Factor, E8M0
    <3>2. q \in Int
      <4> DEFINE d == r - 127
      <4>1. d \in Nat
        BY <2>4
      <4> HIDE DEF d
      <4>2. 2^d \in Int
        BY <4>1
      <4> QED BY Zenon, <4>2 DEF d
    <3> HIDE DEF q
    <3>3. q * m = m * q
      BY <2>3, <3>2
    <3> QED BY Zenon, <2>3, <2>5, <2>7, <3>1, <3>3
  <2> QED BY Zenon, <2>6, <2>7
<1> HIDE DEF next, end, to
<1>6. Eq(v)
  <2>1. ASSUME NEW g \in 0..to PROVE v[g] = IF g = 0 THEN 0 ELSE next(g, v[g - 1])
    <3>1. g # 0 => g \in 1..to /\ g - 1 \in 0..to
      BY <1>2
    <3> QED BY Zenon, <1>2, <1>4, <1>5, <3>1
  <2> QED BY Zenon, <2>1
<1>7. Eq(f)
  <2> HIDE DEF Eq, v
  <2> QED BY Zenon, <1>6
<1> HIDE DEF f
<1>8. f[0] = 0 /\ \A g \in 1..to : f[g] = next(g, f[g - 1])
  <2>1. \A g \in 1..to : g \in 0..to /\ g # 0
    BY <1>2
  <2> QED BY Zenon, <1>2, <1>7, <2>1
<1> HIDE DEF Eq
<1> DEFINE A == {g \in 0..to : f[g] = s[end(g)]}
<1>9. 0 \in A
  BY Zenon, <1>2, <1>4, <1>8
<1>10. ASSUME NEW g \in (0 + 1)..to, g - 1 \in A PROVE g \in A
  <2>1. g \in 1..to /\ g \in 0..to
    BY <1>2
  <2>2. f[g - 1] = s[end(g - 1)]
    BY Zenon, <1>10
  <2>3. f[g] = s[end(g)]
    BY ONLY Zenon, <1>5, <1>8, <2>1, <2>2
  <2> QED BY Zenon, <2>1, <2>3
<1>11. \A g \in 0..to : g \in A
  <2> HIDE DEF A
  <2> QED BY Zenon, <1>2, <1>9, <1>10, UpTo
<1> QED BY Zenon, <1>2, <1>3, <1>11 DEF MxOk


-----------------------------------------------------------------------------
(* The rows of the model.                                                  *)
Elem(kern, o, n, i) == IF kern \in {"mx", "mx_avx2"}
                       THEN mxfp4_dequant(Packed(o, n), Scales(o, n), i, Group) ELSE W16(o, i)

LEMMA WeightsInt ==
  ASSUME NEW o \in Nat, NEW i \in Nat
  PROVE  X(i) \in Int /\ W16(o, i) \in Int /\ Byte(o, i) \in 0..255 /\ Scale(o, i) \in 127..255
<1>1. X(i) \in Int
  <2> DEFINE q == i * i + 3 * i
  <2>1. q \in Int
    OBVIOUS
  <2> HIDE DEF q
  <2>2. (q % 11) + 1 \in Int
    BY <2>1
  <2> QED BY Zenon, <2>2 DEF X, q
<1>2. W16(o, i) \in Int
  <2> DEFINE c == Code(o, i)
             q == c * 2^16
  <2>1. c \in Int
    BY DEF Code
  <2> HIDE DEF c
  <2>2. q \in Int
    BY <2>1
  <2> HIDE DEF q
  <2>3. q % P \in Int
    BY <2>2 DEF P
  <2> QED BY Zenon, <2>3 DEF W16, bf16f, c, q
<1>3. Byte(o, i) \in 0..255
  BY DEF Byte
<1>4. Scale(o, i) \in 127..255
  <2> DEFINE k == ((o + i) % 3) + 1
  <2>1. k \in 1..3
    OBVIOUS
  <2> HIDE DEF k
  <2>2. <<128, 255, 127>>[k] \in 127..255
    BY <2>1
  <2> QED BY Zenon, <2>2 DEF Scale, k
<1> QED BY Zenon, <1>1, <1>2, <1>3, <1>4

LEMMA RowPacked ==
  ASSUME NEW o \in Nat, NEW n \in Nat, n % 2 = 0
  PROVE  PackedRow(Packed(o, n), Scales(o, n), [i \in 0..(n - 1) |-> X(i)], n)
<1>1. \A j \in 0..((n \div 2) - 1) : j \in Nat /\ Packed(o, n)[j] = Byte(o, j)
  BY DEF Packed
<1>2. \A g \in 0..(n \div 32) : g \in Nat /\ Scales(o, n)[g] = Scale(o, g)
  BY DEF Scales, Group
<1>3. \A i \in 0..(n - 1) : i \in Nat
  OBVIOUS
<1> DEFINE x == [i \in 0..(n - 1) |-> X(i)]
<1>4. \A i \in Nat : X(i) \in Int /\ Byte(o, i) \in 0..255 /\ Scale(o, i) \in 127..255
  BY Zenon, WeightsInt
<1>5. \A j \in 0..((n \div 2) - 1) : Packed(o, n)[j] \in 0..255
  BY Zenon, <1>1, <1>4
<1>6. \A g \in 0..(n \div 32) : Scales(o, n)[g] \in 127..255
  BY Zenon, <1>2, <1>4
<1>7. \A i \in 0..(n - 1) : x[i] \in Int
  BY Zenon, <1>3, <1>4
<1> HIDE DEF x
<1>8. PackedRow(Packed(o, n), Scales(o, n), x, n)
  BY Zenon, <1>5, <1>6, <1>7 DEF PackedRow
<1> QED BY Zenon, <1>8 DEF x

LEMMA ElemInt ==
  ASSUME NEW kern \in RowKernels, NEW o \in Nat, NEW n \in Nat,
         kern \in {"mx", "mx_avx2"} => n % 2 = 0, NEW i \in 0..(n - 1)
  PROVE  Elem(kern, o, n, i) * X(i) \in Int
<1>1. i \in Nat
  OBVIOUS
<1>2. X(i) \in Int /\ W16(o, i) \in Int
  BY Zenon, <1>1, WeightsInt
<1>3. Elem(kern, o, n, i) \in Int
  <2>1. CASE kern \in {"mx", "mx_avx2"}
    <3> DEFINE g == i \div 32
               j == i % 32
               pr == Packed(o, n)
               sr == Scales(o, n)
               x == [k \in 0..(n - 1) |-> X(k)]
    <3>1. g \in Nat /\ j \in 0..31 /\ 32 * g + j = i /\ 32 * g + j < n
      OBVIOUS
    <3>2. PackedRow(pr, sr, x, n)
      BY Zenon, <2>1, RowPacked
    <3> HIDE DEF pr, sr, x, g, j
    <3>3. Unpacked(pr, sr, x, g, j)
      BY Zenon, <3>1, <3>2, UnpackIs
    <3> DEFINE u == Unpack(pr, g, j)
               f == Factor(sr[g])
    <3>4. mxfp4_dequant(pr, sr, i, 32) = u * f /\ u \in Int /\ f \in Int
      BY Zenon, <3>1, <3>3 DEF Unpacked
    <3> HIDE DEF u, f
    <3>5. u * f \in Int
      BY <3>4
    <3> QED BY Zenon, <2>1, <3>4, <3>5 DEF Elem, Group, pr, sr
  <2> QED BY Zenon, <1>2, <2>1 DEF Elem
<1> DEFINE a == Elem(kern, o, n, i)
           b == X(i)
<1> HIDE DEF a, b
<1>4. a \in Int /\ b \in Int
  BY Zenon, <1>2, <1>3 DEF a, b
<1>5. a * b \in Int
  BY <1>4
<1> QED BY Zenon, <1>5 DEF a, b

(* Whatever kernel, a row comes out as the sum of the products. *)
RowSums(s, kern, o, n) ==
  /\ s \in [0..n -> Int] /\ s[0] = 0
  /\ \A i \in 1..n : s[i] = s[i - 1] + Elem(kern, o, n, i - 1) * X(i - 1)

RowOk(kern, o, n, s) == Row(kern, TRUE, o, n) = s[n]

LEMMA RowIs ==
  ASSUME NEW kern \in RowKernels, NEW o \in Nat, NEW n \in Nat,
         kern \in {"mx", "mx_avx2"} => n % 2 = 0, NEW s, RowSums(s, kern, o, n)
  PROVE  RowOk(kern, o, n, s)
<1> DEFINE w == [i \in 0..(n - 1) |-> W16(o, i)]
           x == [i \in 0..(n - 1) |-> X(i)]
           pr == Packed(o, n)
           sr == Scales(o, n)
<1>1. \A i \in 1..n : i - 1 \in 0..(n - 1)
  OBVIOUS
<1>2. Row(kern, TRUE, o, n) = Row(Portable(kern), TRUE, o, n)
  BY Zenon, RowsAgree DEF Agree
<1>3. CASE kern \in {"mx", "mx_avx2"}
  <2>1. PackedRow(pr, sr, x, n)
    BY Zenon, <1>3, RowPacked
  <2>2. ASSUME NEW i \in 1..n
        PROVE  s[i] = s[i - 1] + mxfp4_dequant(pr, sr, i - 1, 32) * x[i - 1]
    BY Zenon, <1>1, <1>3 DEF RowSums, Elem, Group
  <2>3. Row("mx", TRUE, o, n) = matmul_mxfp4(TRUE, FALSE, pr, sr, x, n, 32)
    <3>1. "mx" # "mx_avx2" /\ "mx" \notin {"f32", "bf16"} /\ "mx" # "bf16_avx2"
      OBVIOUS
    <3> QED BY Zenon, <3>1 DEF Row, Group
  <2> HIDE DEF x, pr, sr
  <2>4. MxSums(s, pr, sr, x, n)
    BY Zenon, <2>1, <2>2 DEF MxSums, RowSums
  <2>5. MxOk(pr, sr, x, n, s)
    BY Zenon, <2>4, MxIs
  <2> QED BY Zenon, <1>2, <1>3, <2>3, <2>5 DEF MxOk, RowOk, Portable
<1>4. CASE kern \notin {"mx", "mx_avx2"}
  <2> DEFINE p == [i \in 0..(n - 1) |-> w[i] * x[i]]
  <2>1. ASSUME NEW i \in 0..(n - 1) PROVE p[i] = Elem(kern, o, n, i) * X(i)
    BY Zenon, <1>4 DEF Elem
  <2>2. p \in [0..(n - 1) -> Int] /\ \A i \in 0..(n - 1) : p[i] = w[i] * x[i]
    <3>1. \A i \in 0..(n - 1) : p[i] \in Int
      <4> HIDE DEF p
      <4> QED BY Zenon, <2>1, ElemInt
    <3> HIDE DEF w, x
    <3> QED BY Zenon, <3>1
  <2> HIDE DEF p
  <2>3. Sums(s, p, n)
    BY Zenon, <1>1, <2>1 DEF Sums, RowSums
  <2>4. Row("f32", TRUE, o, n) = matmul(TRUE, w, x, n)
    BY Zenon DEF Row
  <2> HIDE DEF w, x
  <2>5. MatmulOk(w, x, n, s)
    BY Zenon, <2>2, <2>3, MatmulIs
  <2> QED BY Zenon, <1>2, <1>4, <2>4, <2>5 DEF Portable, MatmulOk, RowOk
<1> QED BY Zenon, <1>3, <1>4


(* RowsComplete, for every length of a row and number of rows: a kernel    *)
(* takes each element of a row once, at the value of its storage format.   *)
THEOREM RowsAlwaysComplete == KernelsSpec => []RowsComplete
<1>1. KernelInv => RowsComplete
  <2> DEFINE elem(o, i) == IF job.kern \in {"mx", "mx_avx2"}
                           THEN mxfp4_dequant(Packed(o, job.in), Scales(o, job.in), i, Group)
                           ELSE W16(o, i)
             next(o, u, i) == IF i = 0 THEN 0 ELSE u[i - 1] + elem(o, i - 1) * X(i - 1)
             Eq(o, u) == u = [i \in 0..job.in |-> next(o, u, i)]
             f(o) == CHOOSE u : Eq(o, u)
  <2> SUFFICES ASSUME KernelInv, job.kind = "rows", job.exact, NEW o \in Iterations, stage[o] = 1
               PROVE  y[o] = <<f(o)[job.in]>>
    BY Zenon DEF RowsComplete
  <2> DEFINE n == job.in
             kern == job.kern
             p == [i \in 0..(n - 1) |-> Elem(kern, o, n, i) * X(i)]
             g == f(o)
  <2>1. RegionInv /\ RowsInv
    BY Zenon DEF KernelInv
  <2>2. kern \in RowKernels /\ job.exact = TRUE /\ o \in Nat
    BY <2>1, Kinds
  <2>3. n \in Nat /\ (kern \in {"mx", "mx_avx2"} => n % 2 = 0)
    BY <2>1, KernelAssumption DEF RegionInv, RowJobs, RouterJobs, HeadJobs
  <2>4. y[o] = <<Row(kern, TRUE, o, n)>>
    BY Zenon, <2>1, <2>2 DEF RowsInv
  <2>5. \A i \in 1..n : elem(o, i - 1) = Elem(kern, o, n, i - 1)
    BY Zenon DEF Elem
  <2> HIDE DEF elem, n, kern
  <2>6. \A i \in 0..(n - 1) : p[i] \in Int /\ p[i] = Elem(kern, o, n, i) * X(i)
    BY Zenon, <2>2, <2>3, ElemInt
  <2>7. p \in [0..(n - 1) -> Int]
    BY Zenon, <2>6
  <2> HIDE DEF p
  <2>8. PICK s : Sums(s, p, n)
    BY Zenon, <2>3, <2>7, SumsExist
  <2>9. ASSUME NEW i \in 1..n PROVE s[i] = s[i - 1] + elem(o, i - 1) * X(i - 1)
    <3>1. i - 1 \in 0..(n - 1)
      BY <2>3
    <3> QED BY Zenon, <2>5, <2>6, <2>8, <3>1 DEF Sums
  <2>10. RowSums(s, kern, o, n)
    BY Zenon, <2>5, <2>8, <2>9 DEF RowSums, Sums
  <2>11. RowOk(kern, o, n, s)
    BY Zenon, <2>2, <2>3, <2>10, RowIs
  <2>12. \A i \in 0..n : i # 0 => i \in 1..n
    BY <2>3
  <2>13. Eq(o, s)
    <3>1. \A i \in 0..n : s[i] = next(o, s, i)
      BY Zenon, <2>8, <2>9, <2>12 DEF Sums
    <3> HIDE DEF next
    <3> QED BY Zenon, <2>8, <3>1 DEF Sums, n
  <2>14. Eq(o, g)
    <3> HIDE DEF Eq
    <3> QED BY Zenon, <2>13
  <2> HIDE DEF f, g
  <2>15. \A i \in 0..n : g[i] = next(o, g, i)
    <3> HIDE DEF next
    <3> QED BY Zenon, <2>14 DEF n
  <2> HIDE DEF Eq
  <2> DEFINE A == {i \in 0..n : g[i] = s[i]}
  <2>16. 0 \in A
    <3>1. 0 \in 0..n
      BY <2>3
    <3> QED BY Zenon, <2>8, <2>15, <3>1 DEF Sums
  <2>17. ASSUME NEW i \in (0 + 1)..n, i - 1 \in A PROVE i \in A
    <3>1. i \in 1..n /\ i \in 0..n /\ i # 0
      BY <2>3
    <3>2. g[i - 1] = s[i - 1]
      BY Zenon, <2>17
    <3>3. g[i] = g[i - 1] + elem(o, i - 1) * X(i - 1)
      BY Zenon, <2>15, <3>1
    <3>4. s[i] = s[i - 1] + elem(o, i - 1) * X(i - 1)
      BY Zenon, <2>9, <3>1
    <3> QED BY Zenon, <3>1, <3>2, <3>3, <3>4
  <2>18. \A i \in 0..n : i \in A
    <3>1. 0 \in Nat
      OBVIOUS
    <3> HIDE DEF A
    <3> QED BY Zenon, <2>3, <2>16, <2>17, <3>1, UpTo
  <2>19. n \in 0..n
    BY <2>3
  <2>20. g[n] = s[n]
    BY Zenon, <2>18, <2>19
  <2> QED BY Zenon, <2>4, <2>11, <2>20 DEF RowOk, g, n
<1> QED BY <1>1, KernelAlways, PTL
=============================================================================
