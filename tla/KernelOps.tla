------------------------------ MODULE KernelOps ------------------------------
(***************************************************************************)
(* The kernels of src/src/core/k3_ops.c as functions: the dot product of   *)
(* one weight row in each storage format, the recurrence of one KDA head,  *)
(* the selection of the router.                                            *)
(*                                                                         *)
(* A row kernel takes the arithmetic to use: with that of Floats it says   *)
(* which operations are done in which order, with the exact one of the     *)
(* integers which number comes out.  Rows and inputs are functions of the  *)
(* index, from 0.                                                          *)
(***************************************************************************)
EXTENDS Floats, Integers, FiniteSets

CONSTANTS NExperts, topk       \* K3Cfg: the experts of a layer, and of a token

(* The two arithmetics. *)
Add(exact, a, b) == IF exact THEN a + b ELSE FAdd(a, b)
Mul(exact, a, b) == IF exact THEN a * b ELSE FMul(a, b)
Fma(exact, a, b, c) == IF exact THEN a * b + c ELSE FFma(a, b, c)
Num(exact, v) == IF exact THEN v ELSE (v + P) % P      \* a table entry

(* The four partial sums b0..b3 that every kernel ends with. *)
Sum4(exact, b) == Add(exact, Add(exact, b[0], b[1]), Add(exact, b[2], b[3]))

(* Accumulator l of the main loop, which takes `step' elements at a time,  *)
(* and the loop over what is left.                                         *)
Lane(exact, w, x, l, step, n) ==
  LET a[b \in 0..(n \div step)] ==
        IF b = 0 THEN 0
        ELSE Fma(exact, w[(b - 1) * step + l], x[(b - 1) * step + l], a[b - 1])
  IN  a[n \div step]

Rest(exact, w, x, acc, step, n) ==
  LET from == step * (n \div step)
      a[i \in from..n] == IF i = from THEN acc ELSE Fma(exact, w[i - 1], x[i - 1], a[i - 1])
  IN  a[n]

(* k3_matmul, and k3_matmul_bf16 without AVX2: sixteen accumulators. *)
matmul(exact, w, x, n) ==
  LET a(l) == Lane(exact, w, x, l, 16, n)
      b == [j \in 0..3 |-> Add(exact, Add(exact, a(j), a(j + 4)), Add(exact, a(j + 8), a(j + 12)))]
  IN  Rest(exact, w, x, Sum4(exact, b), 16, n)

(* Mutant: consecutive elements in different vectors. *)
Element_Interleaved(k, j) == 4 * j + k

(* The element that lane j of vector k loads. *)
Element(k, j) == 4 * k + j

(* k3_matmul_bf16 with AVX2: four vectors of four lanes. *)
matmul_avx2(exact, w, x, n) ==
  LET v(k, j) == Lane(exact, w, x, Element(k, j), 16, n)
      vt == [j \in 0..3 |-> Add(exact, Add(exact, v(0, j), v(1, j)), Add(exact, v(2, j), v(3, j)))]
  IN  Rest(exact, w, x, Sum4(exact, vt), 16, n)

(* k3_bf16f: the bits move up by 16. *)
bf16f(h) == (h * 2^16) % P

-----------------------------------------------------------------------------
(* MXFP4.  Twice the E2M1 value of a code, whose bit 3 is the sign. *)
E2M1(c) == LET m == <<0, 1, 2, 3, 4, 6, 8, 12>>[(c % 8) + 1]
           IN  IF c < 8 THEN m ELSE -m

(* Mutant: the high nibble first. *)
PAIR_HighFirst(byte, odd) == E2M1(IF odd = 1 THEN byte % 16 ELSE byte \div 16)

(* k3_pair_init: a byte holds the even element low, the odd one high. *)
PAIR(byte, odd) == E2M1(IF odd = 0 THEN byte % 16 ELSE byte \div 16)

(* k3_e8m0_init: a power of two, here from its bias up; 255 is NaN. *)
E8M0(b) == IF b = 255 THEN 0 ELSE 2^(b - 127)

(* One group of k3_matmul_mxfp4: eight accumulators, or two vectors of     *)
(* four lanes.                                                             *)
mx_group(exact, w, x, n) ==
  LET s(l) == Lane(exact, w, x, l, 8, n)
  IN  Rest(exact, w, x, Sum4(exact, [j \in 0..3 |-> Add(exact, s(j), s(j + 4))]), 8, n)

mx_group_avx2(exact, w, x, n) ==
  LET v(k, j) == Lane(exact, w, x, Element(k, j), 8, n)
  IN  Rest(exact, w, x, Sum4(exact, [j \in 0..3 |-> Add(exact, v(0, j), v(1, j))]), 8, n)

(* k3_matmul_mxfp4 on one row of packed bytes pr and scales sr: the groups *)
(* one by one, then their scaled sum.  A group whose scale is NaN          *)
(* contributes nothing.                                                    *)
mx_sub(exact, avx2, pr, x, n, group, g) ==
  LET size == IF n - g * group > group THEN group ELSE n - g * group
      wf == [j \in 0..(size - 1) |->
               Num(exact, PAIR(pr[g * (group \div 2) + (j \div 2)], j % 2))]
      xg == [j \in 0..(size - 1) |-> x[g * group + j]]
  IN  IF avx2 THEN mx_group_avx2(exact, wf, xg, size) ELSE mx_group(exact, wf, xg, size)

mx_total(exact, sub, sr, ngrp) ==
  LET acc[g \in 0..ngrp] ==
        IF g = 0 THEN 0
        ELSE IF sr[g - 1] = 255 THEN acc[g - 1]
        ELSE Add(exact, acc[g - 1], Mul(exact, sub[g - 1], Num(exact, E8M0(sr[g - 1]))))
  IN  acc[ngrp]

matmul_mxfp4(exact, avx2, pr, sr, x, n, group) ==
  LET ngrp == (n + group - 1) \div group
  IN  mx_total(exact, [g \in 0..(ngrp - 1) |-> mx_sub(exact, avx2, pr, x, n, group, g)], sr, ngrp)

(* k3_mxfp4_dequant: element i of a row. *)
mxfp4_dequant(pr, sr, i, group) ==
  LET byte == pr[i \div 2]
      nib == IF i % 2 = 1 THEN byte \div 16 ELSE byte % 16
  IN  E2M1(nib) * (IF sr[i \div group] = 255 THEN 0 ELSE 2^(sr[i \div group] - 127))

-----------------------------------------------------------------------------
(* k3_kda_step: decay, read along k, write the prediction error, and read  *)
(* the output from the updated state.                                      *)
kda_step(S, q, k, v, alpha, beta) ==
  LET S1 == FMul(S, alpha)
      u  == FMul(k, S1)
      S2 == FAdd(S1, FMul(FMul(k, beta), FAdd(v, FNeg(u))))
  IN  [S |-> S2, o |-> FMul(q, S2)]

(* The scan of k3_router for the largest choice that is left.  NaN         *)
(* compares false with everything; a taken entry holds -INFINITY, which is *)
(* not above the initial one.                                              *)
NaN == -1
NoBest == -1

(* Mutant: >= in the comparison. *)
Best_LastWins(choice, taken) ==
  LET best[m \in 0..Cardinality(DOMAIN choice)] ==
        IF m = 0 THEN NoBest
        ELSE LET b == best[m - 1] e == m - 1
             IN  IF e \notin taken /\ choice[e] # NaN /\ (b = NoBest \/ choice[e] >= choice[b])
                 THEN e ELSE b
  IN  best[Cardinality(DOMAIN choice)]

Best(choice, taken) ==
  LET best[m \in 0..Cardinality(DOMAIN choice)] ==
        IF m = 0 THEN NoBest
        ELSE LET b == best[m - 1] e == m - 1
             IN  IF e \notin taken /\ choice[e] # NaN /\ (b = NoBest \/ choice[e] > choice[b])
                 THEN e ELSE b
  IN  best[Cardinality(DOMAIN choice)]

(* The n experts of a token; a slot for which none is left gets NoBest,    *)
(* that is expert 0 at weight 0.                                           *)
TopK(choice, n) ==
  LET pick[j \in 0..n] ==
        IF j = 0 THEN <<>>
        ELSE LET got == pick[j - 1]
             IN  Append(got, Best(choice, {got[i] : i \in 1..(j - 1)}))
  IN  pick[n]
=============================================================================
