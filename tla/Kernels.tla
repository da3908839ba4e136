------------------------------- MODULE Kernels -------------------------------
(***************************************************************************)
(* The parallel regions of src/src/core/k3_ops.c: the rows of the three    *)
(* matmuls, the experts of the router and the heads of the KDA recurrence  *)
(* are iterations that a team of threads runs in any order and at the same *)
(* time.  A row and an expert are private to their iteration up to the     *)
(* final store; a head works in its slice of the shared row wr, which is   *)
(* scratch memory of the layer, once per token.                            *)
(***************************************************************************)
EXTENDS KernelOps

CONSTANTS Ins,       \* lengths of a weight row (the AVX2 loops step by 16 and 8)
          Rows,      \* rows of a matrix
          Heads, NTok,
          Teams,     \* numbers of threads
          MaxScore   \* the router's scores are 1..MaxScore or NaN

ASSUME KernelAssumption ==
  /\ Ins \subseteq Nat /\ Teams \subseteq Nat \ {0}
  /\ {Rows, Heads, NTok, NExperts, topk, MaxScore} \subseteq Nat \ {0} /\ topk <= NExperts

Group == 32          \* K3_MXFP4_GROUP

VARIABLES
  job,     \* the region that runs
  team,    \* threads of the region; an iteration of one step needs none of its own
  stage,   \* [iteration -> steps done]
  y,       \* [iteration -> what it stored]
  wr,      \* the work row of k3_kda_layer, one cell per head
  S        \* the recurrent state of every head

kernelVars == <<job, team, stage, y, wr, S>>

-----------------------------------------------------------------------------
(* Some weights and activations. *)
X(i) == ((i * i + 3 * i) % 11) + 1
Code(o, i) == (o * 37 + i * 11 + 5) % 256                \* bf16 codes
Byte(o, j) == (o * 29 + j * 53 + 7) % 256                \* two nibbles
Scale(o, g) == <<128, 255, 127>>[((o + g) % 3) + 1]

(* The matrix a kernel multiplies by, for the checkpoint's bf16 codes: an  *)
(* fp32 copy was widened when it was loaded.                               *)
W16(o, i) == bf16f(Code(o, i))

(* Row o of a packed expert, its scales, and its product with the input. *)
Packed(o, n) == [j \in 0..((n \div 2) - 1) |-> Byte(o, j)]
Scales(o, n) == [g \in 0..(n \div Group) |-> Scale(o, g)]

Row(kern, exact, o, n) ==
  LET w == [i \in 0..(n - 1) |-> W16(o, i)]
      x == [i \in 0..(n - 1) |-> X(i)]
  IN  CASE kern \in {"f32", "bf16"} -> matmul(exact, w, x, n)
        [] kern = "bf16_avx2" -> matmul_avx2(exact, w, x, n)
        [] kern \in {"mx", "mx_avx2"} ->
             matmul_mxfp4(exact, kern = "mx_avx2", Packed(o, n), Scales(o, n), x, n, Group)

(* The packed row stride is in/2, so an MXFP4 row has an even length. *)
RowJobs == {j \in [kind : {"rows"}, exact : BOOLEAN, in : Ins,
                   kern : {"f32", "bf16", "bf16_avx2", "mx", "mx_avx2"}] :
              j.kern \in {"mx", "mx_avx2"} => j.in % 2 = 0}
RouterJobs == [kind : {"router"}, score : [0..(NExperts - 1) -> {NaN} \cup 1..MaxScore],
               bias : [0..(NExperts - 1) -> {0, 1}]]
HeadJobs == {[kind |-> "heads"]}

N == CASE job.kind = "rows" -> Rows
       [] job.kind = "router" -> NExperts
       [] job.kind = "heads" -> Heads
Steps == IF job.kind = "heads" THEN 2 * NTok ELSE 1
Iterations == 0..(N - 1)

(* q, k, v, alpha and beta of head h at token t (from 0), and the state a  *)
(* head starts from.                                                       *)
In(f, h, t) == Fn2(f, h + 2, t + 5)
S0(h) == Fn(3, h)
Step(s, q, h, t) == kda_step(s, q, In(2, h, t), In(3, h, t), In(4, h, t), In(5, h, t))

KernelsInit ==
  /\ job \in RowJobs \cup RouterJobs \cup HeadJobs
  /\ team \in (IF job.kind = "heads" THEN Teams ELSE {1})
  /\ stage = [i \in Iterations |-> 0]
  /\ y = [i \in Iterations |-> <<>>]
  /\ wr = [h \in 0..(Heads - 1) |-> 0]
  /\ S = [h \in 0..(Heads - 1) |-> S0(h)]

(* An iteration starts when a thread is free for it. *)
Free(i) == stage[i] > 0 \/ Cardinality({k \in Iterations : stage[k] \in 1..(Steps - 1)}) < team

(* One row of a matmul: the store of the sum. *)
RowDone(o) ==
  /\ job.kind = "rows" /\ stage[o] = 0
  /\ y' = [y EXCEPT ![o] = <<Row(job.kern, job.exact, o, job.in)>>]
  /\ stage' = [stage EXCEPT ![o] = 1]
  /\ UNCHANGED <<job, team, wr, S>>

(* The score of one expert, and the biased one that selects. *)
ScoreDone(e) ==
  /\ job.kind = "router" /\ stage[e] = 0
  /\ y' = [y EXCEPT ![e] = <<IF job.score[e] = NaN THEN NaN ELSE job.score[e] + job.bias[e]>>]
  /\ stage' = [stage EXCEPT ![e] = 1]
  /\ UNCHANGED <<job, team, wr, S>>

(* Mutant: one work row for all heads. *)
Slice_Shared(h) == 0
Slice(h) == h

(* A head and a token: first the scaled q goes to the head's slice ... *)
HeadScale(h) ==
  LET t == stage[h] \div 2
  IN  /\ job.kind = "heads" /\ stage[h] % 2 = 0 /\ stage[h] < Steps /\ Free(h)
      /\ wr' = [wr EXCEPT ![Slice(h)] = Fn(1, In(1, h, t))]
      /\ stage' = [stage EXCEPT ![h] = @ + 1]
      /\ UNCHANGED <<job, team, y, S>>

(* ... then the recurrence reads it there. *)
HeadStep(h) ==
  LET t == stage[h] \div 2
      r == Step(S[h], wr[Slice(h)], h, t)
  IN  /\ job.kind = "heads" /\ stage[h] % 2 = 1
      /\ S' = [S EXCEPT ![h] = r.S]
      /\ y' = [y EXCEPT ![h] = Append(@, r.o)]
      /\ stage' = [stage EXCEPT ![h] = @ + 1]
      /\ UNCHANGED <<job, team, wr>>

KernelsNext == \E i \in Iterations : RowDone(i) \/ ScoreDone(i) \/ HeadScale(i) \/ HeadStep(i)

KernelsSpec == KernelsInit /\ [][KernelsNext]_kernelVars

Done == \A i \in Iterations : stage[i] = Steps

-----------------------------------------------------------------------------
(* What the router hands on when its region is over: the top-k of the      *)
(* choices, with the unbiased scores as weights.                           *)
Selected ==
  LET idx == TopK([e \in Iterations |-> y[e][1]], topk)
  IN  [j \in 1..topk |-> IF idx[j] = NoBest THEN [e |-> 0, w |-> 0]
                         ELSE [e |-> idx[j], w |-> job.score[idx[j]]]]

-----------------------------------------------------------------------------
(* Bit identity.  At any number of threads, a bf16 row multiplied with or  *)
(* without AVX2 is summed by the operations, in the order, in which        *)
(* k3_matmul sums the fp32 copy of the row; an MXFP4 row comes out the     *)
(* same with and without AVX2.                                             *)
RowsBitIdentical ==
  job.kind = "rows" /\ ~job.exact =>
    \A o \in Iterations : stage[o] = 1 =>
      y[o] = <<Row(IF job.kern \in {"mx", "mx_avx2"} THEN "mx" ELSE "f32", FALSE, o, job.in)>>

(* Every kernel multiplies each element once, by the value the storage     *)
(* format gives it: over the integers a row is the plain sum of products,  *)
(* for MXFP4 of the elements that k3_mxfp4_dequant writes out.             *)
RowsComplete ==
  LET elem(o, i) == IF job.kern \in {"mx", "mx_avx2"}
                    THEN mxfp4_dequant(Packed(o, job.in), Scales(o, job.in), i, Group)
                    ELSE W16(o, i)
      dot(o) == LET s[i \in 0..job.in] == IF i = 0 THEN 0 ELSE s[i - 1] + elem(o, i - 1) * X(i - 1)
                IN  s[job.in]
  IN  job.kind = "rows" /\ job.exact =>
        \A o \in Iterations : stage[o] = 1 => y[o] = <<dot(o)>>

(* The heads run in parallel as they would one after the other: states and *)
(* outputs are those of the serial loop, although all heads scale their q  *)
(* in the same scratch row.                                                *)
HeadsExact ==
  LET state(h) == LET s[t \in 0..NTok] ==
                        IF t = 0 THEN [S |-> S0(h), o |-> 0]
                        ELSE Step(s[t - 1].S, Fn(1, In(1, h, t - 1)), h, t - 1)
                  IN  s
  IN  job.kind = "heads" =>
        \A h \in Iterations :
          LET t == stage[h] \div 2
          IN  S[h] = state(h)[t].S /\ y[h] = [i \in 1..t |-> state(h)[i].o]

(* The router's choice is a stable selection: slot j holds the expert that *)
(* exactly j - 1 others precede, by a larger biased score or by an equal   *)
(* one and a smaller index; a NaN score is never selected; the weight is   *)
(* the unbiased score.                                                     *)
RouterStable ==
  LET real == {e \in Iterations : job.score[e] # NaN}
      ch(e) == job.score[e] + job.bias[e]
      before(e) == {f \in real : ch(f) > ch(e) \/ (ch(f) = ch(e) /\ f < e)}
  IN  job.kind = "router" /\ Done =>
        \A j \in 1..topk :
          IF j > Cardinality(real) THEN Selected[j].w = 0
          ELSE /\ Selected[j].e \in real
               /\ Cardinality(before(Selected[j].e)) = j - 1
               /\ Selected[j].w = job.score[Selected[j].e]
=============================================================================
