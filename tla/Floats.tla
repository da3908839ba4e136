------------------------------- MODULE Floats -------------------------------
(***************************************************************************)
(* Numbers that tell one order of operations from another.  A value is a   *)
(* number below P; multiplication is modular, addition is commutative and  *)
(* has a zero but is not associative, as in floating point, a fused        *)
(* multiply-add rounds once, and every other function is some polynomial.  *)
(* Two results agree when they were computed by the same operations in the *)
(* same order (up to a collision modulo P).                                *)
(***************************************************************************)
EXTENDS Naturals, Sequences

P == 10007
FAdd(a, b) == IF a = 0 THEN b ELSE IF b = 0 THEN a ELSE ((a + b) * (a + b) + 3) % P
FMul(a, b) == (a * b) % P
FFma(a, b, c) == ((FMul(a, b) + c) * (FMul(a, b) + c + 2) + 1) % P
FNeg(a) == (P - a) % P
Fn(f, a) == (a * a + f * a + f) % P          \* the f-th nonlinear function
Fn2(f, a, b) == (a * (b + f) + f * b + 1) % P

FSum(s) ==
  LET f[i \in 0..Len(s)] == IF i = 0 THEN 0 ELSE FAdd(f[i - 1], s[i]) IN f[Len(s)]

Vec(f) == f \o <<>>      \* f itself; TLC then evaluates each element once
=============================================================================
