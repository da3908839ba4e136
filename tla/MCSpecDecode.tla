---------------------------- MODULE MCSpecDecode ----------------------------
(* SpecDecode on two ids: a model that settles on one id, one that         *)
(* alternates and one with a period of three.                              *)
EXTENDS SpecDecode

MCVocab == {"a", "b"}
MCArchs == {"settles", "alternates", "period3"}

Last(ctx, k) == IF Len(ctx) >= k THEN ctx[Len(ctx) + 1 - k] ELSE "a"
MCArgmax(a, ctx) ==
  CASE a = "settles" -> "a"
    [] a = "alternates" -> IF Last(ctx, 1) = "a" THEN "b" ELSE "a"
    [] a = "period3" -> IF Last(ctx, 1) = "a" /\ Last(ctx, 2) = "a" THEN "b" ELSE "a"
MCPrompts == {<<"b">>, <<"a", "a", "b", "a">>}
=============================================================================
