---------------------------- MODULE SessionText ----------------------------
(***************************************************************************)
(* What the caller of EngineSession may expect of a text: that it is the   *)
(* text of the generated ids, without a stop string, and what was streamed *)
(* meanwhile.                                                              *)
(***************************************************************************)
EXTENDS EngineSession, SequencesExt

(* The text of a list of tokens: their bytes, one after the other. *)
TextOf(ids) == FlattenSeq([i \in 1..Len(ids) |-> Bytes[ids[i]]])

(* The ids a returned text stands for: all of them, or all but the last    *)
(* when the text buffer could not grow for it.                             *)
Spoken == IF result.starved THEN Front(result.ids) ELSE result.ids

(* "re-decode all generated ids and emit the delta.  Exact": the text that *)
(* is returned is the text of the ids, cut before a stop string or not, as *)
(* long as the ids have no more than eight bytes each and fifteen over.    *)
TextExact ==
  result.ok =>
    LET t == TextOf(Spoken)
    IN  Len(t) < need(Len(Spoken)) =>
          \/ result.text = t
          \/ \E i \in 1..Len(result.stop) : IsPrefix(result.text \o result.stop[i], t)

(* A stop string never survives in the returned text, be it split over any *)
(* number of tokens: none of the list does when none ended the text, and   *)
(* when one did, neither it nor one listed before it.                      *)
Survives(s) == Len(s) > 0 /\ Hits(result.text, s, 0) # {}

NoStopLeft ==
  result.ok =>
    LET n == Len(result.stop)
        t == TextOf(result.ids)
        ended == {i \in 1..n : Len(result.text) < Len(t) /\ IsPrefix(result.text \o result.stop[i], t)}
    IN  \A j \in 1..n : (\A i \in ended : j <= i) => ~Survives(result.stop[j])

(* The chunks handed to the callback, put together, are the text returned, *)
(* and beyond it at most the beginning of the stop string that ended it,   *)
(* sent before the rest of it was known.                                   *)
StreamHonest ==
  result.ok /\ result.stream =>
    \/ result.out = result.text
    \/ \E i \in 1..Len(result.stop) :
         LET whole == result.text \o result.stop[i]
         IN  IsStrictPrefix(result.out, whole) /\ IsPrefix(result.text, result.out)
=============================================================================
