---------------------------- MODULE TrunkSizing ----------------------------
(***************************************************************************)
(* The memory plan of k3_trunk_open: how many layers are pinned, how many  *)
(* ring slots there are and how large a slot is, found by iterating two    *)
(* quantities that depend on each other.  A slot must hold the bytes of    *)
(* any layer that streams through it and, behind them, the area into which *)
(* bind widens the layer's vectors.                                        *)
(***************************************************************************)
EXTENDS Integers, FiniteSetsExt, Folds

CONSTANTS NLayers,
          Align,       \* K3_TRUNK_ALIGN, also the granularity of a slot
          Sizes,       \* sizes a packed layer may have
          Widens,      \* values of k3_bind_widen_bytes
          Budgets      \* --trunk-gb, in bytes

ASSUME SizingAssumption ==
  /\ NLayers \in Nat \ {0} /\ Align \in Nat \ {0}
  /\ Sizes \subseteq Nat \ {0} /\ Widens \subseteq Nat /\ Budgets \subseteq Nat

VARIABLES nbytes, widen, budget,      \* what the plan is made for
          pass, npin, ring_slot, RING, spent,
          stage                       \* "sizing", then "fixed" or "spun"

inputs == <<nbytes, widen, budget>>
vars == <<inputs, pass, npin, ring_slot, RING, spent, stage>>

Layers == 0..(NLayers - 1)
RING_WANT == 2

(* Mutant: the loop gives up before the plan is settled. *)
MaxPass_Two == 2

MaxPass == 4

RoundUp(n) == ((n + Align - 1) \div Align) * Align

-----------------------------------------------------------------------------
(* The largest layer behind the pinned prefix, or the last one. *)
Biggest ==
  IF npin < NLayers THEN Max({nbytes[i] : i \in npin..(NLayers - 1)})
                    ELSE nbytes[NLayers - 1]

(* Mutant: the slot has no room for the widened vectors. *)
SlotFor_NoWiden == RoundUp(RoundUp(Biggest))

SlotFor == RoundUp(RoundUp(Biggest) + widen)

(* The second slot is taken only if both fit. *)
RingFor(rs) == IF RING_WANT * rs > budget THEN 1 ELSE RING_WANT

Need(i) == nbytes[i] + widen
PrefixNeed(k) == MapThenFoldSet(+, 0, Need, LAMBDA S : CHOOSE i \in S : TRUE, 0..(k - 1))

(* Pin layers from the front while they fit beside the ring. *)
PinsFor(ring) ==
  Max({0} \cup {k \in 1..NLayers : \A j \in 1..k : ring + PrefixNeed(j) <= budget})

(* One pass of the loop.  It ends when a pass changes nothing, or after    *)
(* the last one.                                                           *)
SizingPass ==
  /\ stage = "sizing"
  /\ LET rs == SlotFor
         np == PinsFor(RingFor(rs) * rs)
     IN  /\ RING' = RingFor(rs)
         /\ ring_slot' = rs
         /\ npin' = np
         /\ spent' = RING' * rs + PrefixNeed(np)
         /\ pass' = pass + 1
         /\ stage' = IF rs = ring_slot /\ np = npin THEN "fixed"
                     ELSE IF pass' = MaxPass THEN "spun" ELSE "sizing"
  /\ UNCHANGED inputs

Done == stage # "sizing" /\ UNCHANGED vars

Init ==
  /\ nbytes \in [Layers -> Sizes] /\ widen \in Widens /\ budget \in Budgets
  /\ pass = 0 /\ npin = 0 /\ ring_slot = 0 /\ RING = RING_WANT /\ spent = 0
  /\ stage = "sizing"

Next == SizingPass \/ Done

Spec == Init /\ [][Next]_vars

-----------------------------------------------------------------------------
(* What layer i occupies once bound: its bytes, then the widened vectors.  *)
Footprint(i) == RoundUp(nbytes[i]) + widen

(* k3_trunk.c:496 puts the widened vectors behind the layer's bytes in the *)
(* slot: every layer that streams must fit, with them, in the slot size    *)
(* the loop ended with.  And what k3_trunk.c:253-265 then allocates, ring  *)
(* and pinned layers together, stays within the budget, unless the budget  *)
(* is smaller than the one slot that cannot be done without.               *)
SizingFits ==
  stage # "sizing" =>
    /\ \A i \in npin..(NLayers - 1) : Footprint(i) <= ring_slot
    /\ \/ RING = 1 /\ npin = 0
       \/ RING * ring_slot + MapThenSumSet(Footprint, 0..(npin - 1)) <= budget

(* k3_trunk.c:216 says that the iteration "converges in two or three       *)
(* passes and is monotone": the loop ends because a pass changed nothing.  *)
SizingConverges == stage # "spun"
=============================================================================
