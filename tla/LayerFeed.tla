------------------------------ MODULE LayerFeed ------------------------------
(***************************************************************************)
(* What the trunk promises the forward pass: layers arrive in the order 0, *)
(* 1, ..., NBound-1, again for every token, and the bytes computed on are  *)
(* those of the layer asked for, unchanged until the computation is over.  *)
(* A layer that cannot be delivered ends the pass.                         *)
(***************************************************************************)
EXTENDS Integers

CONSTANTS
  NBound,   \* layers a forward pass walks
  Retry     \* may a pass follow a failed one?

VARIABLES
  at,       \* the layer the pass needs
  weights,  \* the layer whose bytes are being computed on, -1 for none
  status    \* "running", "failed" or "closed"

feedVars == <<at, weights, status>>

FeedInit == at = 0 /\ weights = -1 /\ status = "running"

Deliver ==
  /\ status = "running"
  /\ weights = -1
  /\ weights' = at
  /\ UNCHANGED <<at, status>>

Consumed ==
  /\ status = "running"
  /\ weights = at
  /\ weights' = -1
  /\ at' = (IF at + 1 = NBound THEN 0 ELSE at + 1)
  /\ UNCHANGED status

GiveUp ==
  /\ status = "running"
  /\ weights = -1
  /\ status' = "failed"
  /\ UNCHANGED <<at, weights>>

Again ==
  /\ Retry
  /\ status = "failed"
  /\ status' = "running"
  /\ at' = 0
  /\ UNCHANGED weights

Shut ==
  /\ weights = -1
  /\ status' = "closed"
  /\ UNCHANGED <<at, weights>>

FeedNext == Deliver \/ Consumed \/ GiveUp \/ Again \/ Shut

FeedSpec == FeedInit /\ [][FeedNext]_feedVars
=============================================================================
