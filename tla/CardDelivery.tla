---------------------------- MODULE CardDelivery ----------------------------
(***************************************************************************)
(* What the card reader promises to the door controller: a card that was   *)
(* swiped reaches the controller's slot at most once and in the order of   *)
(* the swipes.  It may be lost on the way.  Swipes are numbered.           *)
(***************************************************************************)
EXTENDS Naturals

VARIABLES swipes, in_transit, slot

deliveryVars == <<swipes, in_transit, slot>>

NoCard == 0

Init == swipes = 0 /\ in_transit = {} /\ slot = NoCard

\* A new card may replace one before it.
Swipe ==
  /\ swipes' = swipes + 1
  /\ \E rest \in SUBSET in_transit : in_transit' = rest \cup {swipes'}
  /\ UNCHANGED slot

\* No older card is delivered after it, nor the same again.
Deliver ==
  /\ slot' \in in_transit
  /\ in_transit' \subseteq {c \in in_transit : c > slot'}
  /\ UNCHANGED swipes

Lose ==
  /\ in_transit' \subseteq in_transit /\ slot' \in {slot, NoCard}
  /\ UNCHANGED swipes

Next == Swipe \/ Deliver \/ Lose

Spec == Init /\ [][Next]_deliveryVars
=============================================================================
