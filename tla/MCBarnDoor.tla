----------------------------- MODULE MCBarnDoor -----------------------------
(* BarnDoor with a card that is allowed and one that is not.               *)
EXTENDS BarnDoor
=============================================================================
