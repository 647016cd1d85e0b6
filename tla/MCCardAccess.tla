---------------------------- MODULE MCCardAccess ----------------------------
(* CardAccess with one card, and ticks of five minutes and less.           *)
EXTENDS CardAccess
=============================================================================
