------------------------ MODULE MCFrontendController ------------------------
(* Instances of FrontendController for TLC. *)
EXTENDS FrontendController
=============================================================================
