--------------------------- MODULE MCOpiController ---------------------------
(* OpiController on small periods in the order of the real ones.           *)
EXTENDS OpiController
=============================================================================
