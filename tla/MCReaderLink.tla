---------------------------- MODULE MCReaderLink ----------------------------
(* ReaderLink on small instances.                                          *)
EXTENDS ReaderLink
=============================================================================
