---------------------------- MODULE MCMemberSync ----------------------------
(* MemberSync with two members and one login that both may choose.         *)
EXTENDS MemberSync
=============================================================================
