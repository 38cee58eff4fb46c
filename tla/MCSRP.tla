------------------------------- MODULE MCSRP -------------------------------
(***************************************************************************)
(* A single srp, or a list of two: the head and the se_next of the first   *)
(* element.                                                                *)
(***************************************************************************)
EXTENDS SRP, TLC

CONSTANTS head, next, v1, v2

JustHead == (head :> NULL)
List == (head :> NULL) @@ (next :> v1)
=============================================================================
