------------------------------- MODULE MCUnit -------------------------------
(***************************************************************************)
(* Model values for checking Unit.                                         *)
(***************************************************************************)
EXTENDS Unit

CONSTANTS p1, p2, p3

=============================================================================
