--------------------------- MODULE MCUserAccounts ---------------------------
(***************************************************************************)
(* An instance of UserAccounts for TLC.                                     *)
(***************************************************************************)
EXTENDS UserAccounts, TLC

CONSTANTS q1, q2, q3, q4

Symmetry == Permutations(Requests)
=============================================================================
