------------------------------ MODULE MCServer ------------------------------
(***************************************************************************)
(* An instance of Server for TLC.                                           *)
(***************************************************************************)
EXTENDS Server, TLC

CONSTANTS u1, u2, q1, q2, q3, k1, k2

Symmetry == Permutations(Users) \cup Permutations(Requests) \cup Permutations(Calls)
=============================================================================
