----------------------------- MODULE MCSessions -----------------------------
(***************************************************************************)
(* An instance of Sessions for TLC.                                         *)
(***************************************************************************)
EXTENDS Sessions, TLC

CONSTANTS u1, u2, q1, q2, q3, q4

Symmetry == Permutations(Requests)
=============================================================================
