------------------------------ MODULE MCForum ------------------------------
(***************************************************************************)
(* Instances of Forum for TLC.                                              *)
(***************************************************************************)
EXTENDS Forum, TLC

CONSTANTS u1, u2, t1, t2, q1, q2, q3

Symmetry == Permutations(Requests)
=============================================================================
