------------------------------ MODULE MCImages ------------------------------
(***************************************************************************)
(* Instances of Images for TLC.                                             *)
(***************************************************************************)
EXTENDS Images, TLC

CONSTANTS f1, f2, f3, u1, u2, t1, t2, q1, q2

Symmetry == Permutations(Requests)
=============================================================================
