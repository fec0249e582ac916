----------------------------- MODULE MCListing -----------------------------
(***************************************************************************)
(* Instances of Listing for TLC.  Nothing tells the rows apart but their    *)
(* times.                                                                   *)
(***************************************************************************)
EXTENDS Listing, TLC

Symmetry == Permutations(Rows)
=============================================================================
