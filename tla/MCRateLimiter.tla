---------------------------- MODULE MCRateLimiter ----------------------------
(***************************************************************************)
(* Instances of RateLimiter for TLC.                                        *)
(***************************************************************************)
EXTENDS RateLimiter, TLC

CONSTANTS ip1, ip2

Symmetry == Permutations(IPs)
=============================================================================
