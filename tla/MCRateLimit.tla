---------------------------- MODULE MCRateLimit -----------------------------
(***************************************************************************)
(* A small instance of RateLimit.                                          *)
(***************************************************************************)
EXTENDS RateLimit, TLC

Symmetry == Permutations(Ips) \cup Permutations(AppIds)
=============================================================================
