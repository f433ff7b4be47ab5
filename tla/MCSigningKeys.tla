--------------------------- MODULE MCSigningKeys ---------------------------
(***************************************************************************)
(* A small instance of SigningKeys.                                        *)
(***************************************************************************)
EXTENDS SigningKeys, TLC

CONSTANTS p1, p2

Interchangeable == Permutations({p1, p2})
=============================================================================
