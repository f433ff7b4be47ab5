-------------------------- MODULE MCOidcEndpoints --------------------------
(***************************************************************************)
(* Small instances of OidcEndpoints.                                       *)
(***************************************************************************)
EXTENDS OidcRefinement, TLC

CONSTANTS a1, a2, u1, u2

OneCode == {[app |-> a1, user |-> u1, seq |-> 1]}
TwoCodes == {[app |-> a1, user |-> u1, seq |-> 1], [app |-> a1, user |-> u1, seq |-> 2]}
TwoApps == {[app |-> a1, user |-> u1, seq |-> 1], [app |-> a2, user |-> u2, seq |-> 1]}

Symmetry == Permutations(Grants) \cup Permutations(Requests)
=============================================================================
