-------------------------- MODULE MCAdminSessions --------------------------
(***************************************************************************)
(* A small instance of AdminSessions.                                      *)
(***************************************************************************)
EXTENDS AdminSessions, TLC

CONSTANTS c1, c2, i1, i2, p1, p2

OneEach == [c \in {c1, c2} |-> IF c = c1 THEN p1 ELSE p2]

\* A request and its process change places with the other pair.
Interchangeable ==
    Permutations({i1, i2}) \cup
    {(c1 :> c2) @@ (c2 :> c1) @@ (p1 :> p2) @@ (p2 :> p1)}
=============================================================================
