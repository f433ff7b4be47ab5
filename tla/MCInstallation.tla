--------------------------- MODULE MCInstallation ---------------------------
(***************************************************************************)
(* A small instance of Installation.                                       *)
(***************************************************************************)
EXTENDS Installation, Integers, FiniteSets, TLC

CONSTANTS d1, d2, b1, b2, r1, r2, m1, m2

\* The same again for somebody else, and with another database or directory.
Attempts ==
    {[dir |-> d1, db |-> b1, email |-> m1, password |-> FALSE],
     [dir |-> d1, db |-> b1, email |-> m2, password |-> TRUE],
     [dir |-> d1, db |-> b2, email |-> m1, password |-> FALSE],
     [dir |-> d2, db |-> b1, email |-> m2, password |-> FALSE]}

\* The summary's, one with its key in the environment, one on Postgres.
Bases == LET s == SummaryEnv(d1, b1) IN
    {s, [s EXCEPT !.provider = "env", !.key = "ok"], [s EXCEPT !.storage = "pg", !.pg = "up"]}

\* At most one setting away from one of these.
NearBases == {e \in Env :
    \E base \in Bases : Cardinality({f \in DOMAIN e : e[f] # base[f]}) <= 1}

Interchangeable == Permutations({r1, r2})
=============================================================================
