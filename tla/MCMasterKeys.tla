---------------------------- MODULE MCMasterKeys ----------------------------
(***************************************************************************)
(* Small instances of MasterKeys.                                          *)
(***************************************************************************)
EXTENDS MasterKeys, TLC

CONSTANTS f1, x1, k1, c1, c2

FilesAndCli == [i \in {f1, x1} |-> IF i = f1 THEN "file" ELSE "cli"]
OneFile == [i \in {f1} |-> "file"]

\* One call for anything, and another that only fills the cache.
AnyAndOpen == [c \in {c1, c2} |-> IF c = c1 THEN {"create", "connect", "open"} ELSE {"open"}]
AnyOne == [c \in {c1} |-> {"create", "connect"}]
=============================================================================
