------------------------------ MODULE Startup ------------------------------
(***************************************************************************)
(* How the environment decides: what the doctor command says about it      *)
(* (cli/commands/doctor.ts and its probes) and whether the server starts   *)
(* with it (main in runtime/node.ts, config.ts, the key provider and the   *)
(* signing key registry).  A setting is reduced to the cases either of     *)
(* them tells apart.                                                       *)
(***************************************************************************)

CONSTANTS
    Dirs,       \* master key directories
    Dbs,        \* paths of sqlite databases
    DefaultDb,  \* ./data/oidc-bridge.sqlite
    None

ASSUME DefaultAssumption == DefaultDb \in Dbs
ASSUME PathAssumption == None \notin Dirs \cup Dbs

Env == [
    issuer   : {"unset", "slashed", "set"},
    signing  : {"no kid", "no pem", "bad", "ok"},          \* the active kid and its PEM
    spare    : {"none", "bad", "ok"},                      \* another PEM
    storage  : {"unset", "sqlite", "pg", "other"},
    pg       : {"unset", "down", "up"},                    \* DATABASE_URL
    path     : Dbs \cup {None},                            \* SQLITE_PATH
    provider : {"unset", "env", "file", "gcpsm", "other"},
    dir      : Dirs \cup {None},                           \* MASTER_KEY_DIR
    key      : {"unset", "bad", "ok"},                     \* MASTER_KEY_1_HEX
    tuning   : {"ok", "bad"}]       \* token lifetime, rate limits, TOSS_API_BASE

UsesSqlite(e) == e.storage \in {"unset", "sqlite"}

SqlitePath(e) == IF e.path = None THEN DefaultDb ELSE e.path

-----------------------------------------------------------------------------
(* The doctor.  `files` is what each directory holds as v1.key. *)

EnvErrors(e) ==
    \/ e.issuer = "unset"
    \/ e.signing \in {"no kid", "no pem"}
    \/ e.storage = "other"
    \/ (e.storage = "pg" /\ e.pg = "unset")
    \/ e.provider \in {"unset", "other"}
    \/ (e.provider = "file" /\ e.dir = None)

EnvWarnings(e) == e.issuer = "slashed" \/ (UsesSqlite(e) /\ e.path = None)

EnvProbe(e) ==
    IF EnvErrors(e) THEN "red" ELSE IF EnvWarnings(e) THEN "yellow" ELSE "green"

DbProbeUncaught(e, exists) == IF e.storage = "pg" /\ e.pg # "up" THEN None ELSE "green"

\* The sqlite probe creates and migrates what is not there.
DbProbe(e, exists) ==
    IF e.storage = "pg"
    THEN IF e.pg = "up" THEN "green" ELSE "red"
    ELSE IF exists THEN "green" ELSE "yellow"

MasterKeyProbeTrusting(e, files) == IF e.provider = "gcpsm" THEN "green" ELSE "yellow"

\* Any provider but file and gcpsm is probed as env; version 1 only.
MasterKeyProbe(e, files) ==
    IF e.provider = "gcpsm" THEN "yellow"
    ELSE IF e.provider = "file"
    THEN IF e.dir # None /\ files[e.dir] # None THEN "green" ELSE "red"
    ELSE IF e.key = "ok" THEN "green" ELSE "red"

\* The active key signs and verifies; other PEMs are not tried.
JwksProbe(e) == IF e.signing = "ok" THEN "green" ELSE "red"

-----------------------------------------------------------------------------
(* The server. *)

OpensStorage(e) == UsesSqlite(e) \/ (e.storage = "pg" /\ e.pg = "up")

\* createMasterKeyProvider: keys are read later, at their first use.
ProviderStarts(e) ==
    e.provider \in {"unset", "env"} \/ (e.provider = "file" /\ e.dir # None)

\* loadOidcConfig, and createSigningKeyRegistry which imports every PEM.
OidcStarts(e) == e.issuer = "set" /\ e.signing = "ok" /\ e.spare # "bad"

TuningAccepted(e) == e.tuning = "ok"

Starts(e) == OpensStorage(e) /\ ProviderStarts(e) /\ OidcStarts(e) /\ TuningAccepted(e)

\* The .env that the summary of a bootstrap and step 3 of SELF_HOSTING make.
SummaryEnv(dir, db) == [
    issuer |-> "set", signing |-> "ok", spare |-> "none", storage |-> "sqlite",
    pg |-> "unset", path |-> db, provider |-> "file", dir |-> dir, key |-> "unset",
    tuning |-> "ok"]
=============================================================================
