---------------------------- MODULE Installation ----------------------------
(***************************************************************************)
(* A self-hosted installation from nothing: runs of bootstrap              *)
(* (cli/commands/bootstrap.ts) that may crash between any two steps or     *)
(* overlap, the doctor, the start of the server and the app it seals.      *)
(*                                                                         *)
(* A run stands for what only it makes: its key bytes, its user's row, its *)
(* workspace and its API token.                                            *)
(***************************************************************************)
EXTENDS Startup

CONSTANTS Runs, Emails,
    Commands,   \* bootstrap's options, as an operator may give them
    Envs        \* environments an operator may write

Command == [dir : Dirs, db : Dbs, email : Emails, password : BOOLEAN]

ASSUME CommandAssumption == Commands \subseteq Command
ASSUME EnvAssumption == Envs \subseteq Env
ASSUME RunAssumption == None \notin Runs /\ None \notin Emails

VARIABLES
    files,      \* v1.key of each directory
    dbs,        \* rows of each database, None if the file is not there
    run,
    env,
    report,     \* the probes of the last doctor
    server,
    printed,    \* runs whose summary was printed
    raced       \* history: directories two runs found empty at once

vars == <<files, dbs, run, env, report, server, printed, raced>>

Db == [
    key        : Dirs \cup {None},              \* master_keys row 1 and its providerRef
    users      : [Emails -> Runs \cup {None}],
    hashed     : SUBSET Runs,                   \* users with a password
    workspaces : SUBSET Runs,
    tokens     : SUBSET Runs,
    audited    : SUBSET (Runs \X {"workspace.create", "api_token.create"}),
    app        : Runs \cup {None}]              \* whose key bytes sealed its columns

Steps == {"file", "open", "email", "row", "write", "insert", "user", "password",
          "workspace", "workspace audit", "token", "token audit", "print"}

Run == [
    pc       : Steps \cup {"over"},
    dir      : Dirs,
    db       : Dbs,
    email    : Emails,
    password : BOOLEAN]

Colour == {"green", "yellow", "red"}

Report == [env : Colour, db : Colour, masterKey : Colour \cup {None}, jwks : Colour]

ASSUME NoneAssumption ==
    None \notin Run /\ None \notin Db /\ None \notin Report /\ None \notin Colour

Empty == [
    key |-> None, users |-> [m \in Emails |-> None], hashed |-> {}, workspaces |-> {},
    tokens |-> {}, audited |-> {}, app |-> None]

Init ==
    /\ files = [d \in Dirs |-> None]
    /\ dbs = [b \in Dbs |-> None]
    /\ run = [r \in Runs |-> None]
    /\ env \in Envs
    /\ report = None
    /\ server = "down"
    /\ printed = {} /\ raced = {}

At(r, pc) == run[r] # None /\ run[r].pc = pc

Going(r) == run[r] # None /\ run[r].pc # "over"

Goes(r, pc) == run' = [run EXCEPT ![r].pc = pc]

DbOf(r) == dbs[run[r].db]

\* The database of r with some rows changed.
Store(r, rows) == dbs' = [dbs EXCEPT ![run[r].db] = rows]

OpenedAfresh(b) == [dbs EXCEPT ![b] = Empty]

\* createSqliteStorage creates and migrates.
Opened(b) == IF dbs[b] = None THEN [dbs EXCEPT ![b] = Empty] ELSE dbs

-----------------------------------------------------------------------------
(* runBootstrap *)

Begin(r, c) ==
    /\ run[r] = None
    /\ run' = [run EXCEPT ![r] =
          [pc |-> "file", dir |-> c.dir, db |-> c.db, email |-> c.email, password |-> c.password]]
    /\ UNCHANGED <<files, dbs, env, report, server, printed, raced>>

\* Runs that found the directory empty and have not written their key.
About(dir) ==
    {r \in Runs : Going(r) /\ run[r].dir = dir /\ run[r].pc \in {"open", "email", "row", "write"}}

RefusesNever(dir) == FALSE

\* existsSync: refusing to overwrite.
RefusesFile(dir) == files[dir] # None

CheckFile(r) ==
    /\ At(r, "file")
    /\ IF RefusesFile(run[r].dir) THEN Goes(r, "over") ELSE Goes(r, "open")
    /\ raced' = IF ~RefusesFile(run[r].dir) /\ About(run[r].dir) # {}
                THEN raced \cup {run[r].dir} ELSE raced
    /\ UNCHANGED <<files, dbs, env, report, server, printed>>

OpenDb(r) ==
    /\ At(r, "open")
    /\ dbs' = Opened(run[r].db)
    /\ Goes(r, "email")
    /\ UNCHANGED <<files, env, report, server, printed, raced>>

CheckUser(r) ==
    /\ At(r, "email")
    /\ IF DbOf(r).users[run[r].email] # None THEN Goes(r, "over") ELSE Goes(r, "row")
    /\ UNCHANGED <<files, dbs, env, report, server, printed, raced>>

CheckRow(r) ==
    /\ At(r, "row")
    /\ IF DbOf(r).key # None THEN Goes(r, "over") ELSE Goes(r, "write")
    /\ UNCHANGED <<files, dbs, env, report, server, printed, raced>>

\* writeFileSync replaces what is there.
WriteKey(r) ==
    /\ At(r, "write")
    /\ files' = [files EXCEPT ![run[r].dir] = r]
    /\ Goes(r, "insert")
    /\ UNCHANGED <<dbs, env, report, server, printed, raced>>

AnyVersionFree(db) == TRUE

\* master_keys.version is unique.
VersionFree(db) == db.key = None

CreateMasterKey(r) ==
    /\ At(r, "insert")
    /\ IF VersionFree(DbOf(r))
       THEN Store(r, [DbOf(r) EXCEPT !.key = run[r].dir]) /\ Goes(r, "user")
       ELSE Goes(r, "over") /\ UNCHANGED dbs
    /\ UNCHANGED <<files, env, report, server, printed, raced>>

\* users.email is unique.
CreateUser(r) ==
    /\ At(r, "user")
    /\ IF DbOf(r).users[run[r].email] = None
       THEN /\ Store(r, [DbOf(r) EXCEPT !.users[run[r].email] = r])
            /\ Goes(r, IF run[r].password THEN "password" ELSE "workspace")
       ELSE Goes(r, "over") /\ UNCHANGED dbs
    /\ UNCHANGED <<files, env, report, server, printed, raced>>

SetPassword(r) ==
    /\ At(r, "password")
    /\ Store(r, [DbOf(r) EXCEPT !.hashed = @ \cup {r}])
    /\ Goes(r, "workspace")
    /\ UNCHANGED <<files, env, report, server, printed, raced>>

CreateWorkspace(r) ==
    /\ At(r, "workspace")
    /\ Store(r, [DbOf(r) EXCEPT !.workspaces = @ \cup {r}])
    /\ Goes(r, "workspace audit")
    /\ UNCHANGED <<files, env, report, server, printed, raced>>

AuditWorkspace(r) ==
    /\ At(r, "workspace audit")
    /\ Store(r, [DbOf(r) EXCEPT !.audited = @ \cup {<<r, "workspace.create">>}])
    /\ Goes(r, "token")
    /\ UNCHANGED <<files, env, report, server, printed, raced>>

CreateToken(r) ==
    /\ At(r, "token")
    /\ Store(r, [DbOf(r) EXCEPT !.tokens = @ \cup {r}])
    /\ Goes(r, "token audit")
    /\ UNCHANGED <<files, env, report, server, printed, raced>>

AuditToken(r) ==
    /\ At(r, "token audit")
    /\ Store(r, [DbOf(r) EXCEPT !.audited = @ \cup {<<r, "api_token.create">>}])
    /\ Goes(r, "print")
    /\ UNCHANGED <<files, env, report, server, printed, raced>>

PrintSummary(r) ==
    /\ At(r, "print")
    /\ printed' = printed \cup {r}
    /\ Goes(r, "over")
    /\ UNCHANGED <<files, dbs, env, report, server, raced>>

\* The process is killed, or a call of it fails: nothing is rolled back.
Crash(r) ==
    /\ Going(r)
    /\ Goes(r, "over")
    /\ UNCHANGED <<files, dbs, env, report, server, printed, raced>>

-----------------------------------------------------------------------------
(* doctor *)

\* Its first two probes: the second creates a database that is not there.
DoctorOpens ==
    /\ report' = [env |-> EnvProbe(env), db |-> DbProbe(env, dbs[SqlitePath(env)] # None),
                  masterKey |-> None, jwks |-> JwksProbe(env)]
    /\ dbs' = IF env.storage = "pg" THEN dbs ELSE Opened(SqlitePath(env))
    /\ UNCHANGED <<files, run, env, server, printed, raced>>

DoctorReads ==
    /\ report # None
    /\ report.masterKey = None
    /\ report' = [report EXCEPT !.masterKey = MasterKeyProbe(env, files)]
    /\ UNCHANGED <<files, dbs, run, env, server, printed, raced>>

-----------------------------------------------------------------------------
(* The server *)

\* buildAdminBlock: no admin REST without an active master key.
MountsAdmin(e, rows) == UsesSqlite(e) /\ rows.key # None

\* main(): the storage is opened before anything else can fail.
Boot ==
    /\ server = "down"
    /\ dbs' = IF UsesSqlite(env) THEN Opened(SqlitePath(env)) ELSE dbs
    /\ server' = IF ~Starts(env) THEN "failed"
                 ELSE IF MountsAdmin(env, dbs'[SqlitePath(env)]) THEN "admin"
                 ELSE "no admin"
    /\ UNCHANGED <<files, run, env, report, printed, raced>>

Stop ==
    /\ server # "down"
    /\ server' = "down"
    /\ UNCHANGED <<files, dbs, run, env, report, printed, raced>>

\* POST /admin/workspaces/:wsId/apps: sqlite has room for one.
CreateApp ==
    LET b == SqlitePath(env) IN
    /\ server = "admin"
    /\ env.provider = "file" /\ files[env.dir] # None
    /\ dbs[b].tokens # {}
    /\ dbs[b].app = None
    /\ dbs' = [dbs EXCEPT ![b].app = files[env.dir]]
    /\ UNCHANGED <<files, run, env, report, server, printed, raced>>

\* "To start over, delete both": with nothing running, and no other database
\* or environment on one of the two.
StartOver(dir, b) ==
    /\ \A r \in Runs : ~Going(r)
    /\ server = "down"
    /\ dir = env.dir <=> b = SqlitePath(env)
    /\ dbs[b] # None => dbs[b].key \in {dir, None}
    /\ \A other \in Dbs \ {b} : dbs[other] # None => dbs[other].key # dir
    /\ files' = [files EXCEPT ![dir] = None]
    /\ dbs' = [dbs EXCEPT ![b] = None]
    /\ printed' = {r \in printed : run[r].db # b}
    /\ raced' = raced \ {dir}
    /\ report' = None
    /\ UNCHANGED <<run, env, server>>

Next ==
    \/ \E r \in Runs :
          \/ \E c \in Commands : Begin(r, c)
          \/ CheckFile(r) \/ OpenDb(r) \/ CheckUser(r) \/ CheckRow(r) \/ WriteKey(r)
          \/ CreateMasterKey(r) \/ CreateUser(r) \/ SetPassword(r)
          \/ CreateWorkspace(r) \/ AuditWorkspace(r) \/ CreateToken(r) \/ AuditToken(r)
          \/ PrintSummary(r) \/ Crash(r)
    \/ DoctorOpens \/ DoctorReads
    \/ Boot \/ Stop \/ CreateApp
    \/ \E dir \in Dirs, b \in Dbs : StartOver(dir, b)

Spec == Init /\ [][Next]_vars

-----------------------------------------------------------------------------
(* Properties. *)

\* Every variable has its type, and a run that writes rows has its database.
TypeOK ==
    /\ files \in [Dirs -> Runs \cup {None}]
    /\ dbs \in [Dbs -> Db \cup {None}]
    /\ run \in [Runs -> Run \cup {None}]
    /\ env \in Envs
    /\ report \in Report \cup {None}
    /\ server \in {"down", "failed", "no admin", "admin"}
    /\ printed \subseteq Runs /\ raced \subseteq Dirs
    /\ \A r \in Runs : Going(r) /\ run[r].pc \notin {"file", "open"} => DbOf(r) # None

Founders(rows) ==
    {r \in Runs : r \in rows.workspaces \cup rows.tokens \/ \E m \in Emails : rows.users[m] = r}

\* However two runs overlap on one database, under any emails, directories and
\* crashes, at most one of them gets to make a user, a workspace and an API
\* token there (the row of the master key decides).
OneFounder ==
    \A b \in Dbs : dbs[b] # None => \A r, s \in Founders(dbs[b]) : r = s

\* What bootstrap printed is enough: with the .env of its summary the server
\* starts with its admin REST, and the user, the workspace and the token of the
\* summary are there and on record, with a key file to read.
SummaryWorks ==
    \A r \in printed : LET b == run[r].db IN
        /\ Starts(SummaryEnv(run[r].dir, b))
        /\ dbs[b] # None
        /\ MountsAdmin(SummaryEnv(run[r].dir, b), dbs[b])
        /\ dbs[b].users[run[r].email] = r
        /\ r \in dbs[b].workspaces \cap dbs[b].tokens
        /\ {<<r, "workspace.create">>, <<r, "api_token.create">>} \subseteq dbs[b].audited
        /\ files[run[r].dir] # None

\* "Refusing to overwrite": no later run of bootstrap, complete or crashed, on
\* whichever database, takes away the key that an app was sealed under, unless
\* two runs found the directory empty at the same time.
AppKeepsKey ==
    \A b \in Dbs :
        dbs[b] # None /\ dbs[b].app # None
            => env.dir \in raced \/ files[env.dir] = dbs[b].app

\* The doctor vouches for the server: with no optional setting but what it
\* probes, a server does not fail to start where env, master-key and jwks were
\* green and the database was not red.
GreenStarts ==
    /\ report # None
    /\ report.env = "green" /\ report.masterKey = "green" /\ report.jwks = "green"
    /\ report.db # "red"
    /\ env.spare # "bad" /\ env.tuning = "ok"
    => server # "failed"

-----------------------------------------------------------------------------
(* Why they hold. *)

\* The steps of a run from the one named on.
FromToken == {"token", "token audit", "print"}
FromWorkspace == {"workspace", "workspace audit"} \cup FromToken
FromUser == {"user", "password"} \cup FromWorkspace     \* the key row is its own

Reached(r, steps) == r \in printed \/ (run[r] # None /\ run[r].pc \in steps)

\* What a run has done by the step it is at, and nobody undoes it.
DoneBy(r) ==
    /\ r \in printed => run[r] # None /\ run[r].pc = "over" /\ DbOf(r) # None
    /\ Reached(r, {"insert"} \cup FromUser) => files[run[r].dir] # None
    /\ Reached(r, FromUser) => DbOf(r).key = run[r].dir
    /\ Reached(r, {"password"} \cup FromWorkspace) => DbOf(r).users[run[r].email] = r
    /\ Reached(r, {"workspace audit"} \cup FromToken) => r \in DbOf(r).workspaces
    /\ Reached(r, FromToken) => <<r, "workspace.create">> \in DbOf(r).audited
    /\ Reached(r, {"token audit", "print"}) => r \in DbOf(r).tokens
    /\ Reached(r, {"print"}) => <<r, "api_token.create">> \in DbOf(r).audited

\* Who made something in a database, or is about to.
Heirs(b) == Founders(dbs[b]) \cup {r \in Runs : run[r] # None /\ run[r].db = b /\ run[r].pc \in FromUser}

OneHeir ==
    \A b \in Dbs : dbs[b] # None /\ Heirs(b) # {} =>
        dbs[b].key # None /\ \A r, s \in Heirs(b) : r = s

\* Where nothing raced, a key that is there is nobody's to write, and an app is
\* one of the environment.
KeyUndisturbed ==
    /\ \A dir \in Dirs \ raced :
        /\ files[dir] # None => About(dir) = {}
        /\ \A r, s \in About(dir) : r = s
    /\ \A b \in Dbs : dbs[b] # None /\ dbs[b].app # None => b = SqlitePath(env) /\ env.dir \in Dirs

\* A probe and a start depend on the environment alone, but for a file and a
\* database that may have come and gone.
Vouched ==
    /\ server = "failed" => ~Starts(env)
    /\ server = "admin" => Starts(env) /\ dbs[SqlitePath(env)] # None
    /\ report # None =>
        /\ report.env = EnvProbe(env) /\ report.jwks = JwksProbe(env)
        /\ report.db = "red" <=> env.storage = "pg" /\ env.pg # "up"
        /\ report.masterKey = "green" => env.provider # "gcpsm"

IInv ==
    /\ TypeOK /\ OneHeir /\ KeyUndisturbed /\ AppKeepsKey /\ Vouched
    /\ \A r \in Runs : DoneBy(r)
=============================================================================
