----------------------------- MODULE MasterKeys -----------------------------
(***************************************************************************)
(* Master keys over their life: the providers and the TTL cache in front   *)
(* of them (src/src/master-keys), the rows that name versions, the apps    *)
(* whose mTLS columns are encrypted under a key derived from one, the mTLS *)
(* clients that processes build from those columns (runtime/node-mtls.ts,  *)
(* runtime/node.ts), and an operator who adds, retires and removes keys by *)
(* hand while all of it runs.                                              *)
(*                                                                         *)
(* A call is one request for key bytes and what is done with them.  The    *)
(* clock of a process never runs backwards here; in the code it is         *)
(* Date.now.                                                               *)
(***************************************************************************)
EXTENDS Integers, FiniteSets

CONSTANTS
    Instances,      \* processes: servers, Workers isolates, runs of the CLI
    Kind,           \* how each of them gets key bytes
    Apps, Versions,
    Bytes,          \* contents of key files; random, so never used twice
    FirstKey,       \* the version and the bytes made by bootstrap
    FirstBytes,
    Calls,
    Purposes,       \* what each call may be for
    Ttl,            \* milliseconds in the code, 6 hours by default
    LastInstant,    \* bound of the model on time
    None

ASSUME KindAssumption == Kind \in [Instances -> {"file", "env", "workers", "cli"}]
ASSUME TimeAssumption == Ttl \in Nat \ {0} /\ LastInstant \in Nat
ASSUME PurposeAssumption == Purposes \in [Calls -> SUBSET {"create", "connect", "open"}]
ASSUME VersionAssumption == Versions \subseteq Nat \ {0}
ASSUME FirstAssumption == FirstKey \in Versions /\ FirstBytes \in Bytes

VARIABLES
    now,
    content,    \* key bytes by version: files, or the environment of the next start
    goneAt,     \* history: when bytes were taken away
    removal,    \* history: was a version's key ever removed, and carefully
    table,      \* rows of master_keys
    upToDate,   \* history: processes started since a version was retired
    apps,       \* rows of apps
    proc,       \* memory of each process
    call

vars == <<now, content, goneAt, removal, table, upToDate, apps, proc, call>>

Times == 0..LastInstant

\* deriveSealingKey: nothing but master key and app go in, and both matter.
SealingKey == Bytes \X Apps
DeriveSealingKey(b, a) == <<b, a>>

\* A column is bound to its key and to the app it was written for.
Column == [key : SealingKey, aad : Apps]
EncryptColumn(key, a) == [key |-> key, aad |-> a]
DecryptsColumn(column, key, a) == column.key = key /\ column.aad = a

\* `migrated` is history: the version was changed by hand.
AppRow == [version : Versions, columns : Column, migrated : BOOLEAN]

Entry == [bytes : Bytes, expiresAt : Nat]

Process == [
    env     : [Versions -> Bytes \cup {None}],   \* process.env or bindings, if used
    cache   : [Versions -> Entry \cup {None}],
    active  : Versions \cup {None},              \* activeMasterKeyVersion()
    clients : SUBSET Apps]                       \* mTLS clients built

Call == [
    pc      : {"row", "key", "set", "use"},
    purpose : {"create", "connect", "open"},
    inst    : Instances,
    app     : Apps,
    version : Versions \cup {None},
    columns : Column \cup {None},
    t       : Nat,
    bytes   : Bytes \cup {None}]

ASSUME NoneAssumption ==
    /\ None \notin Apps \cup Versions \cup Bytes \cup Int
    /\ None \notin Column /\ None \notin AppRow /\ None \notin Entry /\ None \notin Call

Server(i) == Kind[i] \in {"file", "env"}
ReadsFiles(i) == Kind[i] \in {"file", "cli"}

Live(c) == call[c] # None
At(c, pc) == Live(c) /\ call[c].pc = pc

-----------------------------------------------------------------------------
Highest(S) == {v \in S : \A w \in S : w <= v}

\* A maximum that forgets to look at retiredAt.
ActiveVersionEver(rows) ==
    LET top == Highest({v \in Versions : rows[v] # "none"}) IN
    IF top = {} THEN None ELSE CHOOSE v \in top : TRUE

\* The highest version that is not retired.
ActiveVersion(rows) ==
    LET top == Highest({v \in Versions : rows[v] = "active"}) IN
    IF top = {} THEN None ELSE CHOOSE v \in top : TRUE

\* main() of a server, the first lines of a CLI run, the modules of an isolate.
Started(i) == [
    env     |-> [v \in Versions |-> IF ReadsFiles(i) THEN None ELSE content[v]],
    cache   |-> [v \in Versions |-> None],
    active  |-> IF Server(i) THEN ActiveVersion(table) ELSE None,
    clients |-> {}]

Init ==
    /\ now = 0
    /\ content = [v \in Versions |-> IF v = FirstKey THEN FirstBytes ELSE None]
    /\ goneAt = [b \in Bytes |-> None]
    /\ removal = [v \in Versions |-> "never"]
    /\ table = [v \in Versions |-> IF v = FirstKey THEN "active" ELSE "none"]
    /\ upToDate = [v \in Versions |-> {}]
    /\ apps = [a \in Apps |-> None]
    /\ proc = [i \in Instances |-> Started(i)]
    /\ call = [c \in Calls |-> None]

-----------------------------------------------------------------------------
(* The providers. *)

ReadFile(v) == content[v]
ReadEnv(i, v) == proc[i].env[v]
ReadWorkersEnv(i, v) == proc[i].env[v]

Provided(i, v) ==
    CASE ReadsFiles(i)         -> ReadFile(v)
      [] Kind[i] = "env"       -> ReadEnv(i, v)
      [] Kind[i] = "workers"   -> ReadWorkersEnv(i, v)

Hit(i, v) == proc[i].cache[v] # None /\ proc[i].cache[v].expiresAt > now

\* A provider that answers undefined for a version it does not have.
AskingUnchecked(request) ==
    LET i == request.inst
        v == request.version
    IN  IF Hit(i, v)
        THEN [request EXCEPT !.pc = "use", !.t = now, !.bytes = proc[i].cache[v].bytes]
        ELSE [request EXCEPT !.pc = IF Server(i) THEN "set" ELSE "use",
                             !.t = now, !.bytes = Provided(i, v)]

\* getKeyBytes up to its await: a hit answers at once, and the providers read at
\* once as well.  Isolates have no cache, a run of the CLI ends with its call.
Asking(request) ==
    LET i == request.inst
        v == request.version
    IN  IF Hit(i, v) THEN
            [request EXCEPT !.pc = "use", !.t = now, !.bytes = proc[i].cache[v].bytes]
        ELSE IF Provided(i, v) = None THEN
            None
        ELSE
            [request EXCEPT !.pc = IF Server(i) THEN "set" ELSE "use",
                            !.t = now, !.bytes = Provided(i, v)]

\* The entry of a call that has its bytes.
EntryFromNow(c) == [bytes |-> call[c].bytes, expiresAt |-> now + Ttl]

EntryOf(c) == [bytes |-> call[c].bytes, expiresAt |-> call[c].t + Ttl]

MayBegin(c, purpose) == ~Live(c) /\ purpose \in Purposes[c]

Request(purpose, i, a, v) ==
    [pc |-> "row", purpose |-> purpose, inst |-> i, app |-> a, version |-> v,
     columns |-> None, t |-> 0, bytes |-> None]

\* POST /admin/.../apps: mounted when there was an active version at start.
BeginCreate(c, i, a) ==
    /\ MayBegin(c, "create")
    /\ Server(i)
    /\ proc[i].active # None
    /\ apps[a] = None
    /\ call' = [call EXCEPT ![c] = Asking(Request("create", i, a, proc[i].active))]
    /\ UNCHANGED <<now, content, goneAt, removal, table, upToDate, apps, proc>>

\* oidc-bridge app create --db-path: the version is an option, 1 by default.
BeginCreateOffline(c, i, a, v) ==
    /\ MayBegin(c, "create")
    /\ Kind[i] = "cli"
    /\ apps[a] = None
    /\ call' = [call EXCEPT ![c] = Asking(Request("create", i, a, v))]
    /\ UNCHANGED <<now, content, goneAt, removal, table, upToDate, apps, proc>>

\* A sealed token is presented: its version byte says which key.
BeginOpen(c, i, a, v) ==
    /\ MayBegin(c, "open")
    /\ Kind[i] # "cli"
    /\ call' = [call EXCEPT ![c] = Asking(Request("open", i, a, v))]
    /\ UNCHANGED <<now, content, goneAt, removal, table, upToDate, apps, proc>>

\* A call to Toss for an app that has no client yet: first its row.
BeginConnect(c, i, a) ==
    /\ MayBegin(c, "connect")
    /\ Server(i)
    /\ a \notin proc[i].clients
    /\ call' = [call EXCEPT ![c] = Request("connect", i, a, None)]
    /\ UNCHANGED <<now, content, goneAt, removal, table, upToDate, apps, proc>>

Finish(c) == call' = [call EXCEPT ![c] = None]

ReadRow(c) ==
    /\ At(c, "row")
    /\ LET row == apps[call[c].app] IN
       IF row = None
       THEN Finish(c)
       ELSE call' = [call EXCEPT ![c].pc = "key", ![c].version = row.version,
                                 ![c].columns = row.columns]
    /\ UNCHANGED <<now, content, goneAt, removal, table, upToDate, apps, proc>>

AskForRow(c) ==
    /\ At(c, "key")
    /\ call' = [call EXCEPT ![c] = Asking(call[c])]
    /\ UNCHANGED <<now, content, goneAt, removal, table, upToDate, apps, proc>>

\* getKeyBytes after its await.
CacheKey(c) ==
    /\ At(c, "set")
    /\ proc' = [proc EXCEPT ![call[c].inst].cache[call[c].version] = EntryOf(c)]
    /\ call' = [call EXCEPT ![c].pc = "use"]
    /\ UNCHANGED <<now, content, goneAt, removal, table, upToDate, apps>>

-----------------------------------------------------------------------------
(* What the bytes are used for. *)

CallKey(c) == DeriveSealingKey(call[c].bytes, call[c].app)

\* A new app's id is random: no row has it.  The insert may fail.
CreateApp(c) ==
    /\ At(c, "use") /\ call[c].purpose = "create"
    /\ apps' = [apps EXCEPT ![call[c].app] =
          [version |-> call[c].version, migrated |-> FALSE,
           columns |-> EncryptColumn(CallKey(c), call[c].app)]]
    /\ apps[call[c].app] = None
    /\ Finish(c)
    /\ UNCHANGED <<now, content, goneAt, removal, table, upToDate, proc>>

\* Both columns decrypt, or the call to Toss fails.
Connect(c) ==
    /\ At(c, "use") /\ call[c].purpose = "connect"
    /\ proc' = IF DecryptsColumn(call[c].columns, CallKey(c), call[c].app)
               THEN [proc EXCEPT ![call[c].inst].clients = @ \cup {call[c].app}]
               ELSE proc
    /\ Finish(c)
    /\ UNCHANGED <<now, content, goneAt, removal, table, upToDate, apps>>

\* Whether the token opens is a matter of OidcEndpoints.  A failed insert, too.
Leave(c) ==
    /\ At(c, "use") /\ call[c].purpose # "connect"
    /\ Finish(c)
    /\ UNCHANGED <<now, content, goneAt, removal, table, upToDate, apps, proc>>

-----------------------------------------------------------------------------
(* The operator, and the world. *)

\* openssl rand > v2.key; or a new variable for the next start.
PutKey(v, b) ==
    /\ content[v] = None
    /\ goneAt[b] = None
    /\ \A w \in Versions : content[w] # b
    /\ content' = [content EXCEPT ![v] = b]
    /\ UNCHANGED <<now, goneAt, removal, table, upToDate, apps, proc, call>>

AddMasterKey(v) ==
    /\ table[v] = "none"
    /\ table' = [table EXCEPT ![v] = "active"]
    /\ UNCHANGED <<now, content, goneAt, removal, upToDate, apps, proc, call>>

RetireMasterKey(v) ==
    /\ table[v] = "active"
    /\ table' = [table EXCEPT ![v] = "retired"]
    /\ UNCHANGED <<now, content, goneAt, removal, upToDate, apps, proc, call>>

\* Retired, every server started again since, no row left, no offline creation.
Careful(v) ==
    /\ table[v] = "retired"
    /\ \A i \in Instances : Server(i) => i \in upToDate[v]
    /\ \A a \in Apps : apps[a] # None => apps[a].version # v
    /\ \A c \in Calls : ~(Live(c) /\ Kind[call[c].inst] = "cli" /\ call[c].version = v)

RemoveKey(v) ==
    /\ content[v] # None
    /\ content' = [content EXCEPT ![v] = None]
    /\ goneAt' = [goneAt EXCEPT ![content[v]] = now]
    /\ removal' = [removal EXCEPT ![v] =
          IF @ # "hasty" /\ Careful(v) THEN "careful" ELSE "hasty"]
    /\ UNCHANGED <<now, table, upToDate, apps, proc, call>>

\* UPDATE apps SET sealing_key_version: the columns stay what they are.
MigrateRow(a, v) ==
    /\ apps[a] # None
    /\ apps' = [apps EXCEPT ![a].version = v, ![a].migrated = TRUE]
    /\ UNCHANGED <<now, content, goneAt, removal, table, upToDate, proc, call>>

DeleteApp(a) ==
    /\ apps[a] # None
    /\ apps' = [apps EXCEPT ![a] = None]
    /\ UNCHANGED <<now, content, goneAt, removal, table, upToDate, proc, call>>

\* A process ends with its calls and its memory, and starts again.
Restart(i) ==
    /\ proc' = [proc EXCEPT ![i] = Started(i)]
    /\ upToDate' = [v \in Versions |->
          IF table[v] = "retired" /\ Server(i) THEN upToDate[v] \cup {i} ELSE upToDate[v]]
    /\ call' = [c \in Calls |-> IF Live(c) /\ call[c].inst = i THEN None ELSE call[c]]
    /\ UNCHANGED <<now, content, goneAt, removal, table, apps>>

Tick ==
    /\ now < LastInstant
    /\ now' \in (now + 1)..LastInstant
    /\ UNCHANGED <<content, goneAt, removal, table, upToDate, apps, proc, call>>

Next ==
    \/ \E c \in Calls :
          \/ \E i \in Instances, a \in Apps : BeginCreate(c, i, a) \/ BeginConnect(c, i, a)
          \/ \E i \in Instances, a \in Apps, v \in Versions :
                BeginCreateOffline(c, i, a, v) \/ BeginOpen(c, i, a, v)
          \/ ReadRow(c) \/ AskForRow(c) \/ CacheKey(c)
          \/ CreateApp(c) \/ Connect(c) \/ Leave(c)
    \/ \E v \in Versions, b \in Bytes : PutKey(v, b)
    \/ \E v \in Versions : AddMasterKey(v) \/ RetireMasterKey(v) \/ RemoveKey(v)
    \/ \E a \in Apps, v \in Versions : MigrateRow(a, v)
    \/ \E a \in Apps : DeleteApp(a)
    \/ \E i \in Instances : Restart(i)
    \/ Tick

Spec == Init /\ [][Next]_vars

-----------------------------------------------------------------------------
(* Properties. *)

\* What a call must have got before a step may use it.
Equipped(q) ==
    /\ q.pc \in {"row", "key"} => q.purpose = "connect"
    /\ q.pc # "row" => q.version # None
    /\ q.pc # "row" /\ q.purpose = "connect" => q.columns # None
    /\ q.pc \in {"set", "use"} => q.bytes # None
    /\ q.pc = "set" => Server(q.inst)

\* Every variable has its type, and no call goes on without what it asked for.
TypeOK ==
    /\ now \in Times
    /\ content \in [Versions -> Bytes \cup {None}]
    /\ goneAt \in [Bytes -> Times \cup {None}]
    /\ removal \in [Versions -> {"never", "careful", "hasty"}]
    /\ table \in [Versions -> {"none", "active", "retired"}]
    /\ upToDate \in [Versions -> SUBSET Instances]
    /\ apps \in [Apps -> AppRow \cup {None}]
    /\ proc \in [Instances -> Process]
    /\ call \in [Calls -> Call \cup {None}]
    /\ \A c \in Calls : Live(c) => Equipped(call[c])

InUse(c) == At(c, "use")

\* Taking a key file away is the kill switch of RUNBOOK "Revoking tokens": a
\* call that begins Ttl or more after a key file was removed or replaced is not
\* given the old bytes, whatever calls filled the cache in between and however
\* long they took.
RemovedKeyDies ==
    \A c \in Calls :
        InUse(c) /\ ReadsFiles(call[c].inst) /\ goneAt[call[c].bytes] # None
            => goneAt[call[c].bytes] > call[c].t - Ttl

\* An operator who retires a version, starts every server again (the active
\* version is computed once, by buildAdminBlock) and looks for rows before taking
\* the key away never strands an app: what create encrypted with the key it
\* fetched earlier still decrypts with the bytes its row names.
NoAppStranded ==
    \A a \in Apps : LET row == apps[a] IN
        row # None /\ ~row.migrated /\ removal[row.version] # "hasty"
            => /\ content[row.version] # None
               /\ DecryptsColumn(row.columns, DeriveSealingKey(content[row.version], a), a)

\* src/docs/SELF_HOSTING.md "If you ever need to rotate": with the key of the new
\* version in place, an app whose row was migrated to it can be connected.
MigratedAppConnects ==
    \A c \in Calls :
        InUse(c) /\ call[c].purpose = "connect" /\ (\A v \in Versions : removal[v] = "never")
            => DecryptsColumn(call[c].columns, CallKey(c), call[c].app)
=============================================================================
