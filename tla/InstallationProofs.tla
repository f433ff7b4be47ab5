------------------------- MODULE InstallationProofs -------------------------
(***************************************************************************)
(* Theorems about Installation, for any runs, emails, directories,         *)
(* databases, commands and environments.                                   *)
(***************************************************************************)
EXTENDS Installation, TLAPS

-----------------------------------------------------------------------------
(* Types.                                                                  *)

(* What a step of a run to pc leaves of the runs.                          *)
LEMMA GoesFacts ==
  ASSUME TypeOK, NEW r \in Runs, run[r] # None, NEW pc \in Steps \cup {"over"}, Goes(r, pc)
  PROVE  /\ run' \in [Runs -> Run \cup {None}]
         /\ run'[r] # None /\ run'[r].pc = pc
         /\ run'[r].dir = run[r].dir /\ run'[r].db = run[r].db
         /\ run'[r].email = run[r].email /\ run'[r].password = run[r].password
         /\ \A q \in Runs \ {r} : run'[q] = run[q]
<1>1. run[r] \in Run /\ run \in [Runs -> Run \cup {None}]
  BY DEF TypeOK
<1>2. [run[r] EXCEPT !.pc = pc] \in Run
  BY <1>1 DEF Run
<1>3. run' = [run EXCEPT ![r] = [run[r] EXCEPT !.pc = pc]]
  BY DEF Goes
<1> QED
  BY <1>1, <1>2, <1>3, NoneAssumption DEF Run

(* The database of a run past its "open" is there.                         *)
LEMMA RunFacts ==
  ASSUME TypeOK, NEW r \in Runs, run[r] # None
  PROVE  /\ run[r] \in Run
         /\ run[r].pc \in Steps \cup {"over"} /\ run[r].dir \in Dirs /\ run[r].db \in Dbs
         /\ run[r].email \in Emails /\ run[r].password \in BOOLEAN
         /\ run[r].pc \notin {"file", "open", "over"} => DbOf(r) \in Db
  BY DEF TypeOK, Run, Going, DbOf

LEMMA StoreFacts ==
  ASSUME TypeOK, NEW r \in Runs, run[r] # None, NEW rows \in Db, Store(r, rows)
  PROVE  /\ dbs' \in [Dbs -> Db \cup {None}]
         /\ dbs'[run[r].db] = rows
         /\ \A b \in Dbs \ {run[r].db} : dbs'[b] = dbs[b]
  BY RunFacts DEF TypeOK, Store

LEMMA EmptyType == Empty \in Db /\ Founders(Empty) = {}
<1>1. Empty \in Db
  BY DEF Empty, Db
<1>2. ASSUME NEW r \in Runs, r \in Founders(Empty) PROVE FALSE
  BY <1>2, RunAssumption DEF Empty, Founders
<1> QED
  BY <1>1, <1>2 DEF Founders

LEMMA OpenedFacts ==
  ASSUME TypeOK, NEW b \in Dbs
  PROVE  /\ Opened(b) \in [Dbs -> Db \cup {None}]
         /\ Opened(b)[b] # None
         /\ \A c \in Dbs : /\ dbs[c] # None => Opened(b)[c] = dbs[c]
                           /\ Opened(b)[c] # dbs[c] => Opened(b)[c] = Empty
  BY EmptyType, NoneAssumption DEF TypeOK, Opened

LEMMA PathFacts ==
  ASSUME NEW e \in Env
  PROVE  SqlitePath(e) \in Dbs
  BY DefaultAssumption DEF SqlitePath, Env

(* The steps of a run that store rows, and what they store.                *)
Row(r, rows) ==
  \/ /\ At(r, "insert") /\ VersionFree(DbOf(r)) /\ Goes(r, "user")
     /\ rows = [DbOf(r) EXCEPT !.key = run[r].dir]
  \/ /\ At(r, "user") /\ DbOf(r).users[run[r].email] = None
     /\ Goes(r, IF run[r].password THEN "password" ELSE "workspace")
     /\ rows = [DbOf(r) EXCEPT !.users[run[r].email] = r]
  \/ /\ At(r, "password") /\ Goes(r, "workspace")
     /\ rows = [DbOf(r) EXCEPT !.hashed = @ \cup {r}]
  \/ /\ At(r, "workspace") /\ Goes(r, "workspace audit")
     /\ rows = [DbOf(r) EXCEPT !.workspaces = @ \cup {r}]
  \/ /\ At(r, "workspace audit") /\ Goes(r, "token")
     /\ rows = [DbOf(r) EXCEPT !.audited = @ \cup {<<r, "workspace.create">>}]
  \/ /\ At(r, "token") /\ Goes(r, "token audit")
     /\ rows = [DbOf(r) EXCEPT !.tokens = @ \cup {r}]
  \/ /\ At(r, "token audit") /\ Goes(r, "print")
     /\ rows = [DbOf(r) EXCEPT !.audited = @ \cup {<<r, "api_token.create">>}]

Stores(r) ==
  /\ \E rows : Row(r, rows) /\ Store(r, rows)
  /\ UNCHANGED <<files, env, report, server, printed, raced>>

(* The steps of a run that store nothing and end or go on.                 *)
Passes(r) ==
  /\ Going(r)
  /\ \/ Goes(r, "over")
     \/ At(r, "email") /\ Goes(r, "row")
     \/ At(r, "row") /\ Goes(r, "write")
  /\ UNCHANGED <<files, dbs, env, report, server, printed, raced>>

(* Every step is one of these.                                             *)
LEMMA StepKinds ==
  ASSUME Next
  PROVE  \/ \E r \in Runs :
              \/ \E c \in Commands : Begin(r, c)
              \/ CheckFile(r) \/ OpenDb(r) \/ WriteKey(r) \/ PrintSummary(r)
              \/ Stores(r) \/ Passes(r)
         \/ DoctorOpens \/ DoctorReads \/ Boot \/ Stop \/ CreateApp
         \/ \E dir \in Dirs, b \in Dbs : StartOver(dir, b)
<1>1. ASSUME NEW r \in Runs, CheckUser(r) \/ CheckRow(r) \/ Crash(r) PROVE Passes(r)
  BY <1>1 DEF CheckUser, CheckRow, Crash, Passes, At, Going
<1>2. ASSUME NEW r \in Runs, CreateMasterKey(r) PROVE Stores(r) \/ Passes(r)
  BY <1>2 DEF CreateMasterKey, Stores, Row, Passes, At, Going
<1>3. ASSUME NEW r \in Runs, CreateUser(r) PROVE Stores(r) \/ Passes(r)
  BY <1>3 DEF CreateUser, Stores, Row, Passes, At, Going
<1>4. ASSUME NEW r \in Runs, \/ SetPassword(r) \/ CreateWorkspace(r) \/ AuditWorkspace(r)
                             \/ CreateToken(r) \/ AuditToken(r)
      PROVE  Stores(r)
  BY <1>4 DEF SetPassword, CreateWorkspace, AuditWorkspace, CreateToken, AuditToken, Stores, Row
<1> QED
  BY <1>1, <1>2, <1>3, <1>4 DEF Next

LEMMA DbUpdates ==
  ASSUME NEW d \in Db, NEW r \in Runs, NEW m \in Emails, NEW dir \in Dirs
  PROVE  /\ [d EXCEPT !.key = dir] \in Db
         /\ [d EXCEPT !.users[m] = r] \in Db
         /\ [d EXCEPT !.hashed = @ \cup {r}] \in Db
         /\ [d EXCEPT !.workspaces = @ \cup {r}] \in Db
         /\ [d EXCEPT !.tokens = @ \cup {r}] \in Db
         /\ [d EXCEPT !.audited = @ \cup {<<r, "workspace.create">>}] \in Db
         /\ [d EXCEPT !.audited = @ \cup {<<r, "api_token.create">>}] \in Db
         /\ [d EXCEPT !.app = r] \in Db
<1>1. [d EXCEPT !.key = dir] \in Db
  BY DEF Db
<1>2. [d EXCEPT !.users[m] = r] \in Db
  <2>1. [d.users EXCEPT ![m] = r] \in [Emails -> Runs \cup {None}]
    BY DEF Db
  <2>2. [d EXCEPT !.users = [d.users EXCEPT ![m] = r]] \in Db
    BY <2>1 DEF Db
  <2> QED
    BY <2>2
<1>3. [d EXCEPT !.hashed = @ \cup {r}] \in Db /\ [d EXCEPT !.app = r] \in Db
  BY DEF Db
<1>4. [d EXCEPT !.workspaces = @ \cup {r}] \in Db /\ [d EXCEPT !.tokens = @ \cup {r}] \in Db
  BY DEF Db
<1>5. ASSUME NEW action \in {"workspace.create", "api_token.create"}
      PROVE  [d EXCEPT !.audited = @ \cup {<<r, action>>}] \in Db
  <2>1. d.audited \cup {<<r, action>>} \in SUBSET (Runs \X {"workspace.create", "api_token.create"})
    BY DEF Db
  <2> QED
    BY <2>1 DEF Db
<1> QED
  BY <1>1, <1>2, <1>3, <1>4, <1>5

(* What a stored row does to its database, and where its run is then.      *)
LEMMA RowFacts ==
  ASSUME TypeOK, NEW r \in Runs, NEW rows, Row(r, rows)
  PROVE  /\ run[r] # None /\ DbOf(r) \in Db /\ rows \in Db
         /\ run[r].pc \in {"insert"} \cup FromUser
         /\ \E pc \in FromUser : Goes(r, pc)
         /\ rows.app = DbOf(r).app
         /\ DbOf(r).key # None => rows.key = DbOf(r).key
         /\ \A m \in Emails : DbOf(r).users[m] # None => rows.users[m] = DbOf(r).users[m]
         /\ DbOf(r).workspaces \subseteq rows.workspaces /\ DbOf(r).tokens \subseteq rows.tokens
         /\ DbOf(r).audited \subseteq rows.audited
         /\ Founders(rows) \subseteq Founders(DbOf(r)) \cup {r}
         /\ run[r].pc = "insert" => DbOf(r).key = None /\ rows.key # None
                                    /\ Founders(rows) = Founders(DbOf(r))
<1>1. run[r] # None /\ run[r].pc \in {"insert"} \cup FromUser /\ DbOf(r) \in Db
  BY RunFacts DEF Row, At, FromUser, FromWorkspace, FromToken
<1>2. run[r].dir \in Dirs /\ run[r].email \in Emails /\ run[r].dir # None
  BY <1>1, RunFacts, PathAssumption
<1>3. \E pc \in FromUser : Goes(r, pc)
  BY DEF Row, FromUser, FromWorkspace, FromToken
<1>4. rows \in Db
  <2> DEFINE d == DbOf(r)
             m == run[r].email
             dir == run[r].dir
  <2>1. d \in Db /\ m \in Emails /\ dir \in Dirs
    BY <1>1, <1>2
  <2>2. \/ rows = [d EXCEPT !.key = dir]
        \/ rows = [d EXCEPT !.users[m] = r]
        \/ rows = [d EXCEPT !.hashed = @ \cup {r}]
        \/ rows = [d EXCEPT !.workspaces = @ \cup {r}]
        \/ rows = [d EXCEPT !.tokens = @ \cup {r}]
        \/ rows = [d EXCEPT !.audited = @ \cup {<<r, "workspace.create">>}]
        \/ rows = [d EXCEPT !.audited = @ \cup {<<r, "api_token.create">>}]
    BY DEF Row
  <2> HIDE DEF d, m, dir
  <2>3. /\ [d EXCEPT !.key = dir] \in Db
        /\ [d EXCEPT !.users[m] = r] \in Db
        /\ [d EXCEPT !.hashed = @ \cup {r}] \in Db
        /\ [d EXCEPT !.workspaces = @ \cup {r}] \in Db
        /\ [d EXCEPT !.tokens = @ \cup {r}] \in Db
        /\ [d EXCEPT !.audited = @ \cup {<<r, "workspace.create">>}] \in Db
        /\ [d EXCEPT !.audited = @ \cup {<<r, "api_token.create">>}] \in Db
    BY <2>1, DbUpdates
  <2> QED
    BY <2>2, <2>3, Zenon
<1>5. /\ rows.app = DbOf(r).app
      /\ DbOf(r).key # None => rows.key = DbOf(r).key
      /\ \A m \in Emails : DbOf(r).users[m] # None => rows.users[m] = DbOf(r).users[m]
      /\ DbOf(r).workspaces \subseteq rows.workspaces /\ DbOf(r).tokens \subseteq rows.tokens
      /\ DbOf(r).audited \subseteq rows.audited
  BY <1>1, <1>2 DEF Row, Db, VersionFree
<1>6. /\ \A m \in Emails : rows.users[m] \in {DbOf(r).users[m], r}
      /\ rows.workspaces \subseteq DbOf(r).workspaces \cup {r}
      /\ rows.tokens \subseteq DbOf(r).tokens \cup {r}
  BY <1>1, <1>2 DEF Row, Db
<1>7. ASSUME run[r].pc = "insert"
      PROVE  /\ DbOf(r).key = None /\ rows.key # None
             /\ rows.users = DbOf(r).users /\ rows.workspaces = DbOf(r).workspaces
             /\ rows.tokens = DbOf(r).tokens
  BY <1>1, <1>2, <1>7 DEF Row, At, Db, VersionFree
<1>8. Founders(rows) \subseteq Founders(DbOf(r)) \cup {r}
  BY <1>6 DEF Founders
<1>9. run[r].pc = "insert" => Founders(rows) = Founders(DbOf(r))
  BY <1>7 DEF Founders
<1> QED
  BY <1>1, <1>3, <1>4, <1>5, <1>7, <1>8, <1>9

-----------------------------------------------------------------------------
(* The type invariant.  It needs the start to be right as well: the app is *)
(* sealed with the key in the directory of an environment that starts.     *)

Typed == TypeOK /\ Vouched

LEMMA ProbeTypes ==
  ASSUME TypeOK
  PROVE  /\ EnvProbe(env) \in Colour /\ JwksProbe(env) \in Colour
         /\ \A x \in BOOLEAN : DbProbe(env, x) \in Colour
         /\ MasterKeyProbe(env, files) \in Colour
  BY DEF EnvProbe, JwksProbe, DbProbe, MasterKeyProbe, Colour

LEMMA InitTyped == Init => Typed
  BY DEF Init, Typed, TypeOK, Vouched, Going

(* The row that is sealed is there, with the key that the file holds.      *)
LEMMA SealFacts ==
  ASSUME Typed, CreateApp
  PROVE  LET b == SqlitePath(env) IN
         /\ b \in Dbs /\ env.dir \in Dirs /\ files[env.dir] \in Runs /\ dbs[b] \in Db
         /\ dbs'[b] = [dbs[b] EXCEPT !.app = files[env.dir]] /\ dbs'[b] \in Db
         /\ \A c \in Dbs \ {b} : dbs'[c] = dbs[c]
         /\ dbs' \in [Dbs -> Db \cup {None}]
<1> DEFINE b == SqlitePath(env)
           k == files[env.dir]
<1>1. /\ env \in Env /\ b \in Dbs /\ dbs \in [Dbs -> Db \cup {None}]
      /\ dbs' = [dbs EXCEPT ![b].app = k]
  BY EnvAssumption, PathFacts DEF CreateApp, Typed, TypeOK
<1>2. dbs[b] \in Db
  BY <1>1 DEF CreateApp, Typed, Vouched
<1>3. env.dir \in Dirs /\ k \in Runs
  BY <1>1 DEF CreateApp, Typed, TypeOK, Vouched, Starts, ProviderStarts, Env
<1> HIDE DEF b, k
<1>4. [dbs[b] EXCEPT !.app = k] \in Db
  BY <1>2, <1>3 DEF Db
<1>5. dbs' = [dbs EXCEPT ![b] = [dbs[b] EXCEPT !.app = k]]
  BY <1>1
<1> QED
  BY <1>1, <1>2, <1>3, <1>4, <1>5 DEF b, k

(* Only starting over takes a database away.                               *)
LEMMA DbsStay ==
  ASSUME Typed, Next, ~\E dir \in Dirs, b \in Dbs : StartOver(dir, b)
  PROVE  \A b \in Dbs : dbs[b] # None => dbs'[b] # None
<1>t. TypeOK /\ env \in Env
  BY EnvAssumption DEF Typed, TypeOK
<1>1. CASE UNCHANGED dbs
  BY <1>1
<1>2. ASSUME NEW r \in Runs, OpenDb(r) PROVE \A b \in Dbs : dbs[b] # None => dbs'[b] # None
  BY <1>2, <1>t, RunFacts, OpenedFacts DEF OpenDb, At
<1>3. ASSUME NEW r \in Runs, Stores(r) PROVE \A b \in Dbs : dbs[b] # None => dbs'[b] # None
  BY <1>3, <1>t, RowFacts, StoreFacts, NoneAssumption DEF Stores
<1>4. ASSUME DoctorOpens \/ Boot PROVE \A b \in Dbs : dbs[b] # None => dbs'[b] # None
  BY <1>4, <1>t, OpenedFacts, PathFacts DEF DoctorOpens, Boot
<1>5. CASE CreateApp
  BY <1>5, SealFacts, NoneAssumption
<1> QED
  BY <1>1, <1>2, <1>3, <1>4, <1>5, StepKinds
     DEF Begin, CheckFile, WriteKey, PrintSummary, Passes, DoctorReads, Stop

LEMMA VouchedStep ==
  ASSUME Typed, Next
  PROVE  Vouched'
<1>t. env \in Env /\ SqlitePath(env) \in Dbs
  BY EnvAssumption, PathFacts DEF Typed, TypeOK
<1>1. ASSUME NEW dir \in Dirs, NEW b \in Dbs, StartOver(dir, b) PROVE Vouched'
  BY <1>1 DEF StartOver, Typed, Vouched
<1> SUFFICES ASSUME ~\E dir \in Dirs, b \in Dbs : StartOver(dir, b) PROVE Vouched'
  BY <1>1
<1>2. dbs[SqlitePath(env)] # None => dbs'[SqlitePath(env)] # None
  BY <1>t, DbsStay
<1>3. CASE UNCHANGED <<env, report, server>>
  BY <1>2, <1>3 DEF Typed, Vouched
<1>4. CASE DoctorOpens
  <2> DEFINE x == dbs[SqlitePath(env)] # None
             red == DbProbe(env, x)
  <2>1. red = "red" <=> env.storage = "pg" /\ env.pg # "up"
    BY DEF DbProbe
  <2>2. /\ report' = [env |-> EnvProbe(env), db |-> red, masterKey |-> None, jwks |-> JwksProbe(env)]
        /\ UNCHANGED <<env, server>>
    BY <1>4 DEF DoctorOpens
  <2> HIDE DEF red
  <2>3. /\ report'.env = EnvProbe(env) /\ report'.db = red /\ report'.jwks = JwksProbe(env)
        /\ report'.masterKey = None
    BY <2>2
  <2>4. report'.masterKey # "green"
    BY <2>3, NoneAssumption DEF Colour
  <2> QED
    BY <1>2, <2>1, <2>2, <2>3, <2>4 DEF Typed, Vouched
<1>5. CASE DoctorReads
  <2> DEFINE probe == MasterKeyProbe(env, files)
  <2>1. report \in Report /\ report' = [report EXCEPT !.masterKey = probe]
        /\ UNCHANGED <<env, server, dbs>> /\ report # None
    BY <1>5 DEF DoctorReads, Typed, TypeOK
  <2>2. probe = "green" => env.provider # "gcpsm"
    BY DEF MasterKeyProbe
  <2> HIDE DEF probe
  <2>3. /\ report'.env = report.env /\ report'.db = report.db /\ report'.jwks = report.jwks
        /\ report'.masterKey = probe
    BY <2>1 DEF Report
  <2> QED
    BY <2>1, <2>2, <2>3 DEF Typed, Vouched
<1>6. CASE Boot
  <2>1. UsesSqlite(env) => dbs'[SqlitePath(env)] # None
    BY <1>6, <1>t, OpenedFacts DEF Boot, Typed
  <2> QED
    BY <1>6, <2>1 DEF Boot, MountsAdmin, Typed, Vouched
<1>7. CASE Stop
  BY <1>7 DEF Stop, Typed, Vouched
<1> QED
  BY <1>3, <1>4, <1>5, <1>6, <1>7, StepKinds
     DEF Begin, CheckFile, OpenDb, WriteKey, PrintSummary, Stores, Passes, CreateApp

(* A run past its "open" has its database: none is taken away while runs   *)
(* go on.                                                                  *)
HasDb(r) == Going(r) /\ run[r].pc \notin {"file", "open"} => DbOf(r) # None

VarsOK ==
  /\ files \in [Dirs -> Runs \cup {None}]
  /\ dbs \in [Dbs -> Db \cup {None}]
  /\ run \in [Runs -> Run \cup {None}]
  /\ env \in Envs
  /\ report \in Report \cup {None}
  /\ server \in {"down", "failed", "no admin", "admin"}
  /\ printed \subseteq Runs /\ raced \subseteq Dirs

LEMMA TypeParts ==
  /\ TypeOK <=> VarsOK /\ \A r \in Runs : HasDb(r)
  /\ TypeOK' <=> VarsOK' /\ \A r \in Runs : HasDb(r)'
  BY DEF TypeOK, VarsOK, HasDb

LEMMA HasDbKept ==
  ASSUME TypeOK, \A b \in Dbs : dbs[b] # None => dbs'[b] # None,
         NEW q \in Runs, run'[q] = run[q]
  PROVE  HasDb(q)'
<1>1. HasDb(q)
  BY TypeParts
<1>2. run[q] # None => run[q].db \in Dbs
  BY RunFacts
<1> QED
  BY <1>1, <1>2 DEF HasDb, Going, DbOf

(* One run goes on or ends while the databases stay.                       *)
LEMMA GoesTyped ==
  ASSUME TypeOK, NEW r \in Runs, run[r] # None, NEW pc \in Steps \cup {"over"}, Goes(r, pc),
         \A b \in Dbs : dbs[b] # None => dbs'[b] # None,
         pc \notin {"file", "open", "over"} => dbs'[run[r].db] # None
  PROVE  run' \in [Runs -> Run \cup {None}] /\ \A q \in Runs : HasDb(q)'
<1>1. \A q \in Runs \ {r} : HasDb(q)'
  BY GoesFacts, HasDbKept
<1>2. HasDb(r)'
  BY GoesFacts DEF HasDb, Going, DbOf
<1> QED
  BY <1>1, <1>2, GoesFacts

LEMMA StepTyped ==
  ASSUME Typed, Next
  PROVE  TypeOK'
<1>t. TypeOK /\ VarsOK /\ env \in Env
  BY TypeParts, EnvAssumption DEF Typed, VarsOK
<1>1. ASSUME NEW r \in Runs, NEW c \in Commands, Begin(r, c) PROVE TypeOK'
  <2> DEFINE q == [pc |-> "file", dir |-> c.dir, db |-> c.db, email |-> c.email,
                   password |-> c.password]
  <2>1. q \in Run /\ q.pc = "file"
    BY CommandAssumption DEF Command, Run, Steps
  <2>2. run' = [run EXCEPT ![r] = q] /\ UNCHANGED <<files, dbs, env, report, server, printed, raced>>
    BY <1>1 DEF Begin
  <2> HIDE DEF q
  <2>3. /\ run' \in [Runs -> Run \cup {None}] /\ run'[r] = q
        /\ \A x \in Runs \ {r} : run'[x] = run[x]
    BY <1>t, <2>1, <2>2 DEF VarsOK
  <2>4. \A x \in Runs \ {r} : HasDb(x)'
    BY <1>t, <2>2, <2>3, HasDbKept
  <2>5. HasDb(r)'
    BY <2>1, <2>3 DEF HasDb
  <2> QED
    BY <1>t, <2>2, <2>3, <2>4, <2>5, TypeParts DEF VarsOK
<1>2. ASSUME NEW r \in Runs, CheckFile(r) PROVE TypeOK'
  <2>1. run[r] # None /\ run[r].dir \in Dirs
    BY <1>2, <1>t, RunFacts DEF CheckFile, At
  <2>2. PICK pc \in {"over", "open"} : Goes(r, pc)
    BY <1>2 DEF CheckFile
  <2>3. raced' \subseteq Dirs /\ UNCHANGED <<files, dbs, env, report, server, printed>>
    BY <1>2, <1>t, <2>1 DEF CheckFile, VarsOK
  <2>4. pc \in Steps \cup {"over"}
    BY DEF Steps
  <2>5. run' \in [Runs -> Run \cup {None}] /\ \A q \in Runs : HasDb(q)'
    BY <1>t, <2>1, <2>2, <2>3, <2>4, GoesTyped
  <2> QED
    BY <1>t, <2>3, <2>5, TypeParts DEF VarsOK
<1>3. ASSUME NEW r \in Runs, OpenDb(r) PROVE TypeOK'
  <2>1. run[r] # None /\ run[r].db \in Dbs /\ Goes(r, "email") /\ "email" \in Steps
    BY <1>3, <1>t, RunFacts DEF OpenDb, At, Steps
  <2>2. dbs' = Opened(run[r].db) /\ UNCHANGED <<files, env, report, server, printed, raced>>
    BY <1>3 DEF OpenDb
  <2>3. /\ dbs' \in [Dbs -> Db \cup {None}] /\ dbs'[run[r].db] # None
        /\ \A b \in Dbs : dbs[b] # None => dbs'[b] # None
    BY <1>t, <2>1, <2>2, OpenedFacts
  <2>4. run' \in [Runs -> Run \cup {None}] /\ \A q \in Runs : HasDb(q)'
    BY <1>t, <2>1, <2>3, GoesTyped
  <2> QED
    BY <1>t, <2>2, <2>3, <2>4, TypeParts DEF VarsOK
<1>4. ASSUME NEW r \in Runs, WriteKey(r) PROVE TypeOK'
  <2>1. run[r] # None /\ run[r].dir \in Dirs /\ Goes(r, "insert") /\ "insert" \in Steps
        /\ run[r].pc = "write"
    BY <1>4, <1>t, RunFacts DEF WriteKey, At, Steps
  <2>2. files' \in [Dirs -> Runs \cup {None}] /\ UNCHANGED <<dbs, env, report, server, printed, raced>>
    BY <1>4, <1>t, <2>1 DEF WriteKey, VarsOK
  <2>3. dbs[run[r].db] # None
    BY <1>t, <2>1 DEF TypeOK, Going, DbOf
  <2>4. run' \in [Runs -> Run \cup {None}] /\ \A q \in Runs : HasDb(q)'
    BY <1>t, <2>1, <2>2, <2>3, GoesTyped
  <2> QED
    BY <1>t, <2>2, <2>4, TypeParts DEF VarsOK
<1>5. ASSUME NEW r \in Runs, PrintSummary(r) PROVE TypeOK'
  <2>1. run[r] # None /\ Goes(r, "over") /\ printed' \subseteq Runs
        /\ UNCHANGED <<files, dbs, env, report, server, raced>>
    BY <1>5, <1>t DEF PrintSummary, At, VarsOK
  <2>2. run' \in [Runs -> Run \cup {None}] /\ \A q \in Runs : HasDb(q)'
    BY <1>t, <2>1, GoesTyped
  <2> QED
    BY <1>t, <2>1, <2>2, TypeParts DEF VarsOK
<1>6. ASSUME NEW r \in Runs, Stores(r) PROVE TypeOK'
  <2>1. PICK rows : Row(r, rows) /\ Store(r, rows)
    BY <1>6 DEF Stores
  <2>2. PICK pc \in FromUser : Goes(r, pc)
    BY <1>t, <2>1, RowFacts
  <2>3. run[r] # None /\ rows \in Db /\ pc \in Steps \cup {"over"}
    BY <1>t, <2>1, RowFacts DEF FromUser, FromWorkspace, FromToken, Steps
  <2>4. /\ dbs' \in [Dbs -> Db \cup {None}] /\ dbs'[run[r].db] # None
        /\ \A b \in Dbs \ {run[r].db} : dbs'[b] = dbs[b]
    BY <1>t, <2>1, <2>3, StoreFacts, NoneAssumption
  <2>5. run' \in [Runs -> Run \cup {None}] /\ \A q \in Runs : HasDb(q)'
    BY <1>t, <2>2, <2>3, <2>4, GoesTyped
  <2> QED
    BY <1>6, <1>t, <2>4, <2>5, TypeParts DEF Stores, VarsOK
<1>7. ASSUME NEW r \in Runs, Passes(r) PROVE TypeOK'
  <2>1. PICK pc \in {"over", "row", "write"} :
           Goes(r, pc) /\ (pc # "over" => run[r].pc \in {"email", "row"})
    BY <1>7 DEF Passes, At
  <2>2. run[r] # None /\ pc \in Steps \cup {"over"}
        /\ UNCHANGED <<files, dbs, env, report, server, printed, raced>>
    BY <1>7 DEF Passes, Going, Steps
  <2>3. pc # "over" => dbs'[run[r].db] # None
    BY <1>t, <2>1, <2>2 DEF TypeOK, Going, DbOf
  <2>4. run' \in [Runs -> Run \cup {None}] /\ \A q \in Runs : HasDb(q)'
    BY <1>t, <2>1, <2>2, <2>3, GoesTyped
  <2> QED
    BY <1>t, <2>2, <2>4, TypeParts DEF VarsOK
<1>8. ASSUME DoctorOpens \/ Boot \/ DoctorReads \/ Stop PROVE TypeOK'
  <2>1. dbs' \in {dbs, Opened(SqlitePath(env))} /\ UNCHANGED <<files, run, env, printed, raced>>
    BY <1>8 DEF DoctorOpens, Boot, DoctorReads, Stop
  <2>2. dbs' \in [Dbs -> Db \cup {None}] /\ \A b \in Dbs : dbs[b] # None => dbs'[b] # None
    <3>1. SqlitePath(env) \in Dbs /\ dbs \in [Dbs -> Db \cup {None}]
      BY <1>t, PathFacts DEF VarsOK
    <3>2. CASE dbs' = Opened(SqlitePath(env))
      BY <1>t, <3>1, <3>2, OpenedFacts
    <3> QED
      BY <2>1, <3>1, <3>2
  <2>3. report' \in Report \cup {None}
    <3>1. CASE DoctorOpens
      <4>1. DbProbe(env, dbs[SqlitePath(env)] # None) \in Colour
        BY DEF DbProbe, Colour
      <4> QED
        BY <1>t, <3>1, <4>1, ProbeTypes DEF DoctorOpens, Report
    <3>2. CASE DoctorReads
      BY <1>t, <3>2, ProbeTypes DEF DoctorReads, Report, VarsOK
    <3> QED
      BY <1>8, <1>t, <3>1, <3>2 DEF Boot, Stop, VarsOK
  <2>4. server' \in {"down", "failed", "no admin", "admin"}
    BY <1>8, <1>t DEF DoctorOpens, Boot, DoctorReads, Stop, VarsOK
  <2>5. \A q \in Runs : HasDb(q)'
    BY <1>t, <2>1, <2>2, HasDbKept
  <2> QED
    BY <1>t, <2>1, <2>2, <2>3, <2>4, <2>5, TypeParts DEF VarsOK
<1>9. ASSUME CreateApp PROVE TypeOK'
  <2>1. dbs' \in [Dbs -> Db \cup {None}] /\ \A b \in Dbs : dbs[b] # None => dbs'[b] # None
    BY <1>9, SealFacts, NoneAssumption
  <2>2. UNCHANGED <<files, run, env, report, server, printed, raced>>
    BY <1>9 DEF CreateApp
  <2>3. \A q \in Runs : HasDb(q)'
    BY <1>t, <2>1, <2>2, HasDbKept
  <2> QED
    BY <1>t, <2>1, <2>2, <2>3, TypeParts DEF VarsOK
<1>10. ASSUME NEW dir \in Dirs, NEW b \in Dbs, StartOver(dir, b) PROVE TypeOK'
  <2>1. /\ files' \in [Dirs -> Runs \cup {None}] /\ dbs' \in [Dbs -> Db \cup {None}]
        /\ printed' \subseteq Runs /\ raced' \subseteq Dirs /\ report' = None
        /\ UNCHANGED <<run, env, server>>
    BY <1>10, <1>t DEF StartOver, VarsOK
  <2>2. \A q \in Runs : HasDb(q)'
    BY <1>10 DEF StartOver, HasDb, Going
  <2> QED
    BY <1>t, <2>1, <2>2, TypeParts DEF VarsOK
<1> QED
  BY <1>1, <1>2, <1>3, <1>4, <1>5, <1>6, <1>7, <1>8, <1>9, <1>10, StepKinds

LEMMA NextTyped == Typed /\ [Next]_vars => Typed'
<1>1. ASSUME Typed, UNCHANGED vars PROVE Typed'
  BY <1>1 DEF Typed, Vouched, vars, TypeOK, Going, DbOf
<1> QED
  BY <1>1, StepTyped, VouchedStep DEF Typed

LEMMA AlwaysTyped == Spec => []Typed
  BY InitTyped, NextTyped, PTL DEF Spec

(* Every variable of the installation keeps its type, and a run that       *)
(* writes rows has its database.                                           *)
THEOREM InstallationTypeCorrect == Spec => []TypeOK
<1>1. Typed => TypeOK
  BY DEF Typed
<1> QED
  BY <1>1, AlwaysTyped, PTL

-----------------------------------------------------------------------------
(* The doctor.                                                             *)

(* A green doctor means that the server starts: no optional setting but    *)
(* what it probes is left (doctor.ts against main of node.ts).             *)
THEOREM GreenAlwaysStarts == Spec => []GreenStarts
<1>1. ASSUME Typed PROVE GreenStarts
  <2> SUFFICES ASSUME report # None, report.env = "green", report.masterKey = "green",
                      report.jwks = "green", report.db # "red", env.spare # "bad",
                      env.tuning = "ok"
               PROVE  Starts(env)
    BY <1>1 DEF GreenStarts, Typed, Vouched
  <2>1. env \in Env
    BY <1>1, EnvAssumption DEF Typed, TypeOK
  <2>2. ~EnvErrors(env) /\ ~EnvWarnings(env)
    BY <1>1 DEF Typed, Vouched, EnvProbe
  <2>3. env.signing = "ok"
    BY <1>1 DEF Typed, Vouched, JwksProbe
  <2>4. env.issuer = "set"
    BY <2>1, <2>2 DEF Env, EnvErrors, EnvWarnings
  <2>5. OpensStorage(env)
    BY <1>1, <2>1, <2>2 DEF Env, EnvErrors, OpensStorage, UsesSqlite, Typed, Vouched
  <2>6. ProviderStarts(env)
    BY <1>1, <2>1, <2>2 DEF Env, EnvErrors, ProviderStarts, Typed, Vouched
  <2> QED
    BY <2>3, <2>4, <2>5, <2>6 DEF Starts, OidcStarts, TuningAccepted
<1> QED
  BY <1>1, AlwaysTyped, PTL

-----------------------------------------------------------------------------
(* What a run has done stays.                                              *)

(* Only starting over, which needs every run to be over, takes anything    *)
(* away.                                                                   *)
Grows(rows, more) ==
  /\ rows.key # None => more.key = rows.key
  /\ \A m \in Emails : rows.users[m] # None => more.users[m] = rows.users[m]
  /\ rows.workspaces \subseteq more.workspaces
  /\ rows.tokens \subseteq more.tokens
  /\ rows.audited \subseteq more.audited

NothingLost ==
  /\ \A d \in Dirs : files[d] # None => files'[d] # None
  /\ \A b \in Dbs : dbs[b] # None => dbs'[b] # None /\ Grows(dbs[b], dbs'[b])

LEMMA StepLosesNothing ==
  ASSUME Typed, Next, ~\E dir \in Dirs, b \in Dbs : StartOver(dir, b)
  PROVE  NothingLost
<1>t. TypeOK /\ env \in Env
  BY EnvAssumption DEF Typed, TypeOK
<1>1. \A b \in Dbs : dbs[b] # None => dbs'[b] # None
  BY DbsStay
<1>2. \A d \in Dirs : files[d] # None => files'[d] # None
  <2>1. ASSUME NEW r \in Runs, WriteKey(r) PROVE \A d \in Dirs : files[d] # None => files'[d] # None
    BY <1>t, <2>1, RunAssumption DEF WriteKey, TypeOK
  <2> QED
    BY <2>1, StepKinds DEF Begin, CheckFile, OpenDb, PrintSummary, Stores, Passes,
       DoctorOpens, DoctorReads, Boot, Stop, CreateApp
<1>3. CASE \A b \in Dbs : dbs[b] # None => dbs'[b] = dbs[b]
  BY <1>1, <1>2, <1>3 DEF NothingLost, Grows
<1>4. ASSUME NEW r \in Runs, Stores(r) PROVE NothingLost
  <2>1. PICK rows : Row(r, rows) /\ Store(r, rows)
    BY <1>4 DEF Stores
  <2>2. Grows(DbOf(r), rows) /\ run[r] # None /\ rows \in Db
    BY <1>t, <2>1, RowFacts DEF Grows
  <2>3. dbs'[run[r].db] = rows /\ \A b \in Dbs \ {run[r].db} : dbs'[b] = dbs[b]
    BY <1>t, <2>1, <2>2, StoreFacts
  <2> QED
    BY <1>1, <1>2, <2>2, <2>3 DEF NothingLost, Grows, DbOf
<1>5. CASE CreateApp
  <2> DEFINE b == SqlitePath(env)
             k == files[env.dir]
  <2>1. dbs[b] \in Db /\ dbs'[b] = [dbs[b] EXCEPT !.app = k]
        /\ \A c \in Dbs \ {b} : dbs'[c] = dbs[c]
    BY <1>5, SealFacts
  <2> HIDE DEF b, k
  <2>2. Grows(dbs[b], dbs'[b])
    BY <2>1 DEF Grows, Db
  <2> QED
    BY <1>1, <1>2, <2>1, <2>2 DEF NothingLost, Grows
<1>6. ASSUME NEW r \in Runs, OpenDb(r) PROVE \A b \in Dbs : dbs[b] # None => dbs'[b] = dbs[b]
  BY <1>6, <1>t, RunFacts, OpenedFacts DEF OpenDb, At
<1>7. ASSUME DoctorOpens \/ Boot PROVE \A b \in Dbs : dbs[b] # None => dbs'[b] = dbs[b]
  BY <1>7, <1>t, OpenedFacts, PathFacts DEF DoctorOpens, Boot
<1>8. UNCHANGED dbs => \A b \in Dbs : dbs[b] # None => dbs'[b] = dbs[b]
  OBVIOUS
<1> QED
  BY <1>3, <1>4, <1>5, <1>6, <1>7, <1>8, StepKinds
     DEF Begin, CheckFile, WriteKey, PrintSummary, Passes, DoctorReads, Stop

(* What is said of a run that does not move.                               *)
LEMMA DoneKept ==
  ASSUME Typed, NothingLost, NEW q \in Runs, run'[q] = run[q],
         q \in printed' => q \in printed,
         DoneBy(q)
  PROVE  DoneBy(q)'
<1>1. CASE run[q] = None
  BY <1>1 DEF DoneBy, Reached
<1>2. CASE run[q] # None
  <2>1. run[q].dir \in Dirs /\ run[q].db \in Dbs /\ run[q].email \in Emails
        /\ run[q].dir # None /\ q # None
    BY <1>2, RunFacts, RunAssumption, PathAssumption DEF Typed
  <2>2. ASSUME NEW steps, Reached(q, steps)' PROVE Reached(q, steps)
    BY <2>2 DEF Reached
  <2>3. Reached(q, {"insert"} \cup FromUser) => DbOf(q) # None
    BY <1>2 DEF Reached, DoneBy, Typed, TypeOK, Going, FromUser, FromWorkspace, FromToken
  <2>4. DbOf(q) # None => DbOf(q)' # None /\ Grows(DbOf(q), DbOf(q)')
    BY <1>2, <2>1 DEF DbOf, NothingLost
  <2>5. q \in printed' => DbOf(q)' # None /\ run'[q] # None /\ run'[q].pc = "over"
    BY <1>2, <2>4 DEF DoneBy
  <2>6. Reached(q, {"insert"} \cup FromUser)' => files'[run'[q].dir] # None
    BY <2>1, <2>2 DEF DoneBy, NothingLost
  <2>7. ASSUME NEW steps \in SUBSET FromUser, Reached(q, steps)
        PROVE  DbOf(q) # None /\ Grows(DbOf(q), DbOf(q)')
    BY <2>3, <2>4, <2>7 DEF Reached
  <2>8. Reached(q, FromUser)' => DbOf(q)'.key = run'[q].dir
    BY <2>1, <2>2, <2>7 DEF DoneBy, Grows
  <2>9. Reached(q, {"password"} \cup FromWorkspace)' => DbOf(q)'.users[run'[q].email] = q
    <3>1. {"password"} \cup FromWorkspace \in SUBSET FromUser
      BY DEF FromUser
    <3> QED
      BY <2>1, <2>2, <2>7, <3>1 DEF DoneBy, Grows
  <2>10. Reached(q, {"workspace audit"} \cup FromToken)' => q \in DbOf(q)'.workspaces
    <3>1. {"workspace audit"} \cup FromToken \in SUBSET FromUser
      BY DEF FromUser, FromWorkspace
    <3> QED
      BY <2>2, <2>7, <3>1 DEF DoneBy, Grows
  <2>11. Reached(q, FromToken)' => <<q, "workspace.create">> \in DbOf(q)'.audited
    <3>1. FromToken \in SUBSET FromUser
      BY DEF FromUser, FromWorkspace
    <3> QED
      BY <2>2, <2>7, <3>1 DEF DoneBy, Grows
  <2>12. Reached(q, {"token audit", "print"})' => q \in DbOf(q)'.tokens
    <3>1. {"token audit", "print"} \in SUBSET FromUser
      BY DEF FromUser, FromWorkspace, FromToken
    <3> QED
      BY <2>2, <2>7, <3>1 DEF DoneBy, Grows
  <2>13. Reached(q, {"print"})' => <<q, "api_token.create">> \in DbOf(q)'.audited
    <3>1. {"print"} \in SUBSET FromUser
      BY DEF FromUser, FromWorkspace, FromToken
    <3> QED
      BY <2>2, <2>7, <3>1 DEF DoneBy, Grows
  <2> QED
    BY <2>5, <2>6, <2>8, <2>9, <2>10, <2>11, <2>12, <2>13 DEF DoneBy
<1> QED
  BY <1>1, <1>2

(* What each stored row adds, and the step its run is at then.             *)
LEMMA RowAdds ==
  ASSUME TypeOK, NEW r \in Runs, NEW rows, Row(r, rows)
  PROVE  /\ run[r].pc = "insert" => Goes(r, "user") /\ rows.key = run[r].dir
         /\ run[r].pc = "user" => /\ Goes(r, "password") \/ Goes(r, "workspace")
                                  /\ rows.users[run[r].email] = r
         /\ run[r].pc = "password" => Goes(r, "workspace")
         /\ run[r].pc = "workspace" => Goes(r, "workspace audit") /\ r \in rows.workspaces
         /\ run[r].pc = "workspace audit" =>
              Goes(r, "token") /\ <<r, "workspace.create">> \in rows.audited
         /\ run[r].pc = "token" => Goes(r, "token audit") /\ r \in rows.tokens
         /\ run[r].pc = "token audit" =>
              Goes(r, "print") /\ <<r, "api_token.create">> \in rows.audited
<1>1. DbOf(r) \in Db /\ run[r].email \in Emails
  BY RowFacts, RunFacts
<1> QED
  BY <1>1 DEF Row, At, Db

LEMMA StoresDone ==
  ASSUME Typed, NothingLost, NEW r \in Runs, DoneBy(r), Stores(r)
  PROVE  DoneBy(r)'
<1>1. PICK rows : Row(r, rows) /\ Store(r, rows)
  BY DEF Stores
<1>2. /\ TypeOK /\ run[r] # None /\ run[r].pc \in {"insert"} \cup FromUser
      /\ DbOf(r) \in Db /\ rows \in Db /\ rows # None /\ Grows(DbOf(r), rows)
  BY <1>1, RowFacts, NoneAssumption DEF Typed, Grows
<1>3. PICK pc \in FromUser : Goes(r, pc)
  BY <1>1, <1>2, RowFacts
<1>4. pc \in Steps \cup {"over"}
  BY DEF FromUser, FromWorkspace, FromToken, Steps
<1>5. /\ run'[r] # None /\ run'[r].pc = pc /\ run'[r].dir = run[r].dir
      /\ run'[r].db = run[r].db /\ run'[r].email = run[r].email
  BY <1>2, <1>3, <1>4, GoesFacts
<1>6. DbOf(r)' = rows
  BY <1>1, <1>2, <1>5, StoreFacts DEF DbOf
<1>7. r \notin printed /\ printed' = printed
  BY <1>2 DEF DoneBy, Stores, FromUser, FromWorkspace, FromToken
<1>8. files'[run'[r].dir] # None
  BY <1>2, <1>5 DEF DoneBy, Reached, Stores
<1>9. run[r].pc # "insert" => DbOf(r).key = run[r].dir /\ rows.key = run[r].dir
  BY <1>2, RunFacts, PathAssumption DEF DoneBy, Reached, Grows
<1>10. \A s : run[r].pc = s => Reached(r, {s})
  BY <1>2 DEF Reached
<1>11. \A s : Goes(r, s) /\ s \in Steps => pc = s
  BY <1>2, <1>5, GoesFacts
<1>12. /\ run[r].pc = "insert" => pc = "user" /\ rows.key = run[r].dir
       /\ run[r].pc = "user" => pc \in {"password", "workspace"} /\ rows.users[run[r].email] = r
       /\ run[r].pc = "password" => pc = "workspace"
       /\ run[r].pc = "workspace" => pc = "workspace audit" /\ r \in rows.workspaces
       /\ run[r].pc = "workspace audit" => pc = "token" /\ <<r, "workspace.create">> \in rows.audited
       /\ run[r].pc = "token" => pc = "token audit" /\ r \in rows.tokens
       /\ run[r].pc = "token audit" => pc = "print" /\ <<r, "api_token.create">> \in rows.audited
       /\ run[r].pc # "print"
  BY <1>1, <1>2, <1>11, RowAdds DEF Steps, Row, At
<1>13. run[r].pc \in {"password"} \cup FromWorkspace => rows.users[run[r].email] = r
  BY <1>2, RunFacts, RunAssumption DEF DoneBy, Reached, Grows
<1>14. run[r].pc \in {"workspace audit"} \cup FromToken => r \in rows.workspaces
  BY <1>2 DEF DoneBy, Reached, Grows
<1>15. run[r].pc \in FromToken => <<r, "workspace.create">> \in rows.audited
  BY <1>2 DEF DoneBy, Reached, Grows
<1>16. run[r].pc \in {"token audit", "print"} => r \in rows.tokens
  BY <1>2 DEF DoneBy, Reached, Grows
<1>17. rows.key = run[r].dir
  BY <1>9, <1>12
<1>18. pc \in {"password"} \cup FromWorkspace => rows.users[run[r].email] = r
  BY <1>2, <1>12, <1>13 DEF FromUser, FromWorkspace, FromToken
<1>19. pc \in {"workspace audit"} \cup FromToken => r \in rows.workspaces
  BY <1>2, <1>12, <1>14 DEF FromUser, FromWorkspace, FromToken
<1>20. pc \in FromToken => <<r, "workspace.create">> \in rows.audited
  BY <1>2, <1>12, <1>15 DEF FromUser, FromWorkspace, FromToken
<1>21. pc \in {"token audit", "print"} => r \in rows.tokens
  BY <1>2, <1>12, <1>16 DEF FromUser, FromWorkspace, FromToken
<1>22. pc \in {"print"} => <<r, "api_token.create">> \in rows.audited
  BY <1>2, <1>12 DEF FromUser, FromWorkspace, FromToken
<1> QED
  BY <1>5, <1>6, <1>7, <1>8, <1>17, <1>18, <1>19, <1>20, <1>21, <1>22 DEF DoneBy, Reached

LEMMA PrintDone ==
  ASSUME Typed, NEW r \in Runs, DoneBy(r), PrintSummary(r)
  PROVE  DoneBy(r)'
<1>1. /\ TypeOK /\ run[r] # None /\ run[r].pc = "print" /\ Goes(r, "over")
      /\ printed' = printed \cup {r} /\ UNCHANGED <<files, dbs>>
  BY DEF PrintSummary, At, Typed
<1>2. /\ run'[r] # None /\ run'[r].pc = "over" /\ run'[r].dir = run[r].dir
      /\ run'[r].db = run[r].db /\ run'[r].email = run[r].email
  BY <1>1, GoesFacts
<1>3. DbOf(r)' = DbOf(r) /\ DbOf(r) # None
  BY <1>1, <1>2 DEF DbOf, TypeOK, Going
<1>4. ASSUME NEW steps, "print" \in steps PROVE Reached(r, steps)
  BY <1>1, <1>4 DEF Reached
<1> QED
  BY <1>1, <1>2, <1>3, <1>4 DEF DoneBy, FromUser, FromWorkspace, FromToken

LEMMA DoneStep ==
  ASSUME Typed, \A q \in Runs : DoneBy(q), Next,
         ~\E dir \in Dirs, b \in Dbs : StartOver(dir, b)
  PROVE  \A q \in Runs : DoneBy(q)'
<1>l. NothingLost /\ TypeOK
  BY StepLosesNothing DEF Typed
<1>1. CASE UNCHANGED <<run, printed>>
  BY <1>l, <1>1, DoneKept
<1>2. ASSUME NEW r \in Runs, \A q \in Runs \ {r} : run'[q] = run[q],
             printed' \subseteq printed \cup {r}, DoneBy(r)'
      PROVE  \A q \in Runs : DoneBy(q)'
  BY <1>l, <1>2, DoneKept
<1>3. ASSUME NEW r \in Runs, \A q \in Runs \ {r} : run'[q] = run[q], printed' = printed,
             run[r] # None => run[r].pc # "over", run'[r] # None,
             run'[r].pc \in {"file", "open", "email", "row", "write", "over"}
      PROVE  \A q \in Runs : DoneBy(q)'
  <2>1. r \notin printed'
    BY <1>3 DEF DoneBy
  <2>2. DoneBy(r)'
    BY <1>3, <2>1 DEF DoneBy, Reached, FromUser, FromWorkspace, FromToken
  <2> QED
    BY <1>2, <1>3, <2>2
<1>4. ASSUME NEW r \in Runs, NEW c \in Commands, Begin(r, c) PROVE \A q \in Runs : DoneBy(q)'
  <2> DEFINE n == [pc |-> "file", dir |-> c.dir, db |-> c.db, email |-> c.email,
                   password |-> c.password]
  <2>1. n \in Run /\ n.pc = "file"
    BY CommandAssumption DEF Command, Run, Steps
  <2>2. run' = [run EXCEPT ![r] = n] /\ printed' = printed /\ run[r] = None
    BY <1>4 DEF Begin
  <2> HIDE DEF n
  <2>3. n # None /\ run'[r] = n /\ \A x \in Runs \ {r} : run'[x] = run[x]
    BY <1>l, <2>1, <2>2, NoneAssumption DEF TypeOK
  <2> QED
    BY <1>3, <2>1, <2>2, <2>3
<1>5. ASSUME NEW r \in Runs, run[r] # None, run[r].pc # "over", printed' = printed,
             NEW pc \in {"open", "email", "row", "write", "over"}, Goes(r, pc)
      PROVE  \A q \in Runs : DoneBy(q)'
  <2>1. pc \in Steps \cup {"over"}
    BY DEF Steps
  <2> QED
    BY <1>l, <1>3, <1>5, <2>1, GoesFacts
<1>6. ASSUME NEW r \in Runs, CheckFile(r) PROVE \A q \in Runs : DoneBy(q)'
  BY <1>5, <1>6 DEF CheckFile, At
<1>7. ASSUME NEW r \in Runs, OpenDb(r) PROVE \A q \in Runs : DoneBy(q)'
  BY <1>5, <1>7 DEF OpenDb, At
<1>8. ASSUME NEW r \in Runs, Passes(r) PROVE \A q \in Runs : DoneBy(q)'
  BY <1>5, <1>8 DEF Passes, Going
<1>9. ASSUME NEW r \in Runs, WriteKey(r) PROVE \A q \in Runs : DoneBy(q)'
  <2>1. run[r] # None /\ run[r].pc = "write" /\ Goes(r, "insert") /\ "insert" \in Steps
        /\ printed' = printed /\ files' = [files EXCEPT ![run[r].dir] = r]
    BY <1>9 DEF WriteKey, At, Steps
  <2>2. /\ run'[r] # None /\ run'[r].pc = "insert" /\ run'[r].dir = run[r].dir
        /\ \A q \in Runs \ {r} : run'[q] = run[q]
    BY <1>l, <2>1, GoesFacts
  <2>3. files'[run'[r].dir] # None
    BY <1>l, <2>1, <2>2, RunFacts, RunAssumption DEF TypeOK
  <2>4. r \notin printed'
    BY <2>1 DEF DoneBy
  <2>5. DoneBy(r)'
    BY <2>2, <2>3, <2>4 DEF DoneBy, Reached, FromUser, FromWorkspace, FromToken
  <2> QED
    BY <1>2, <2>1, <2>2, <2>5
<1>10. ASSUME NEW r \in Runs, PrintSummary(r) PROVE \A q \in Runs : DoneBy(q)'
  <2>1. DoneBy(r)'
    BY <1>10, PrintDone
  <2>2. run[r] # None /\ Goes(r, "over") /\ printed' = printed \cup {r}
    BY <1>10 DEF PrintSummary, At
  <2> QED
    BY <1>2, <1>l, <2>1, <2>2, GoesFacts
<1>11. ASSUME NEW r \in Runs, Stores(r) PROVE \A q \in Runs : DoneBy(q)'
  <2>1. DoneBy(r)'
    BY <1>l, <1>11, StoresDone
  <2>2. PICK rows : Row(r, rows)
    BY <1>11 DEF Stores
  <2>3. PICK pc \in FromUser : Goes(r, pc)
    BY <1>l, <2>2, RowFacts
  <2>4. run[r] # None /\ pc \in Steps \cup {"over"}
    BY <1>l, <2>2, RowFacts DEF FromUser, FromWorkspace, FromToken, Steps
  <2>5. printed' = printed
    BY <1>11 DEF Stores
  <2> QED
    BY <1>2, <1>l, <2>1, <2>3, <2>4, <2>5, GoesFacts
<1> QED
  BY <1>1, <1>4, <1>6, <1>7, <1>8, <1>9, <1>10, <1>11, StepKinds
     DEF DoctorOpens, DoctorReads, Boot, Stop, CreateApp

(* Starting over: what it takes is what no printed summary that is left    *)
(* speaks of.                                                              *)
LEMMA DoneOver ==
  ASSUME Typed, \A q \in Runs : DoneBy(q), NEW dir \in Dirs, NEW b \in Dbs, StartOver(dir, b)
  PROVE  \A q \in Runs : DoneBy(q)'
<1>1. /\ run' = run /\ printed' = {q \in printed : run[q].db # b}
      /\ files' = [files EXCEPT ![dir] = None] /\ dbs' = [dbs EXCEPT ![b] = None]
      /\ \A q \in Runs : run[q] # None => run[q].pc = "over"
  BY DEF StartOver, Going
<1> SUFFICES ASSUME NEW q \in Runs, q \in printed' PROVE DoneBy(q)'
  BY <1>1 DEF DoneBy, Reached, FromUser, FromWorkspace, FromToken
<1>2. q \in printed /\ run[q] # None /\ run[q].db # b /\ DbOf(q) # None
  BY <1>1 DEF DoneBy
<1>3. \A steps : Reached(q, steps)
  BY <1>2 DEF Reached
<1>4. run[q].dir \in Dirs /\ run[q].db \in Dbs /\ DbOf(q).key = run[q].dir
  BY <1>2, <1>3, RunFacts DEF DoneBy, Typed
<1>5. run[q].dir # dir
  BY <1>2, <1>4 DEF StartOver, DbOf
<1>6. DbOf(q)' = DbOf(q) /\ files'[run[q].dir] = files[run[q].dir]
  BY <1>1, <1>2, <1>4, <1>5 DEF DbOf, Typed, TypeOK
<1> QED
  BY <1>1, <1>2, <1>3, <1>6 DEF DoneBy

-----------------------------------------------------------------------------
(* One run makes what a database holds.                                    *)

OneHeirOf(b) ==
  dbs[b] # None /\ Heirs(b) # {} => dbs[b].key # None /\ \A r, s \in Heirs(b) : r = s

LEMMA HeirFrame ==
  ASSUME Typed, NothingLost, NEW b \in Dbs, dbs[b] # None, OneHeirOf(b), Heirs(b)' \subseteq Heirs(b)
  PROVE  OneHeirOf(b)'
  BY DEF OneHeirOf, NothingLost, Grows

(* A database that was just made has none.                                 *)
LEMMA FreshDb ==
  ASSUME Typed, Typed', NEW b \in Dbs, dbs[b] = None, dbs'[b] = Empty,
         \A r \in Runs : run'[r] # None /\ run'[r].pc \in FromUser => run'[r] = run[r]
  PROVE  OneHeirOf(b)'
<1>1. ASSUME NEW r \in Runs, run'[r] # None, run'[r].db = b, run'[r].pc \in FromUser PROVE FALSE
  BY <1>1 DEF Typed, TypeOK, Going, DbOf, FromUser, FromWorkspace, FromToken
<1>2. Founders(dbs'[b]) = {}
  BY EmptyType
<1> QED
  BY <1>1, <1>2 DEF OneHeirOf, Heirs

LEMMA HeirStep ==
  ASSUME Typed, Typed', OneHeir, Next, ~\E dir \in Dirs, b \in Dbs : StartOver(dir, b)
  PROVE  OneHeir'
<1>l. NothingLost /\ TypeOK /\ env \in Env
  BY StepLosesNothing, EnvAssumption DEF Typed, TypeOK
<1>h. (\A b \in Dbs : OneHeirOf(b)) /\ ((\A b \in Dbs : OneHeirOf(b)') => OneHeir')
  BY DEF OneHeir, OneHeirOf
(* Nobody passes the key row and what is there before is not touched. *)
<1>1. ASSUME \A b \in Dbs : dbs'[b] = dbs[b] \/ (dbs[b] = None /\ dbs'[b] = Empty),
             \A r \in Runs : run'[r] # None /\ run'[r].pc \in FromUser => run'[r] = run[r]
      PROVE  OneHeir'
  <2>1. ASSUME NEW b \in Dbs, dbs[b] # None PROVE OneHeirOf(b)'
    <3>1. dbs'[b] = dbs[b]
      BY <1>1, <2>1
    <3>2. Heirs(b)' \subseteq Heirs(b)
      BY <1>1, <3>1 DEF Heirs
    <3> QED
      BY <1>l, <1>h, <2>1, <3>2, HeirFrame
  <2>2. ASSUME NEW b \in Dbs, dbs[b] = None PROVE OneHeirOf(b)'
    <3>1. CASE dbs'[b] = Empty
      BY <1>1, <2>2, <3>1, FreshDb
    <3> QED
      BY <1>1, <2>2, <3>1 DEF OneHeirOf
  <2> QED
    BY <1>h, <2>1, <2>2
<1>2. ASSUME NEW r \in Runs, run[r] # None, NEW pc \in (Steps \cup {"over"}) \ FromUser, Goes(r, pc),
             \A b \in Dbs : dbs'[b] = dbs[b] \/ (dbs[b] = None /\ dbs'[b] = Empty)
      PROVE  OneHeir'
  <2>1. run'[r].pc = pc /\ \A q \in Runs \ {r} : run'[q] = run[q]
    BY <1>l, <1>2, GoesFacts
  <2> QED
    BY <1>1, <1>2, <2>1
<1>3. \A pc \in {"open", "email", "row", "write", "insert", "over"} :
        pc \in (Steps \cup {"over"}) \ FromUser
  BY DEF Steps, FromUser, FromWorkspace, FromToken
<1>4. ASSUME NEW r \in Runs, NEW c \in Commands, Begin(r, c) PROVE OneHeir'
  <2> DEFINE n == [pc |-> "file", dir |-> c.dir, db |-> c.db, email |-> c.email,
                   password |-> c.password]
  <2>1. n.pc \notin FromUser
    BY DEF FromUser, FromWorkspace, FromToken
  <2>2. run' = [run EXCEPT ![r] = n] /\ dbs' = dbs
    BY <1>4 DEF Begin
  <2> HIDE DEF n
  <2>3. run'[r] = n /\ \A x \in Runs \ {r} : run'[x] = run[x]
    BY <1>l, <2>2 DEF TypeOK
  <2> QED
    BY <1>1, <2>1, <2>2, <2>3
<1>5. ASSUME NEW r \in Runs, CheckFile(r) PROVE OneHeir'
  BY <1>2, <1>3, <1>5 DEF CheckFile, At
<1>6. ASSUME NEW r \in Runs, OpenDb(r) PROVE OneHeir'
  <2>1. run[r] # None /\ Goes(r, "email") /\ dbs' = Opened(run[r].db) /\ run[r].db \in Dbs
    BY <1>6, <1>l, RunFacts DEF OpenDb, At
  <2>2. \A b \in Dbs : dbs'[b] = dbs[b] \/ (dbs[b] = None /\ dbs'[b] = Empty)
    BY <1>l, <2>1, OpenedFacts
  <2> QED
    BY <1>2, <1>3, <2>1, <2>2
<1>7. ASSUME NEW r \in Runs, WriteKey(r) PROVE OneHeir'
  BY <1>2, <1>3, <1>7 DEF WriteKey, At
<1>8. ASSUME NEW r \in Runs, PrintSummary(r) PROVE OneHeir'
  BY <1>2, <1>3, <1>8 DEF PrintSummary, At
<1>9. ASSUME NEW r \in Runs, Passes(r) PROVE OneHeir'
  BY <1>2, <1>3, <1>9 DEF Passes, Going
<1>10. ASSUME DoctorOpens \/ Boot \/ DoctorReads \/ Stop PROVE OneHeir'
  <2>1. run' = run /\ dbs' \in {dbs, Opened(SqlitePath(env))}
    BY <1>10 DEF DoctorOpens, Boot, DoctorReads, Stop
  <2>2. \A b \in Dbs : dbs'[b] = dbs[b] \/ (dbs[b] = None /\ dbs'[b] = Empty)
    <3>1. CASE dbs' = Opened(SqlitePath(env))
      BY <1>l, <3>1, OpenedFacts, PathFacts
    <3> QED
      BY <2>1, <3>1
  <2> QED
    BY <1>1, <2>1, <2>2
<1>11. CASE CreateApp
  <2> DEFINE b == SqlitePath(env)
             k == files[env.dir]
  <2>1. dbs[b] \in Db /\ dbs'[b] = [dbs[b] EXCEPT !.app = k] /\ b \in Dbs
        /\ (\A c \in Dbs \ {b} : dbs'[c] = dbs[c]) /\ run' = run
    BY <1>11, SealFacts DEF CreateApp
  <2> HIDE DEF b, k
  <2>2. Founders(dbs'[b]) = Founders(dbs[b])
    <3>1. /\ dbs'[b].users = dbs[b].users /\ dbs'[b].workspaces = dbs[b].workspaces
          /\ dbs'[b].tokens = dbs[b].tokens
      BY <2>1 DEF Db
    <3> QED
      BY <3>1 DEF Founders
  <2>3. \A c \in Dbs : Heirs(c)' = Heirs(c)
    BY <2>1, <2>2 DEF Heirs
  <2>4. \A c \in Dbs : dbs[c] = None => dbs'[c] = None
    BY <2>1, NoneAssumption
  <2>5. ASSUME NEW c \in Dbs PROVE OneHeirOf(c)'
    <3>1. CASE dbs[c] = None
      BY <2>4, <3>1 DEF OneHeirOf
    <3> QED
      BY <1>h, <1>l, <2>3, <3>1, HeirFrame
  <2> QED
    BY <1>h, <2>5
<1>12. ASSUME NEW r \in Runs, Stores(r) PROVE OneHeir'
  <2>1. PICK rows : Row(r, rows) /\ Store(r, rows)
    BY <1>12 DEF Stores
  <2>2. PICK pc \in FromUser : Goes(r, pc)
    BY <1>l, <2>1, RowFacts
  <2>d. PICK d \in Dbs : d = run[r].db
    BY <1>l, <2>1, RowFacts, RunFacts
  <2>3. /\ run[r] # None /\ rows \in Db /\ dbs[d] \in Db /\ run[r].pc \in {"insert"} \cup FromUser
        /\ Founders(rows) \subseteq Founders(dbs[d]) \cup {r}
        /\ run[r].pc = "insert" => dbs[d].key = None /\ rows.key # None
                                   /\ Founders(rows) = Founders(dbs[d])
        /\ pc \in Steps \cup {"over"}
    BY <1>l, <2>1, RowFacts, <2>d DEF FromUser, FromWorkspace, FromToken, Steps, DbOf
  <2>4. dbs'[d] = rows /\ \A b \in Dbs \ {d} : dbs'[b] = dbs[b]
    BY <1>l, <2>1, <2>d, <2>3, StoreFacts
  <2>5. run'[r] # None /\ run'[r].db = d /\ \A q \in Runs \ {r} : run'[q] = run[q]
    BY <1>l, <2>2, <2>d, <2>3, GoesFacts
  <2>6. ASSUME NEW b \in Dbs, b # d PROVE OneHeirOf(b)'
    <3>1. dbs'[b] = dbs[b] /\ Heirs(b)' \subseteq Heirs(b)
      BY <2>4, <2>5, <2>6 DEF Heirs
    <3> QED
      BY <1>h, <3>1 DEF OneHeirOf
  <2>7. CASE run[r].pc = "insert"
    <3>1. Heirs(d) = {}
      BY <1>h, <2>3, <2>7, NoneAssumption DEF OneHeirOf
    <3>2. Heirs(d)' \subseteq {r}
      BY <2>3, <2>4, <2>5, <2>7, <3>1 DEF Heirs
    <3>3. OneHeirOf(d)'
      BY <2>3, <2>4, <2>7, <3>2 DEF OneHeirOf
    <3> QED
      BY <1>h, <2>6, <3>3
  <2>8. CASE run[r].pc \in FromUser
    <3>1. r \in Heirs(d)
      BY <2>d, <2>3, <2>8 DEF Heirs
    <3>2. Heirs(d)' \subseteq Heirs(d)
      BY <2>3, <2>4, <2>5, <3>1 DEF Heirs
    <3>3. OneHeirOf(d)'
      BY <1>h, <1>l, <2>3, <3>2, HeirFrame, NoneAssumption
    <3> QED
      BY <1>h, <2>6, <3>3
  <2> QED
    BY <2>3, <2>7, <2>8
<1> QED
  BY <1>4, <1>5, <1>6, <1>7, <1>8, <1>9, <1>10, <1>11, <1>12, StepKinds

LEMMA HeirOver ==
  ASSUME Typed, OneHeir, NEW dir \in Dirs, NEW b \in Dbs, StartOver(dir, b)
  PROVE  OneHeir'
<1>1. run' = run /\ dbs'[b] = None /\ \A c \in Dbs \ {b} : dbs'[c] = dbs[c]
  BY DEF StartOver, Typed, TypeOK
<1> QED
  BY <1>1 DEF OneHeir, Heirs

-----------------------------------------------------------------------------
(* The key of an app.                                                      *)

UndisturbedIn(dir) ==
  /\ files[dir] # None => About(dir) = {}
  /\ \A r, s \in About(dir) : r = s

AppsAreOurs ==
  \A b \in Dbs : dbs[b] # None /\ dbs[b].app # None => b = SqlitePath(env) /\ env.dir \in Dirs

LEMMA KeyParts ==
  /\ KeyUndisturbed <=> AppsAreOurs /\ \A dir \in Dirs \ raced : UndisturbedIn(dir)
  /\ KeyUndisturbed' <=> AppsAreOurs' /\ \A dir \in Dirs \ raced' : UndisturbedIn(dir)'
  BY DEF KeyUndisturbed, AppsAreOurs, UndisturbedIn

(* Where no file changes and nobody sets about writing one.                *)
LEMMA AboutFrame ==
  ASSUME Typed, KeyUndisturbed, NEW dir \in Dirs \ raced, files'[dir] = files[dir],
         About(dir)' \subseteq About(dir)
  PROVE  UndisturbedIn(dir)'
  BY KeyParts DEF UndisturbedIn

LEMMA AboutStep ==
  ASSUME Typed, KeyUndisturbed, Next, ~\E dir \in Dirs, b \in Dbs : StartOver(dir, b)
  PROVE  /\ raced \subseteq raced'
         /\ \A dir \in Dirs \ raced' : UndisturbedIn(dir)'
         /\ \A dir \in Dirs \ raced' : files[dir] # None => files'[dir] = files[dir]
<1>t. TypeOK
  BY DEF Typed
<1> DEFINE Goal == /\ raced \subseteq raced'
                   /\ \A dir \in Dirs \ raced' : UndisturbedIn(dir)'
                   /\ \A dir \in Dirs \ raced' : files[dir] # None => files'[dir] = files[dir]
<1>1. ASSUME files' = files, raced \subseteq raced',
             \A dir \in Dirs \ raced' : About(dir)' \subseteq About(dir)
      PROVE  Goal
  BY <1>1, AboutFrame
<1>2. ASSUME NEW r \in Runs, run[r] # None, NEW pc \in Steps \cup {"over"}, Goes(r, pc),
             pc \in {"open", "email", "row", "write"} => r \in About(run[r].dir)
      PROVE  \A dir \in Dirs : About(dir)' \subseteq About(dir)
  <2>1. run'[r].pc = pc /\ run'[r].dir = run[r].dir /\ \A q \in Runs \ {r} : run'[q] = run[q]
    BY <1>2, <1>t, GoesFacts
  <2> QED
    BY <1>2, <2>1 DEF About, Going
<1>3. ASSUME NEW r \in Runs, NEW c \in Commands, Begin(r, c) PROVE Goal
  <2> DEFINE n == [pc |-> "file", dir |-> c.dir, db |-> c.db, email |-> c.email,
                   password |-> c.password]
  <2>1. n.pc \notin {"open", "email", "row", "write"}
    OBVIOUS
  <2>2. run' = [run EXCEPT ![r] = n] /\ UNCHANGED <<files, raced>>
    BY <1>3 DEF Begin
  <2> HIDE DEF n
  <2>3. run'[r] = n /\ \A x \in Runs \ {r} : run'[x] = run[x]
    BY <1>t, <2>2 DEF TypeOK
  <2>4. \A dir \in Dirs : About(dir)' \subseteq About(dir)
    BY <2>1, <2>3 DEF About, Going
  <2> QED
    BY <1>1, <2>2, <2>4
<1>4. ASSUME NEW r \in Runs, CheckFile(r) PROVE Goal
  <2>d. PICK d \in Dirs : d = run[r].dir
    BY <1>4, <1>t, RunFacts DEF CheckFile, At
  <2>1. run[r] # None /\ run[r].pc = "file" /\ files' = files /\ raced \subseteq raced'
    BY <1>4 DEF CheckFile, At
  <2>2. CASE Goes(r, "over")
    <3>1. \A dir \in Dirs : About(dir)' \subseteq About(dir)
      BY <1>2, <2>1, <2>2
    <3> QED
      BY <1>1, <2>1, <3>1
  <2>3. CASE Goes(r, "open") /\ files[d] = None
    <3>1. About(d) # {} => d \in raced'
      BY <1>4, <2>d, <2>3 DEF CheckFile, RefusesFile
    <3>2. /\ run'[r].pc = "open" /\ run'[r].dir = d /\ run'[r] # None
          /\ \A q \in Runs \ {r} : run'[q] = run[q]
      BY <1>t, <2>d, <2>1, <2>3, GoesFacts DEF Steps
    <3>3. ASSUME d \notin raced' PROVE UndisturbedIn(d)'
      <4>1. About(d)' \subseteq {r}
        BY <3>1, <3>2, <3>3 DEF About, Going
      <4> QED
        BY <2>1, <2>3, <4>1 DEF UndisturbedIn
    <3>4. ASSUME NEW dir \in Dirs \ raced', dir # d PROVE UndisturbedIn(dir)'
      <4>1. About(dir)' \subseteq About(dir)
        BY <3>2, <3>4 DEF About, Going
      <4> QED
        BY <2>1, <3>4, <4>1, AboutFrame
    <3> QED
      BY <2>1, <3>3, <3>4
  <2> QED
    BY <1>4, <2>d, <2>2, <2>3 DEF CheckFile, RefusesFile
<1>5. ASSUME NEW r \in Runs, OpenDb(r) PROVE Goal
  <2>1. /\ run[r] # None /\ run[r].pc = "open" /\ Goes(r, "email") /\ "email" \in Steps
        /\ UNCHANGED <<files, raced>> /\ r \in About(run[r].dir)
    BY <1>5 DEF OpenDb, At, Steps, About, Going
  <2> QED
    BY <1>1, <1>2, <2>1
<1>6. ASSUME NEW r \in Runs, WriteKey(r) PROVE Goal
  <2>d. PICK d \in Dirs : d = run[r].dir
    BY <1>6, <1>t, RunFacts DEF WriteKey, At
  <2>1. /\ run[r] # None /\ run[r].pc = "write" /\ Goes(r, "insert") /\ "insert" \in Steps
        /\ files' = [files EXCEPT ![d] = r] /\ raced' = raced /\ r \in About(d)
    BY <1>6, <2>d DEF WriteKey, At, Steps, About, Going
  <2>2. /\ run'[r].pc = "insert" /\ \A q \in Runs \ {r} : run'[q] = run[q]
    BY <1>t, <2>1, GoesFacts
  <2>3. ASSUME NEW dir \in Dirs \ raced, dir # d
        PROVE  UndisturbedIn(dir)' /\ files'[dir] = files[dir]
    <3>1. files'[dir] = files[dir]
      BY <1>t, <2>1, <2>3 DEF TypeOK
    <3>2. About(dir)' \subseteq About(dir)
      BY <2>2 DEF About, Going
    <3> QED
      BY <3>1, <3>2, AboutFrame
  <2>4. ASSUME d \notin raced PROVE UndisturbedIn(d)' /\ files[d] = None
    <3>1. UndisturbedIn(d)
      BY <2>4, KeyParts
    <3>2. files[d] = None /\ About(d) = {r}
      BY <2>1, <3>1 DEF UndisturbedIn
    <3>3. About(d)' = {}
      BY <2>2, <3>2 DEF About, Going
    <3> QED
      BY <3>2, <3>3 DEF UndisturbedIn
  <2> QED
    BY <2>1, <2>3, <2>4
<1>7. ASSUME NEW r \in Runs, PrintSummary(r) PROVE Goal
  BY <1>1, <1>2, <1>7 DEF PrintSummary, At
<1>8. ASSUME NEW r \in Runs, Stores(r) PROVE Goal
  <2>1. PICK rows : Row(r, rows)
    BY <1>8 DEF Stores
  <2>2. PICK pc \in FromUser : Goes(r, pc)
    BY <1>t, <2>1, RowFacts
  <2>3. /\ run[r] # None /\ pc \in Steps \cup {"over"} /\ UNCHANGED <<files, raced>>
        /\ pc \notin {"open", "email", "row", "write"}
    BY <1>8, <1>t, <2>1, RowFacts DEF FromUser, FromWorkspace, FromToken, Steps, Stores
  <2> QED
    BY <1>1, <1>2, <2>2, <2>3
<1>9. ASSUME NEW r \in Runs, Passes(r) PROVE Goal
  <2>1. PICK pc \in {"over", "row", "write"} :
           Goes(r, pc) /\ (pc # "over" => run[r].pc \in {"email", "row"})
    BY <1>9 DEF Passes, At
  <2>2. run[r] # None /\ pc \in Steps \cup {"over"} /\ UNCHANGED <<files, raced>>
    BY <1>9 DEF Passes, Going, Steps
  <2>3. pc # "over" => r \in About(run[r].dir)
    BY <1>9, <2>1 DEF Passes, About
  <2> QED
    BY <1>1, <1>2, <2>1, <2>2, <2>3
<1>10. CASE UNCHANGED <<files, run, raced>>
  BY <1>1, <1>10 DEF About, Going
<1> QED
  BY <1>3, <1>4, <1>5, <1>6, <1>7, <1>8, <1>9, <1>10, StepKinds
     DEF DoctorOpens, DoctorReads, Boot, Stop, CreateApp

(* What apps there are, after a step.                                      *)
LEMMA AppsStep ==
  ASSUME Typed, Next, ~\E dir \in Dirs, b \in Dbs : StartOver(dir, b)
  PROVE  /\ env' = env
         /\ \A b \in Dbs : dbs'[b] # None /\ dbs'[b].app # None =>
              \/ dbs[b] # None /\ dbs'[b].app = dbs[b].app
              \/ /\ b = SqlitePath(env) /\ env.dir \in Dirs /\ files'[env.dir] = dbs'[b].app
<1>t. TypeOK /\ env \in Env
  BY EnvAssumption DEF Typed, TypeOK
<1> DEFINE Goal ==
      \A b \in Dbs : dbs'[b] # None /\ dbs'[b].app # None =>
              \/ dbs[b] # None /\ dbs'[b].app = dbs[b].app
              \/ /\ b = SqlitePath(env) /\ env.dir \in Dirs /\ files'[env.dir] = dbs'[b].app
<1>1. ASSUME \A b \in Dbs : dbs'[b] = dbs[b] \/ dbs'[b] = Empty PROVE Goal
  BY <1>1 DEF Empty
<1>2. ASSUME NEW r \in Runs, Stores(r) PROVE Goal
  <2>1. PICK rows : Row(r, rows) /\ Store(r, rows)
    BY <1>2 DEF Stores
  <2>2. /\ run[r] # None /\ run[r].db \in Dbs /\ DbOf(r) \in Db /\ rows \in Db
        /\ rows.app = DbOf(r).app
    BY <1>t, <2>1, RowFacts, RunFacts
  <2>3. dbs'[run[r].db] = rows /\ \A b \in Dbs \ {run[r].db} : dbs'[b] = dbs[b]
    BY <1>t, <2>1, <2>2, StoreFacts
  <2> QED
    BY <2>2, <2>3, NoneAssumption DEF DbOf
<1>3. ASSUME CreateApp PROVE Goal
  <2> DEFINE b == SqlitePath(env)
             k == files[env.dir]
  <2>1. /\ dbs[b] \in Db /\ dbs'[b] = [dbs[b] EXCEPT !.app = k] /\ env.dir \in Dirs
        /\ (\A c \in Dbs \ {b} : dbs'[c] = dbs[c]) /\ files' = files
    BY <1>3, SealFacts DEF CreateApp
  <2>2. dbs'[b].app = k
    BY <2>1 DEF Db
  <2>3. files'[env.dir] = dbs'[b].app
    BY <2>1, <2>2
  <2>4. b = SqlitePath(env)
    OBVIOUS
  <2> HIDE DEF b, k
  <2>5. ASSUME NEW c \in Dbs, dbs'[c] # None, dbs'[c].app # None
        PROVE  \/ dbs[c] # None /\ dbs'[c].app = dbs[c].app
               \/ c = b /\ files'[env.dir] = dbs'[b].app
    BY <2>1, <2>3, <2>5
  <2> QED
    BY <2>1, <2>4, <2>5
<1>4. ASSUME NEW r \in Runs, OpenDb(r) PROVE \A b \in Dbs : dbs'[b] = dbs[b] \/ dbs'[b] = Empty
  BY <1>4, <1>t, RunFacts, OpenedFacts DEF OpenDb, At
<1>5. ASSUME DoctorOpens \/ Boot PROVE \A b \in Dbs : dbs'[b] = dbs[b] \/ dbs'[b] = Empty
  <2>1. dbs' \in {dbs, Opened(SqlitePath(env))}
    BY <1>5 DEF DoctorOpens, Boot
  <2>2. CASE dbs' = Opened(SqlitePath(env))
    BY <1>t, <2>2, OpenedFacts, PathFacts
  <2> QED
    BY <2>1, <2>2
<1>6. UNCHANGED dbs => \A b \in Dbs : dbs'[b] = dbs[b] \/ dbs'[b] = Empty
  OBVIOUS
<1>7. env' = env
  BY StepKinds DEF Begin, CheckFile, OpenDb, WriteKey, PrintSummary, Stores, Passes,
     DoctorOpens, DoctorReads, Boot, Stop, CreateApp
<1>8. Goal
  BY <1>1, <1>2, <1>3, <1>4, <1>5, <1>6, StepKinds
     DEF Begin, CheckFile, WriteKey, PrintSummary, Passes, DoctorReads, Stop
<1> QED
  BY <1>7, <1>8

LEMMA KeyStep ==
  ASSUME Typed, KeyUndisturbed, AppKeepsKey, Next,
         ~\E dir \in Dirs, b \in Dbs : StartOver(dir, b)
  PROVE  KeyUndisturbed' /\ AppKeepsKey'
<1>1. /\ env' = env
      /\ \A b \in Dbs : dbs'[b] # None /\ dbs'[b].app # None =>
           \/ dbs[b] # None /\ dbs'[b].app = dbs[b].app
           \/ /\ b = SqlitePath(env) /\ env.dir \in Dirs /\ files'[env.dir] = dbs'[b].app
  BY AppsStep
<1>2. /\ raced \subseteq raced' /\ \A dir \in Dirs \ raced' : UndisturbedIn(dir)'
      /\ \A dir \in Dirs \ raced' : files[dir] # None => files'[dir] = files[dir]
  BY AboutStep
<1>3. AppsAreOurs
  BY KeyParts
<1>4. AppsAreOurs'
  BY <1>1, <1>3 DEF AppsAreOurs
<1>5. AppKeepsKey'
  BY <1>1, <1>2, <1>3 DEF AppKeepsKey, AppsAreOurs
<1> QED
  BY <1>2, <1>4, <1>5, KeyParts

(* Starting over takes the file and the database together, and no run is   *)
(* under way that could write either.                                      *)
LEMMA KeyOver ==
  ASSUME Typed, KeyUndisturbed, AppKeepsKey, NEW dir \in Dirs, NEW b \in Dbs, StartOver(dir, b)
  PROVE  KeyUndisturbed' /\ AppKeepsKey'
<1>1. /\ run' = run /\ env' = env /\ raced' = raced \ {dir}
      /\ files'[dir] = None /\ \A d \in Dirs \ {dir} : files'[d] = files[d]
      /\ dbs'[b] = None /\ \A c \in Dbs \ {b} : dbs'[c] = dbs[c]
      /\ \A r \in Runs : ~Going(r)
      /\ dir = env.dir <=> b = SqlitePath(env)
  BY DEF StartOver, Typed, TypeOK
<1>2. \A d : About(d)' = {}
  BY <1>1 DEF About, Going
<1>3. \A d \in Dirs : UndisturbedIn(d)'
  BY <1>2 DEF UndisturbedIn
<1>4. AppsAreOurs'
  BY <1>1, KeyParts DEF AppsAreOurs
<1>5. AppKeepsKey'
  BY <1>1, KeyParts DEF AppKeepsKey, AppsAreOurs
<1> QED
  BY <1>3, <1>4, <1>5, KeyParts

-----------------------------------------------------------------------------
(* The inductive invariant, and what follows from it.                      *)

LEMMA InitInv == Init => IInv
<1> SUFFICES ASSUME Init PROVE IInv
  OBVIOUS
<1>1. Typed
  BY InitTyped
<1>2. OneHeir /\ AppKeepsKey
  BY DEF Init, OneHeir, AppKeepsKey
<1>3. KeyUndisturbed
  BY DEF Init, KeyUndisturbed, About, Going
<1>4. \A r \in Runs : DoneBy(r)
  BY DEF Init, DoneBy, Reached
<1> QED
  BY <1>1, <1>2, <1>3, <1>4 DEF IInv, Typed

LEMMA NextInv == IInv /\ [Next]_vars => IInv'
<1> SUFFICES ASSUME IInv, [Next]_vars PROVE IInv'
  OBVIOUS
<1>1. Typed /\ Typed' /\ OneHeir /\ KeyUndisturbed /\ AppKeepsKey /\ \A q \in Runs : DoneBy(q)
  BY NextTyped DEF IInv, Typed
<1>2. ASSUME NEW dir \in Dirs, NEW b \in Dbs, StartOver(dir, b) PROVE IInv'
  BY <1>1, <1>2, DoneOver, HeirOver, KeyOver DEF IInv, Typed
<1>3. ASSUME Next, ~\E dir \in Dirs, b \in Dbs : StartOver(dir, b) PROVE IInv'
  BY <1>1, <1>3, DoneStep, HeirStep, KeyStep DEF IInv, Typed
<1>4. CASE UNCHANGED vars
  <2>1. OneHeir' /\ AppKeepsKey'
    BY <1>1, <1>4 DEF vars, OneHeir, Heirs, AppKeepsKey
  <2>2. KeyUndisturbed'
    BY <1>1, <1>4 DEF vars, KeyUndisturbed, About, Going
  <2>3. \A q \in Runs : DoneBy(q)'
    BY <1>1, <1>4 DEF vars, DoneBy, Reached, DbOf
  <2> QED
    BY <1>1, <2>1, <2>2, <2>3 DEF IInv, Typed
<1> QED
  BY <1>2, <1>3, <1>4

LEMMA AlwaysInv == Spec => []IInv
  BY InitInv, NextInv, PTL DEF Spec

(* However runs of bootstrap overlap and crash, one database has one       *)
(* founder: the unique version of master_keys lets one past.               *)
THEOREM OneFounderAlways == Spec => []OneFounder
<1>1. IInv => OneFounder
  BY DEF IInv, OneHeir, OneFounder, Heirs
<1> QED
  BY <1>1, AlwaysInv, PTL

(* With the .env of a summary that was printed the server starts and finds *)
(* its key, the admin's rows and their audit rows.                         *)
THEOREM SummariesWork == Spec => []SummaryWorks
<1>1. ASSUME IInv, NEW r \in printed
      PROVE  LET b == run[r].db IN
             /\ Starts(SummaryEnv(run[r].dir, b))
             /\ dbs[b] # None
             /\ MountsAdmin(SummaryEnv(run[r].dir, b), dbs[b])
             /\ dbs[b].users[run[r].email] = r
             /\ r \in dbs[b].workspaces \cap dbs[b].tokens
             /\ {<<r, "workspace.create">>, <<r, "api_token.create">>} \subseteq dbs[b].audited
             /\ files[run[r].dir] # None
  <2>1. r \in Runs /\ DoneBy(r) /\ TypeOK
    BY <1>1 DEF IInv, TypeOK
  <2>2. \A steps : Reached(r, steps)
    BY <1>1 DEF Reached
  <2>3. run[r] # None /\ run[r].dir \in Dirs /\ run[r].dir # None
    BY <1>1, <2>1, RunFacts, PathAssumption DEF DoneBy
  <2>4. Starts(SummaryEnv(run[r].dir, run[r].db))
    BY <2>3 DEF Starts, SummaryEnv, OpensStorage, UsesSqlite, ProviderStarts, OidcStarts,
                TuningAccepted
  <2>5. DbOf(r).key # None
    BY <2>1, <2>2, <2>3 DEF DoneBy
  <2>6. MountsAdmin(SummaryEnv(run[r].dir, run[r].db), DbOf(r))
    BY <2>5 DEF MountsAdmin, UsesSqlite, SummaryEnv
  <2> QED
    BY <1>1, <2>1, <2>2, <2>4, <2>6 DEF DoneBy, DbOf
<1>2. IInv => SummaryWorks
  BY <1>1 DEF SummaryWorks
<1> QED
  BY <1>2, AlwaysInv, PTL

(* No later run of bootstrap takes away the key an app was sealed under,   *)
(* unless two of them found its directory empty at once.                   *)
THEOREM AppsKeepTheirKey == Spec => []AppKeepsKey
<1>1. IInv => AppKeepsKey
  BY DEF IInv
<1> QED
  BY <1>1, AlwaysInv, PTL
=============================================================================
