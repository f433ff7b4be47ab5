---------------------------- MODULE AdminService ----------------------------
(***************************************************************************)
(* The admin REST: workspaces, apps and API tokens                         *)
(* (src/apps/{service,routes,auth,audit}.ts over src/storage).             *)
(*                                                                         *)
(* A handler checks the API token, then ownership on one or two reads,     *)
(* then writes, then appends the audit row, each an await of its own:      *)
(* between two of them any other request of any process may run.  All the  *)
(* shared state is in storage, whose calls are atomic.                     *)
(*                                                                         *)
(* Ids and secrets are random (newId, generateClientSecret): never used    *)
(* before.  Users are not deleted by this code, so finding the user of a   *)
(* token is part of finding the token.  Handlers that only read leave no   *)
(* trace and are left out, and so is lastUsedAt.                           *)
(***************************************************************************)
EXTENDS Naturals, Sequences, FiniteSets

CONSTANTS
  Users, WorkspaceIds, AppIds, TokenIds,
  Secrets,    \* client secrets; a hash is the secret it accepts
  Names,      \* workspace names
  TossIds,    \* appIdToss
  Details,    \* displayTitle and allowedOrigins of an app
  Requests,   \* concurrent request slots
  MaxApps,    \* rows the dialect takes: 1 on SQLite
  FirstToken, \* per user, the admin token the CLI made (bootstrap, api-token)
  Offered,    \* bound: the operations clients ask for
  None        \* no row, or a field that does not apply

CreateOps == {"workspace.create", "api_token.create"}
WorkspaceOps == {"workspace.update", "workspace.delete", "app.create"}
RotateOp == "app.secret.rotate"
AppOps == {"app.update", "app.delete", RotateOp, "app.raw_tokens.toggle"}
Ops == CreateOps \cup WorkspaceOps \cup AppOps \cup {"api_token.delete"}
Ids == WorkspaceIds \cup AppIds \cup TokenIds

ASSUME ServiceAssumption ==
  /\ FirstToken \in [Users -> TokenIds] /\ Offered \subseteq Ops /\ MaxApps \in Nat
  /\ \A u, v \in Users : FirstToken[u] = FirstToken[v] => u = v
  /\ WorkspaceIds \cap AppIds = {} /\ WorkspaceIds \cap TokenIds = {}
  /\ AppIds \cap TokenIds = {}

Workspace == [owner : Users, name : Names]
App == [workspace : WorkspaceIds, toss : TossIds, details : Details, raw : BOOLEAN,
        hashes : Seq(Secrets)]
ApiToken == [user : Users, admin : BOOLEAN]

ASSUME NoneAssumption ==
  /\ None \notin Workspace /\ None \notin App /\ None \notin ApiToken
  /\ None \notin Ids /\ None \notin Users /\ None \notin Secrets /\ None \notin Ops

VARIABLES
  workspaces, apps, tokens, audit,   \* the tables
  born,       \* ids used up to now
  secretLog,  \* history: the app of each secret, how many of its rotations
              \* were written since, and whether another one overlapped its own
  handed,     \* history: secrets given out in an answer
  held,       \* history: API tokens given out in an answer
  gone,       \* history: ids whose deletion was answered
  req         \* the requests in flight

tables == <<workspaces, apps, tokens>>
history == <<born, secretLog, handed, held, gone>>
vars == <<workspaces, apps, tokens, audit, born, secretLog, handed, held, gone, req>>

-----------------------------------------------------------------------------
(* Requests.                                                               *)

(* Where a handler is: the storage call it is about to make.               *)
Steps == {"token", "app", "workspace", "tokens", "write", "audit"}
Args == Names \cup TossIds \cup Details \cup BOOLEAN \cup {None}

Request ==
  [pc : {"idle"} \cup Steps,
   op : Ops \cup {None},
   token : TokenIds \cup {None},   \* the bearer token
   target : Ids \cup {None},       \* the id in the path, then the id created
   arg : Args,                     \* the body: None is an empty patch
   user : Users \cup {None},       \* actorUserId
   row : App \cup {None},          \* the app as getOwnedApp read it
   secret : Secrets \cup {None},   \* the plaintext to answer with
   late : BOOLEAN]                 \* history: token's deletion was answered before

Idle == [pc |-> "idle", op |-> None, token |-> None, target |-> None, arg |-> None,
         user |-> None, row |-> None, secret |-> None, late |-> FALSE]

Active(r) == req[r].pc # "idle"

(* The handler answers, or throws, or its process dies.                    *)
End(r) == req' = [req EXCEPT ![r] = Idle]
Goto(r, step) == req' = [req EXCEPT ![r].pc = step]

TargetsOf(op) == CASE op \in CreateOps -> {None}
                   [] op \in WorkspaceOps -> WorkspaceIds \cap born
                   [] op \in AppOps -> AppIds \cap born
                   [] OTHER -> TokenIds \cap born

ArgsOf(op) == CASE op = "workspace.create" -> Names
                [] op = "workspace.update" -> Names \cup {None}
                [] op = "app.create" -> TossIds
                [] op = "app.update" -> Details \cup {None}
                [] op \in {"app.raw_tokens.toggle", "api_token.create"} -> BOOLEAN
                [] OTHER -> {None}

(* After the CLI made the users and a first token for each.  The workspace *)
(* that bootstrap also makes is like any other one.                        *)
Init ==
  /\ workspaces = [w \in WorkspaceIds |-> None]
  /\ apps = [a \in AppIds |-> None]
  /\ tokens = [t \in TokenIds |-> IF \E u \in Users : FirstToken[u] = t
                                  THEN [user |-> CHOOSE u \in Users : FirstToken[u] = t,
                                        admin |-> TRUE]
                                  ELSE None]
  /\ audit = {}
  /\ born = {FirstToken[u] : u \in Users}
  /\ secretLog = [s \in Secrets |-> [app |-> None, overtaken |-> 0, raced |-> FALSE]]
  /\ handed = {} /\ held = {FirstToken[u] : u \in Users} /\ gone = {}
  /\ req = [r \in Requests |-> Idle]

Send(r, op) ==
  /\ ~Active(r)
  /\ \E t \in held, target \in TargetsOf(op), arg \in ArgsOf(op) :
       req' = [req EXCEPT ![r] =
                 [Idle EXCEPT !.pc = "token", !.op = op, !.token = t, !.target = target,
                              !.arg = arg, !.late = t \in gone]]
  /\ UNCHANGED <<tables, audit, history>>

-----------------------------------------------------------------------------
(* The checks.                                                             *)

FirstStep(op) == CASE op \in CreateOps -> "write"
                   [] op \in WorkspaceOps -> "workspace"
                   [] op \in AppOps -> "app"
                   [] OTHER -> "tokens"

(* adminAuth: 401 for an unknown token, 403 without the admin scope.       *)
CheckToken(r) ==
  LET row == tokens[req[r].token] IN
  /\ req[r].pc = "token"
  /\ IF row # None /\ row.admin
     THEN req' = [req EXCEPT ![r].pc = FirstStep(req[r].op), ![r].user = row.user]
     ELSE End(r)
  /\ UNCHANGED <<tables, audit, history>>

(* getOwnedApp, first read: 404 if there is no such app.                   *)
ReadApp(r) ==
  LET row == apps[req[r].target] IN
  /\ req[r].pc = "app"
  /\ IF row # None
     THEN req' = [req EXCEPT ![r].pc = "workspace", ![r].row = row]
     ELSE End(r)
  /\ UNCHANGED <<tables, audit, history>>

WorkspaceOf(r) == IF req[r].op \in AppOps THEN req[r].row.workspace ELSE req[r].target

OwnedByAnyone(w, u) == workspaces[w] # None        \* mutant

Owned(w, u) == workspaces[w] # None /\ workspaces[w].owner = u

EmptyPatch(r) == req[r].op \in {"workspace.update", "app.update"} /\ req[r].arg = None

(* getOwnedWorkspace, or getOwnedApp's second read; 404 for what is not    *)
(* the actor's.  An empty patch is answered here.                          *)
ReadWorkspace(r) ==
  /\ req[r].pc = "workspace"
  /\ IF Owned(WorkspaceOf(r), req[r].user) /\ ~EmptyPatch(r) THEN Goto(r, "write") ELSE End(r)
  /\ UNCHANGED <<tables, audit, history>>

OwnToken(t, u) == tokens[t] # None /\ tokens[t].user = u

(* listApiTokensByUser; 404 if the id is not among them.                   *)
ReadTokens(r) ==
  /\ req[r].pc = "tokens"
  /\ IF OwnToken(req[r].target, req[r].user) THEN Goto(r, "write") ELSE End(r)
  /\ UNCHANGED <<tables, audit, history>>

-----------------------------------------------------------------------------
(* The writes.  A row that is not there or a constraint makes the call     *)
(* throw (Fail).                                                           *)

At(r, op) == req[r].pc = "write" /\ req[r].op = op

(* The write returns, or it is done but the call throws (a lost            *)
(* connection) and the handler ends without an audit row.                  *)
Wrote(r, id, secret) ==
  \/ req' = [req EXCEPT ![r].pc = "audit", ![r].target = id, ![r].secret = secret]
  \/ End(r)

CreateWorkspace(r) ==
  /\ At(r, "workspace.create")
  /\ \E w \in WorkspaceIds \ born :
       /\ workspaces' = [workspaces EXCEPT ![w] = [owner |-> req[r].user, name |-> req[r].arg]]
       /\ born' = born \cup {w}
       /\ Wrote(r, w, None)
  /\ UNCHANGED <<apps, tokens, audit, secretLog, handed, held, gone>>

UpdateWorkspace(r) ==
  LET w == req[r].target IN
  /\ At(r, "workspace.update") /\ workspaces[w] # None
  /\ workspaces' = [workspaces EXCEPT ![w].name = req[r].arg]
  /\ Wrote(r, w, None)
  /\ UNCHANGED <<apps, tokens, audit, history>>

(* The apps go with their workspace (onDelete: 'cascade').                 *)
DeleteWorkspace(r) ==
  LET w == req[r].target IN
  /\ At(r, "workspace.delete")
  /\ workspaces' = [workspaces EXCEPT ![w] = None]
  /\ apps' = [a \in AppIds |-> IF apps[a] # None /\ apps[a].workspace = w THEN None ELSE apps[a]]
  /\ Wrote(r, w, None)
  /\ UNCHANGED <<tokens, audit, history>>

(* A rotation of the app has read its row and not written yet.             *)
Rotating(q, a) ==
  req[q].op = RotateOp /\ req[q].target = a /\ req[q].pc \in {"workspace", "write"}

(* A secret enters the log, the others of its app have been overtaken once *)
(* more (2 stands for more than once).                                     *)
Log(s, a, raced) ==
  [x \in Secrets |->
     IF x = s THEN [app |-> a, overtaken |-> 0, raced |-> raced]
     ELSE IF secretLog[x].app = a /\ secretLog[x].overtaken < 2
          THEN [secretLog[x] EXCEPT !.overtaken = @ + 1]
          ELSE secretLog[x]]

Unused == {s \in Secrets : secretLog[s].app = None}

InsertableAnywhere(w, toss) ==      \* mutant: foreign keys are not enforced
  /\ \A a \in AppIds : apps[a] # None => ~(apps[a].workspace = w /\ apps[a].toss = toss)
  /\ Cardinality({a \in AppIds : apps[a] # None}) < MaxApps

(* The workspace exists, appIdToss is new in it, the dialect takes one more. *)
Insertable(w, toss) ==
  /\ workspaces[w] # None
  /\ \A a \in AppIds : apps[a] # None => ~(apps[a].workspace = w /\ apps[a].toss = toss)
  /\ Cardinality({a \in AppIds : apps[a] # None}) < MaxApps

CreateApp(r) ==
  /\ At(r, "app.create") /\ Insertable(req[r].target, req[r].arg)
  /\ \E a \in AppIds \ born, s \in Unused, d \in Details :
       /\ apps' = [apps EXCEPT ![a] = [workspace |-> req[r].target, toss |-> req[r].arg,
                                       details |-> d, raw |-> FALSE, hashes |-> <<s>>]]
       /\ born' = born \cup {a}
       /\ secretLog' = Log(s, a, FALSE)
       /\ Wrote(r, a, s)
  /\ UNCHANGED <<workspaces, tokens, audit, handed, held, gone>>

SnapshotRow(r) == req[r].row        \* mutant: the row that was read is saved back

(* The row that updateApp patches.                                         *)
StoredRow(r) == apps[req[r].target]

UpdateApp(r) ==
  LET a == req[r].target IN
  /\ At(r, "app.update") /\ StoredRow(r) # None
  /\ apps' = [apps EXCEPT ![a] = [StoredRow(r) EXCEPT !.details = req[r].arg]]
  /\ Wrote(r, a, None)
  /\ UNCHANGED <<workspaces, tokens, audit, history>>

ToggleRawTokens(r) ==
  LET a == req[r].target IN
  /\ At(r, "app.raw_tokens.toggle") /\ StoredRow(r) # None
  /\ apps' = [apps EXCEPT ![a] = [StoredRow(r) EXCEPT !.raw = req[r].arg]]
  /\ Wrote(r, a, None)
  /\ UNCHANGED <<workspaces, tokens, audit, history>>

RotatedKeepsAll(hashes, s) == Append(hashes, s)           \* mutant: no bound
RotatedKeepsOldest(hashes, s) == <<hashes[1], s>>         \* mutant: slice(0, 1)

(* [...hashes.slice(-1), hash]                                             *)
Rotated(hashes, s) == <<hashes[Len(hashes)], s>>

RotateSecret(r) ==
  LET a == req[r].target
      before == req[r].row.hashes
  IN
  /\ At(r, RotateOp) /\ StoredRow(r) # None
  /\ \E s \in Unused :
       /\ apps' = [apps EXCEPT ![a] = [StoredRow(r) EXCEPT !.hashes = Rotated(before, s)]]
       /\ secretLog' = Log(s, a, before # StoredRow(r).hashes
                                 \/ \E q \in Requests \ {r} : Rotating(q, a))
       /\ Wrote(r, a, s)
  /\ UNCHANGED <<workspaces, tokens, audit, born, handed, held, gone>>

DeleteApp(r) ==
  /\ At(r, "app.delete")
  /\ apps' = [apps EXCEPT ![req[r].target] = None]
  /\ Wrote(r, req[r].target, None)
  /\ UNCHANGED <<workspaces, tokens, audit, history>>

CreateToken(r) ==
  /\ At(r, "api_token.create")
  /\ \E t \in TokenIds \ born :
       /\ tokens' = [tokens EXCEPT ![t] = [user |-> req[r].user, admin |-> req[r].arg]]
       /\ born' = born \cup {t}
       /\ Wrote(r, t, None)
  /\ UNCHANGED <<workspaces, apps, audit, secretLog, handed, held, gone>>

WithoutPlainToken(t) ==             \* mutant: admin tokens are spared
  IF tokens[t] # None /\ tokens[t].admin THEN tokens ELSE [tokens EXCEPT ![t] = None]

WithoutToken(t) == [tokens EXCEPT ![t] = None]

DeleteToken(r) ==
  /\ At(r, "api_token.delete")
  /\ tokens' = WithoutToken(req[r].target)
  /\ Wrote(r, req[r].target, None)
  /\ UNCHANGED <<workspaces, apps, audit, history>>

Write(r) ==
  \/ CreateWorkspace(r) \/ UpdateWorkspace(r) \/ DeleteWorkspace(r)
  \/ CreateApp(r) \/ UpdateApp(r) \/ ToggleRawTokens(r) \/ RotateSecret(r) \/ DeleteApp(r)
  \/ CreateToken(r) \/ DeleteToken(r)

-----------------------------------------------------------------------------
(* The audit row, and the answer that follows at once.                     *)

Entry(r) == [actor |-> req[r].user, action |-> req[r].op, target |-> req[r].target]

RecordedNoRotation(r) ==            \* mutant: rotateSecret forgets its row
  IF req[r].op = RotateOp THEN audit ELSE audit \cup {Entry(r)}

Recorded(r) == audit \cup {Entry(r)}

AppendAudit(r) ==
  LET id == req[r].target IN
  /\ req[r].pc = "audit"
  /\ audit' = Recorded(r)
  /\ handed' = IF req[r].secret # None THEN handed \cup {req[r].secret} ELSE handed
  /\ held' = IF req[r].op = "api_token.create" THEN held \cup {id} ELSE held
  /\ gone' = IF req[r].op \in {"workspace.delete", "app.delete", "api_token.delete"}
             THEN gone \cup {id} ELSE gone
  /\ End(r)
  /\ UNCHANGED <<tables, born, secretLog>>

(* Any call throws (storage, the master key provider): 500.  Or the        *)
(* process dies with the request.                                          *)
Fail(r) ==
  /\ Active(r)
  /\ End(r)
  /\ UNCHANGED <<tables, audit, history>>

Handle(r) ==
  \/ CheckToken(r) \/ ReadApp(r) \/ ReadWorkspace(r) \/ ReadTokens(r)
  \/ Write(r) \/ AppendAudit(r) \/ Fail(r)

Next == \E r \in Requests : Handle(r) \/ \E op \in Offered : Send(r, op)

Spec == Init /\ [][Next]_vars

-----------------------------------------------------------------------------
(* Properties.                                                             *)

Accepted(a) == {apps[a].hashes[i] : i \in DOMAIN apps[a].hashes}

RowsOK ==
  /\ workspaces \in [WorkspaceIds -> Workspace \cup {None}]
  /\ apps \in [AppIds -> App \cup {None}]
  /\ \A a \in AppIds : apps[a] # None => Len(apps[a].hashes) \in 1..2
  /\ tokens \in [TokenIds -> ApiToken \cup {None}]
  /\ audit \subseteq [actor : Users, action : Ops, target : Ids]
  /\ born \subseteq Ids
  /\ secretLog \in [Secrets -> [app : AppIds \cup {None}, overtaken : 0..2, raced : BOOLEAN]]
  /\ handed \subseteq Secrets /\ held \subseteq TokenIds /\ gone \subseteq Ids

(* The overlap window is bounded to 2 hashes across repeated rotations.    *)
TypeOK == RowsOK /\ req \in [Requests -> Request]

(* Every app belongs to a workspace, although one may be deleted between   *)
(* the ownership check of createApp and its insert.                        *)
NoOrphan == \A a \in AppIds : apps[a] # None => workspaces[apps[a].workspace] # None

(* What was deleted does not come back: an update that was under way       *)
(* throws, it does not write the row anew.                                 *)
DeletedStaysGone ==
  \A id \in gone :
    /\ id \in WorkspaceIds => workspaces[id] = None
    /\ id \in AppIds => apps[id] = None
    /\ id \in TokenIds => tokens[id] = None

(* A row is created, changed or deleted only by a request of the user who  *)
(* owns it at that instant, whatever happened since the ownership check.   *)
WrittenBy(u) == \E r \in Requests : req[r].pc = "write" /\ req'[r] # req[r] /\ req[r].user = u
OwnerOf(row) == IF workspaces[row.workspace] = None THEN None ELSE workspaces[row.workspace].owner
OwnersWrite ==
  /\ \A w \in WorkspaceIds : workspaces'[w] # workspaces[w] =>
       \A row \in {workspaces[w], workspaces'[w]} \ {None} : WrittenBy(row.owner)
  /\ \A a \in AppIds : apps'[a] # apps[a] =>
       \A row \in {apps[a], apps'[a]} \ {None} : WrittenBy(OwnerOf(row))
  /\ \A t \in TokenIds : tokens'[t] # tokens[t] =>
       \A row \in {tokens[t], tokens'[t]} \ {None} : WrittenBy(row.user)
OnlyOwnersWrite == [][OwnersWrite]_vars

(* A request that came after the deletion of its token was answered gets   *)
(* past no check.                                                          *)
DeletedTokenRefused == \A r \in Requests : req[r].late => req[r].pc = "token"

(* What a client was told is in the audit table: the app whose secret it   *)
(* was given, the rotation that a second secret takes, what it deleted.    *)
Audited(id, actions) == \E e \in audit : e.target = id /\ e.action \in actions
HandedOf(a) == {s \in handed : secretLog[s].app = a}
ConfirmedIsAudited ==
  /\ \A a \in AppIds :
       /\ HandedOf(a) # {} => Audited(a, {"app.create", RotateOp})
       /\ Cardinality(HandedOf(a)) > 1 => Audited(a, {RotateOp})
  /\ \A id \in gone : Audited(id, {"workspace.delete", "app.delete", "api_token.delete"})

(* A secret that was given out, by a rotation that no other overlapped,    *)
(* survives the next rotation, answered or not.                            *)
SettledSecretWorks ==
  \A s \in handed :
    LET a == secretLog[s].app IN
    apps[a] # None /\ secretLog[s].overtaken < 2 /\ ~secretLog[s].raced => s \in Accepted(a)

-----------------------------------------------------------------------------
(* Why they hold.                                                          *)

Deletions == {"workspace.delete", "app.delete", "api_token.delete"}
KindOf(op) == CASE op \in CreateOps -> {None}
                [] op \in WorkspaceOps -> WorkspaceIds
                [] op \in AppOps -> AppIds
                [] OTHER -> TokenIds
RowOf(id) == CASE id \in WorkspaceIds -> workspaces[id]
               [] id \in AppIds -> apps[id]
               [] OTHER -> tokens[id]

(* What the locals of a handler are at each of its steps.                  *)
Formed(q) ==
  q.pc = "idle" \/
    /\ q.op \in Ops /\ q.token \in TokenIds /\ q.arg \in ArgsOf(q.op)
    /\ q.pc # "token" => q.user \in Users
    /\ q.secret # None => secretLog[q.secret].app # None
    /\ q.pc # "audit" => q.target \in KindOf(q.op)
    /\ q.pc # "audit" /\ q.op \notin CreateOps => q.target \in born
    /\ q.pc = "audit" => q.target \in Ids \cap born
    /\ q.pc = "audit" /\ q.op = "api_token.create" => q.target \in TokenIds
    /\ q.pc = "app" => q.op \in AppOps
    /\ q.pc = "workspace" => q.op \in WorkspaceOps \cup AppOps
    /\ q.pc = "tokens" => q.op = "api_token.delete"
    /\ q.pc = "write" => ~(q.op \in {"workspace.update", "app.update"} /\ q.arg = None)
    /\ q.pc \in {"workspace", "write"} /\ q.op \in AppOps =>
         q.row \in App /\ Len(q.row.hashes) \in 1..2 /\ q.row.workspace \in born

(* What a handler has found out and is still true if the row is there.     *)
OwnsIfThere(w, u) == workspaces[w] # None => workspaces[w].owner = u
Grounded(q) ==
  /\ q.late => q.pc = "token" /\ q.token \in gone
  /\ q.pc = "write" /\ q.op \in WorkspaceOps => OwnsIfThere(q.target, q.user)
  /\ q.pc \in {"workspace", "write"} /\ q.op \in AppOps /\ apps[q.target] # None =>
       apps[q.target].workspace = q.row.workspace
  /\ q.pc = "write" /\ q.op \in AppOps => OwnsIfThere(q.row.workspace, q.user)
  /\ q.pc = "write" /\ q.op = "api_token.delete" /\ tokens[q.target] # None =>
       tokens[q.target].user = q.user
  /\ q.pc = "audit" /\ q.op \in Deletions => RowOf(q.target) = None

BornInv ==
  /\ \A w \in WorkspaceIds : workspaces[w] # None => w \in born
  /\ \A a \in AppIds : apps[a] # None => a \in born
  /\ \A t \in TokenIds : tokens[t] # None => t \in born
  /\ gone \subseteq born /\ held \subseteq born
  /\ \A s \in Secrets : secretLog[s].app # None => secretLog[s].app \in born
  /\ \A s \in handed : secretLog[s].app # None

(* A secret that raced with none and was not overtaken is the newest one,  *)
(* also for every rotation under way; after one more it is the other one.  *)
Newest(hashes) == hashes[Len(hashes)]
SecretInv ==
  \A s \in Secrets :
    LET a == secretLog[s].app IN
    a # None /\ ~secretLog[s].raced =>
      /\ secretLog[s].overtaken = 0 =>
           /\ apps[a] # None => Newest(apps[a].hashes) = s
           /\ \A q \in Requests : Rotating(q, a) => Newest(req[q].row.hashes) = s
      /\ secretLog[s].overtaken = 1 /\ apps[a] # None => s \in Accepted(a)

ServiceInv ==
  /\ TypeOK /\ NoOrphan /\ DeletedStaysGone /\ BornInv /\ SecretInv
  /\ \A r \in Requests : Formed(req[r]) /\ Grounded(req[r])

=============================================================================
