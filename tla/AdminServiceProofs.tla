------------------------ MODULE AdminServiceProofs -------------------------
(***************************************************************************)
(* Theorems about AdminService, for any users, ids, secrets and number of  *)
(* requests at once.  The inductive invariant is ServiceInv.  The last     *)
(* part shows that AdminService implements Registry.                       *)
(***************************************************************************)
EXTENDS AdminRefinement, FiniteSetTheorems, TLAPS

-----------------------------------------------------------------------------
(* How the tables evolve: a row of a used id stays as it is in what the    *)
(* handlers rely on, or goes; ids are used once.                           *)

Evolves ==
  /\ born \subseteq born' /\ gone \subseteq gone'
  /\ \A s \in Secrets : secretLog[s].app # None => secretLog'[s].app = secretLog[s].app
  /\ \A w \in WorkspaceIds \cap born : workspaces'[w] # None =>
       workspaces[w] # None /\ workspaces'[w].owner = workspaces[w].owner
  /\ \A a \in AppIds \cap born : apps'[a] # None =>
       apps[a] # None /\ apps'[a].workspace = apps[a].workspace
  /\ \A t \in TokenIds \cap born : tokens'[t] # None =>
       tokens[t] # None /\ tokens'[t].user = tokens[t].user

Slots == \A r \in Requests : Formed(req[r]) /\ Grounded(req[r])

LEMMA NoneIsApart ==
  /\ None \notin Workspace /\ None \notin App /\ None \notin ApiToken
  /\ None \notin Ids /\ None \notin Users /\ None \notin Secrets /\ None \notin Ops
  BY NoneAssumption

LEMMA KindsOfTargets ==
  ASSUME NEW op \in Ops
  PROVE  /\ op \in CreateOps => KindOf(op) = {None}
         /\ op \in WorkspaceOps => KindOf(op) = WorkspaceIds
         /\ op \in AppOps => KindOf(op) = AppIds
         /\ op = "api_token.delete" => KindOf(op) = TokenIds
         /\ op \in CreateOps \cup WorkspaceOps \cup AppOps \/ op = "api_token.delete"
         /\ op \in WorkspaceOps \cup AppOps \/ op = "api_token.delete" => op \notin CreateOps
  BY DEF KindOf, Ops, CreateOps, WorkspaceOps, AppOps, RotateOp

(* What a handler knows about its own request survives every step of the   *)
(* others.                                                                 *)
LEMMA SlotEvolves ==
  ASSUME TypeOK, Evolves, NEW q \in Request, Formed(q), Grounded(q)
  PROVE  Formed(q)' /\ Grounded(q)'
<1>1. Formed(q)'
  <2>1. ASSUME q.pc # "idle" PROVE q.secret # None => secretLog'[q.secret].app # None
    <3>1. q.secret \in Secrets \cup {None}
      BY DEF Request
    <3> QED
      BY <2>1, <3>1 DEF Formed, Evolves
  <2> QED
    BY <2>1 DEF Formed, Evolves
<1>2. Grounded(q)'
  <2>1. q.late => q.pc = "token" /\ q.token \in gone'
    BY DEF Grounded, Evolves
  <2>2. q.pc = "write" /\ q.op \in WorkspaceOps => OwnsIfThere(q.target, q.user)'
    <3>1. ASSUME q.pc = "write", q.op \in WorkspaceOps PROVE q.target \in WorkspaceIds \cap born
      BY <3>1, KindsOfTargets DEF Formed
    <3> QED
      BY <3>1 DEF Grounded, OwnsIfThere, Evolves
  <2>3. q.pc \in {"workspace", "write"} /\ q.op \in AppOps =>
          q.target \in AppIds \cap born /\ q.row.workspace \in WorkspaceIds \cap born
    BY KindsOfTargets DEF Formed, App
  <2>4. q.pc \in {"workspace", "write"} /\ q.op \in AppOps /\ apps'[q.target] # None =>
          apps'[q.target].workspace = q.row.workspace
    BY <2>3 DEF Grounded, Evolves
  <2>5. q.pc = "write" /\ q.op \in AppOps => OwnsIfThere(q.row.workspace, q.user)'
    BY <2>3 DEF Grounded, OwnsIfThere, Evolves
  <2>6. q.pc = "write" /\ q.op = "api_token.delete" /\ tokens'[q.target] # None =>
          tokens'[q.target].user = q.user
    <3>1. ASSUME q.pc = "write", q.op = "api_token.delete" PROVE q.target \in TokenIds \cap born
      BY <3>1, KindsOfTargets DEF Formed
    <3> QED
      BY <3>1 DEF Grounded, Evolves
  <2>7. q.pc = "audit" /\ q.op \in Deletions => RowOf(q.target)' = None
    <3>1. ASSUME q.pc = "audit", q.op \in Deletions PROVE RowOf(q.target)' = None
      <4>1. q.target \in Ids \cap born /\ RowOf(q.target) = None
        BY <3>1 DEF Formed, Grounded
      <4> QED
        BY <4>1, ServiceAssumption DEF RowOf, Evolves, Ids
    <3> QED
      BY <3>1
  <2> QED
    BY <2>1, <2>2, <2>4, <2>5, <2>6, <2>7 DEF Grounded
<1> QED
  BY <1>1, <1>2

(* A step of one request: its new slot has to fit the new tables.          *)
LEMMA SlotStep ==
  ASSUME TypeOK, Slots, Evolves, NEW r \in Requests, NEW q \in Request,
         req' = [req EXCEPT ![r] = q], Formed(q)', Grounded(q)'
  PROVE  req' \in [Requests -> Request] /\ Slots'
<1>1. req' \in [Requests -> Request]
  BY DEF TypeOK
<1>2. ASSUME NEW x \in Requests PROVE (Formed(req[x]) /\ Grounded(req[x]))'
  <2>1. CASE x = r
    <3>1. req'[x] = q
      BY <2>1 DEF TypeOK
    <3> QED
      BY <3>1 DEF Formed, Grounded, OwnsIfThere, RowOf
  <2>2. CASE x # r
    <3>1. PICK p \in Request : p = req[x] /\ p = req'[x]
      BY <2>2 DEF TypeOK
    <3>2. Formed(p) /\ Grounded(p)
      <4>1. Formed(req[x]) /\ Grounded(req[x])
        BY DEF Slots
      <4>2. Formed(p)
        BY <3>1, <4>1, Zenon DEF Formed
      <4> QED
        BY <3>1, <4>1, <4>2, Zenon DEF Grounded, OwnsIfThere, RowOf
    <3>3. Formed(p)' /\ Grounded(p)'
      BY <3>2, SlotEvolves
    <3> QED
      BY <3>1, <3>3 DEF Formed, Grounded, OwnsIfThere, RowOf
  <2> QED
    BY <2>1, <2>2
<1> QED
  BY <1>1, <1>2 DEF Slots

LEMMA IdleFits ==
  /\ Idle \in Request /\ Formed(Idle) /\ Grounded(Idle)
  /\ Formed(Idle)' /\ Grounded(Idle)'
  BY DEF Idle, Request, Args, Formed, Grounded

(* A deleted id was used, so its row cannot come back.                     *)
LEMMA GoneStays ==
  ASSUME ServiceInv, Evolves, gone' = gone
  PROVE  DeletedStaysGone'
  BY DEF ServiceInv, BornInv, DeletedStaysGone, Evolves

-----------------------------------------------------------------------------
(* Secrets.                                                                *)

(* No secret enters the log, hashes change only with their row going, and  *)
(* a rotation that is new has read the row as it is.                       *)
SteadyRows ==
  /\ secretLog' = secretLog
  /\ \A a \in AppIds : apps'[a] # None => apps[a] # None /\ apps'[a].hashes = apps[a].hashes
SteadyRotations ==
  \A q \in Requests, a \in AppIds : Rotating(q, a)' =>
    \/ Rotating(q, a) /\ req'[q].row = req[q].row
    \/ apps[a] # None /\ req'[q].row = apps[a]

LEMMA SteadySecrets ==
  ASSUME TypeOK, SecretInv, SteadyRows, SteadyRotations
  PROVE  SecretInv'
<1> SUFFICES ASSUME NEW s \in Secrets, NEW a \in AppIds, secretLog[s].app = a, ~secretLog[s].raced
             PROVE  /\ secretLog[s].overtaken = 0 =>
                         /\ apps'[a] # None => Newest(apps'[a].hashes) = s
                         /\ \A q \in Requests : Rotating(q, a)' => Newest(req'[q].row.hashes) = s
                    /\ secretLog[s].overtaken = 1 /\ apps'[a] # None =>
                         s \in {apps'[a].hashes[i] : i \in DOMAIN apps'[a].hashes}
  BY DEF SecretInv, SteadyRows, TypeOK, RowsOK, Accepted
<1>1. /\ secretLog[s].overtaken = 0 =>
           /\ apps[a] # None => Newest(apps[a].hashes) = s
           /\ \A q \in Requests : Rotating(q, a) => Newest(req[q].row.hashes) = s
      /\ secretLog[s].overtaken = 1 /\ apps[a] # None =>
           s \in {apps[a].hashes[i] : i \in DOMAIN apps[a].hashes}
  BY NoneIsApart DEF SecretInv, Accepted, Ids
<1> QED
  BY <1>1 DEF SteadyRows, SteadyRotations

-----------------------------------------------------------------------------
(* Steps that read, answer or fail.                                        *)

LEMMA ReadingStep ==
  ASSUME ServiceInv, UNCHANGED <<tables, audit, history>>, NEW r \in Requests, NEW q \in Request,
         req' = [req EXCEPT ![r] = q], Formed(q), Grounded(q),
         q.op = RotateOp /\ q.pc \in {"workspace", "write"} =>
           \/ Rotating(r, q.target) /\ q.row = req[r].row
           \/ apps[q.target] # None /\ q.row = apps[q.target]
  PROVE  ServiceInv'
<1> USE DEF tables, history
<1>1. Evolves
  BY DEF Evolves
<1>2. Formed(q)' /\ Grounded(q)'
  BY SlotEvolves, <1>1 DEF ServiceInv
<1>3. Slots /\ TypeOK
  BY DEF ServiceInv, Slots
<1>4. req' \in [Requests -> Request] /\ Slots'
  BY <1>1, <1>2, <1>3, SlotStep
<1>5. SteadyRows
  BY DEF SteadyRows
<1>6. SteadyRotations
  BY <1>3 DEF SteadyRotations, Rotating, TypeOK
<1>7. SecretInv'
  BY <1>3, <1>5, <1>6, SteadySecrets DEF ServiceInv
<1>8. RowsOK' /\ NoOrphan' /\ DeletedStaysGone' /\ BornInv'
  BY DEF ServiceInv, TypeOK, RowsOK, NoOrphan, DeletedStaysGone, BornInv
<1> QED
  BY <1>4, <1>7, <1>8 DEF ServiceInv, TypeOK, Slots

LEMMA EndStep ==
  ASSUME ServiceInv, UNCHANGED <<tables, audit, history>>, NEW r \in Requests, End(r)
  PROVE  ServiceInv'
<1>1. Idle.pc = "idle"
  BY DEF Idle
<1> QED
  BY <1>1, IdleFits, ReadingStep DEF End

LEMMA SlotFacts ==
  ASSUME ServiceInv, NEW r \in Requests
  PROVE  req[r] \in Request /\ Formed(req[r]) /\ Grounded(req[r]) /\ TypeOK
  BY DEF ServiceInv, TypeOK

LEMMA SendStep ==
  ASSUME ServiceInv, NEW r \in Requests, NEW op \in Offered, Send(r, op)
  PROVE  ServiceInv'
<1>1. PICK t \in held, target \in TargetsOf(op), arg \in ArgsOf(op) :
        req' = [req EXCEPT ![r] = [Idle EXCEPT !.pc = "token", !.op = op, !.token = t,
                                               !.target = target, !.arg = arg, !.late = t \in gone]]
  BY DEF Send
<1> DEFINE late == t \in gone
           q == [Idle EXCEPT !.pc = "token", !.op = op, !.token = t, !.target = target,
                             !.arg = arg, !.late = late]
<1>2. op \in Ops /\ t \in TokenIds /\ late \in BOOLEAN
  BY ServiceAssumption DEF ServiceInv, TypeOK, RowsOK
<1>3. target \in KindOf(op) /\ (op \notin CreateOps => target \in born) /\ target \in Ids \cup {None}
  BY <1>2 DEF TargetsOf, KindOf, Ids
<1>4. arg \in Args
  BY DEF ArgsOf, Args
<1> HIDE DEF late
<1>5. /\ q \in Request
      /\ q.pc = "token" /\ q.op = op /\ q.token = t /\ q.target = target /\ q.arg = arg
      /\ q.secret = None /\ q.late = late
  BY <1>2, <1>3, <1>4, IdleFits DEF Idle, Request, Steps
<1> HIDE DEF q
<1>6. Formed(q)
  BY <1>2, <1>3, <1>5 DEF Formed
<1>7. Grounded(q)
  BY <1>5 DEF Grounded, late
<1>8. req' = [req EXCEPT ![r] = q]
  BY <1>1 DEF q, late
<1> QED
  BY <1>5, <1>6, <1>7, <1>8, ReadingStep DEF Send

LEMMA FirstSteps ==
  ASSUME NEW op \in Ops
  PROVE  \/ op \in CreateOps /\ FirstStep(op) = "write"
         \/ op \in WorkspaceOps /\ FirstStep(op) = "workspace"
         \/ op \in AppOps /\ FirstStep(op) = "app"
         \/ op = "api_token.delete" /\ FirstStep(op) = "tokens"
  BY DEF FirstStep, Ops, CreateOps, WorkspaceOps, AppOps, RotateOp

LEMMA OpsApart ==
  /\ CreateOps \cap (WorkspaceOps \cup AppOps) = {} /\ WorkspaceOps \cap AppOps = {}
  /\ "api_token.delete" \notin CreateOps \cup WorkspaceOps \cup AppOps
  /\ RotateOp \in AppOps
  BY DEF CreateOps, WorkspaceOps, AppOps, RotateOp

LEMMA CheckTokenStep ==
  ASSUME ServiceInv, NEW r \in Requests, CheckToken(r)
  PROVE  ServiceInv'
<1> DEFINE row == tokens[req[r].token]
           q == [req[r] EXCEPT !.pc = FirstStep(req[r].op), !.user = row.user]
<1>1. UNCHANGED <<tables, audit, history>> /\ req[r].pc = "token"
  BY DEF CheckToken
<1>2. CASE row # None
  <2>1. req[r] \in Request /\ req[r].op \in Ops /\ req[r].token \in TokenIds
    BY <1>1, SlotFacts DEF Formed
  <2>2. ~req[r].late
    BY <1>2, <2>1, SlotFacts DEF Grounded, ServiceInv, DeletedStaysGone
  <2>3. row.user \in Users
    BY <1>2, <2>1 DEF ServiceInv, TypeOK, RowsOK, ApiToken
  <2>4. FirstStep(req[r].op) \in {"write", "workspace", "app", "tokens"}
    BY <2>1, FirstSteps
  <2> HIDE DEF row
  <2>5. /\ q \in Request /\ q.pc = FirstStep(req[r].op) /\ q.user = row.user /\ q.op = req[r].op
        /\ q.token = req[r].token /\ q.arg = req[r].arg /\ q.target = req[r].target
        /\ q.secret = req[r].secret /\ q.late = req[r].late
    BY <2>1, <2>3, <2>4 DEF Request, Steps
  <2> HIDE DEF q
  <2>6. Formed(q)
    <3>1. Formed(req[r])
      BY SlotFacts
    <3>2. q.pc = "write" => q.op \notin {"workspace.update", "app.update"}
      BY <2>1, <2>5, FirstSteps, OpsApart DEF WorkspaceOps, AppOps
    <3>3. /\ q.pc = "app" => q.op \in AppOps
          /\ q.pc = "workspace" => q.op \in WorkspaceOps
          /\ q.pc = "tokens" => q.op = "api_token.delete"
          /\ ~(q.pc \in {"workspace", "write"} /\ q.op \in AppOps)
      BY <2>1, <2>5, FirstSteps, OpsApart
    <3> QED
      BY <1>1, <2>1, <2>3, <2>4, <2>5, <3>1, <3>2, <3>3 DEF Formed
  <2>7. Grounded(q)
    BY <2>1, <2>2, <2>4, <2>5, FirstSteps, OpsApart DEF Grounded
  <2>8. ~(q.op = RotateOp /\ q.pc \in {"workspace", "write"})
    BY <2>1, <2>5, FirstSteps, OpsApart
  <2>9. CASE row.admin
    <3>1. req' = [req EXCEPT ![r] = q]
      BY <1>2, <2>9 DEF CheckToken, q, row
    <3> QED
      BY <1>1, <2>5, <2>6, <2>7, <2>8, <3>1, ReadingStep
  <2>10. CASE ~row.admin
    BY <1>1, <2>10, EndStep DEF CheckToken, row
  <2> QED
    BY <2>9, <2>10
<1>3. CASE row = None
  BY <1>1, <1>3, EndStep DEF CheckToken
<1> QED
  BY <1>2, <1>3

LEMMA ReadAppStep ==
  ASSUME ServiceInv, NEW r \in Requests, ReadApp(r)
  PROVE  ServiceInv'
<1> DEFINE row == apps[req[r].target]
           q == [req[r] EXCEPT !.pc = "workspace", !.row = row]
<1>1. UNCHANGED <<tables, audit, history>> /\ req[r].pc = "app"
  BY DEF ReadApp
<1>2. CASE row # None
  <2>1. /\ req[r] \in Request /\ req[r].op \in AppOps /\ req[r].op \in Ops /\ ~req[r].late
        /\ req[r].target \in AppIds
    BY <1>1, SlotFacts, KindsOfTargets DEF Formed, Grounded
  <2>2. row \in App /\ Len(row.hashes) \in 1..2 /\ row.workspace \in born
    BY <1>2, <2>1 DEF ServiceInv, TypeOK, RowsOK, NoOrphan, BornInv, App
  <2> HIDE DEF row
  <2>3. /\ q \in Request /\ q.pc = "workspace" /\ q.row = row /\ q.op = req[r].op
        /\ q.token = req[r].token /\ q.arg = req[r].arg /\ q.target = req[r].target
        /\ q.secret = req[r].secret /\ q.late = req[r].late /\ q.user = req[r].user
    BY <2>1, <2>2 DEF Request, Steps
  <2> HIDE DEF q
  <2>4. Formed(q)
    BY <1>1, <2>1, <2>2, <2>3, SlotFacts DEF Formed
  <2>5. Grounded(q)
    BY <2>1, <2>3 DEF Grounded, row
  <2>6. req' = [req EXCEPT ![r] = q]
    BY <1>2 DEF ReadApp, q, row
  <2>7. apps[q.target] # None /\ q.row = apps[q.target]
    BY <1>2, <2>3 DEF row
  <2> QED
    BY <1>1, <2>3, <2>4, <2>5, <2>6, <2>7, ReadingStep
<1>3. CASE row = None
  BY <1>1, <1>3, EndStep DEF ReadApp
<1> QED
  BY <1>2, <1>3

(* The last check before a write, and what it found out.                   *)
LEMMA ToWriteStep ==
  ASSUME ServiceInv, UNCHANGED <<tables, audit, history>>, NEW r \in Requests, Goto(r, "write"),
         req[r].pc \in {"workspace", "tokens"}, ~EmptyPatch(r),
         req[r].pc = "workspace" => Owned(WorkspaceOf(r), req[r].user),
         req[r].pc = "tokens" => OwnToken(req[r].target, req[r].user)
  PROVE  ServiceInv'
<1> DEFINE q == [req[r] EXCEPT !.pc = "write"]
<1>1. req[r] \in Request /\ req[r].op \in Ops /\ ~req[r].late
  BY SlotFacts DEF Formed, Grounded
<1>2. /\ q \in Request /\ q.pc = "write" /\ q.row = req[r].row /\ q.op = req[r].op
      /\ q.token = req[r].token /\ q.arg = req[r].arg /\ q.target = req[r].target
      /\ q.secret = req[r].secret /\ q.late = req[r].late /\ q.user = req[r].user
  BY <1>1 DEF Request, Steps
<1> HIDE DEF q
<1>3. Formed(q)
  BY <1>1, <1>2, SlotFacts, OpsApart DEF Formed, EmptyPatch
<1>4. Grounded(q)
  <2>1. CASE req[r].pc = "workspace"
    <3>1. req[r].op \in WorkspaceOps \cup AppOps
      BY <2>1, SlotFacts DEF Formed
    <3>2. q.op \in WorkspaceOps => OwnsIfThere(q.target, q.user)
      BY <1>2, <2>1, OpsApart DEF Owned, OwnsIfThere, WorkspaceOf
    <3>3. q.op \in AppOps => OwnsIfThere(q.row.workspace, q.user)
      BY <1>2, <2>1, OpsApart DEF Owned, OwnsIfThere, WorkspaceOf
    <3>4. q.op \in AppOps /\ apps[q.target] # None => apps[q.target].workspace = q.row.workspace
      BY <1>2, <2>1, SlotFacts DEF Grounded
    <3> QED
      BY <1>1, <1>2, <3>1, <3>2, <3>3, <3>4, OpsApart DEF Grounded
  <2>2. CASE req[r].pc = "tokens"
    <3>1. req[r].op = "api_token.delete"
      BY <2>2, SlotFacts DEF Formed
    <3> QED
      BY <1>1, <1>2, <2>2, <3>1, OpsApart DEF Grounded, OwnToken
  <2> QED
    BY <2>1, <2>2
<1>5. req' = [req EXCEPT ![r] = q]
  BY DEF Goto, q
<1>6. q.op = RotateOp => Rotating(r, q.target) /\ q.row = req[r].row
  BY <1>2, SlotFacts, OpsApart DEF Rotating, Formed
<1> QED
  BY <1>2, <1>3, <1>4, <1>5, <1>6, ReadingStep

LEMMA ReadStep ==
  ASSUME ServiceInv, NEW r \in Requests,
         CheckToken(r) \/ ReadApp(r) \/ ReadWorkspace(r) \/ ReadTokens(r) \/ Fail(r)
  PROVE  ServiceInv'
<1>1. CASE CheckToken(r)
  BY <1>1, CheckTokenStep
<1>2. CASE ReadApp(r)
  BY <1>2, ReadAppStep
<1>3. CASE ReadWorkspace(r)
  BY <1>3, ToWriteStep, EndStep DEF ReadWorkspace
<1>4. CASE ReadTokens(r)
  <2>1. req[r].op = "api_token.delete"
    BY <1>4, SlotFacts DEF Formed, ReadTokens
  <2>2. ~EmptyPatch(r)
    BY <2>1 DEF EmptyPatch
  <2> QED
    BY <1>4, <2>2, ToWriteStep, EndStep DEF ReadTokens
<1>5. CASE Fail(r)
  BY <1>5, EndStep DEF Fail
<1> QED
  BY <1>1, <1>2, <1>3, <1>4, <1>5

-----------------------------------------------------------------------------
(* Steps that write.                                                       *)

(* The request that wrote is no rotation under way any more.               *)
LEMMA WroteSlot ==
  ASSUME TypeOK, NEW r \in Requests, NEW id, NEW secret, Wrote(r, id, secret)
  PROVE  /\ \A x \in Requests \ {r} : req'[x] = req[x]
         /\ req'[r].pc \notin {"workspace", "write"}
         /\ SteadyRotations
<1>1. /\ \A x \in Requests \ {r} : req'[x] = req[x]
      /\ req'[r].pc \notin {"workspace", "write"}
  <2>1. CASE End(r)
    BY <2>1 DEF End, TypeOK, Idle
  <2>2. CASE req' = [req EXCEPT ![r].pc = "audit", ![r].target = id, ![r].secret = secret]
    BY <2>2 DEF TypeOK, Request
  <2> QED
    BY <2>1, <2>2 DEF Wrote
<1> QED
  BY <1>1 DEF SteadyRotations, Rotating

LEMMA WroteStep ==
  ASSUME ServiceInv, Evolves, gone' = gone, NEW r \in Requests, req[r].pc = "write",
         NEW id \in Ids, id \in born', NEW secret \in Secrets \cup {None},
         secret # None => secretLog'[secret].app # None,
         req[r].op \in Deletions => RowOf(id)' = None,
         req[r].op = "api_token.create" => id \in TokenIds,
         Wrote(r, id, secret),
         RowsOK', NoOrphan', BornInv', SecretInv'
  PROVE  ServiceInv'
<1>1. TypeOK /\ Slots
  BY DEF ServiceInv, Slots
<1>2. req' \in [Requests -> Request] /\ Slots'
  <2>1. CASE End(r)
    BY <1>1, <2>1, IdleFits, SlotStep DEF End
  <2>2. CASE req' = [req EXCEPT ![r].pc = "audit", ![r].target = id, ![r].secret = secret]
    <3>1. req[r] \in Request /\ req[r].op \in Ops /\ ~req[r].late /\ req[r].user \in Users
      BY SlotFacts DEF Formed, Grounded
    <3>2. PICK q \in Request :
            /\ q = [req[r] EXCEPT !.pc = "audit", !.target = id, !.secret = secret]
            /\ q.pc = "audit" /\ q.row = req[r].row /\ q.op = req[r].op
            /\ q.token = req[r].token /\ q.arg = req[r].arg /\ q.target = id
            /\ q.secret = secret /\ q.late = req[r].late /\ q.user = req[r].user
      <4> DEFINE p == [req[r] EXCEPT !.pc = "audit", !.target = id, !.secret = secret]
      <4>1. /\ p \in Request
            /\ p.pc = "audit" /\ p.row = req[r].row /\ p.op = req[r].op
            /\ p.token = req[r].token /\ p.arg = req[r].arg /\ p.target = id
            /\ p.secret = secret /\ p.late = req[r].late /\ p.user = req[r].user
        BY <3>1 DEF Request, Steps
      <4> QED
        BY <4>1, Zenon
    <3>3. req' = [req EXCEPT ![r] = q]
      BY <2>2, <3>2
    <3>4. Formed(q)'
      BY <3>1, <3>2, SlotFacts DEF Formed
    <3>5. Grounded(q)'
      <4>1. q.op \in Deletions => RowOf(q.target)' = None
        BY <3>2 DEF RowOf
      <4> QED
        BY <3>1, <3>2, <4>1 DEF Grounded
    <3> QED
      BY <1>1, <3>2, <3>3, <3>4, <3>5, SlotStep
  <2> QED
    BY <2>1, <2>2 DEF Wrote
<1>3. DeletedStaysGone'
  BY GoneStays
<1> QED
  BY <1>2, <1>3 DEF ServiceInv, TypeOK, Slots

(* The same for writes that concern no secret.                             *)
LEMMA PlainWriteStep ==
  ASSUME ServiceInv, Evolves, gone' = gone, SteadyRows, NEW r \in Requests, req[r].pc = "write",
         NEW id \in Ids, id \in born',
         req[r].op \in Deletions => RowOf(id)' = None,
         req[r].op = "api_token.create" => id \in TokenIds,
         Wrote(r, id, None), RowsOK', NoOrphan', BornInv'
  PROVE  ServiceInv'
<1>1. SecretInv'
  BY WroteSlot, SteadySecrets DEF ServiceInv
<1> QED
  BY <1>1, WroteStep

(* What a request at its write is about.                                   *)
LEMMA AtWrite ==
  ASSUME ServiceInv, NEW r \in Requests, req[r].pc = "write"
  PROVE  /\ req[r] \in Request /\ req[r].op \in Ops /\ req[r].user \in Users
         /\ req[r].arg \in ArgsOf(req[r].op)
         /\ req[r].op \in {"workspace.update", "app.update"} => req[r].arg # None
         /\ req[r].op \in WorkspaceOps => req[r].target \in WorkspaceIds \cap born
         /\ req[r].op \in AppOps =>
              /\ req[r].target \in AppIds \cap born
              /\ req[r].row \in App /\ Len(req[r].row.hashes) \in 1..2
              /\ req[r].row.workspace \in WorkspaceIds \cap born
         /\ req[r].op = "api_token.delete" => req[r].target \in TokenIds \cap born
<1>1. req[r] \in Request /\ Formed(req[r]) /\ req[r].op \in Ops
  BY SlotFacts DEF Formed
<1> QED
  BY <1>1, KindsOfTargets DEF Formed, App

LEMMA IdKinds == WorkspaceIds \subseteq Ids /\ AppIds \subseteq Ids /\ TokenIds \subseteq Ids
  BY DEF Ids

LEMMA CreateWorkspaceStep ==
  ASSUME ServiceInv, NEW r \in Requests, CreateWorkspace(r)
  PROVE  ServiceInv'
<1> USE DEF history
<1>1. req[r].pc = "write" /\ req[r].op = "workspace.create"
  BY DEF CreateWorkspace, At
<1>2. PICK w \in WorkspaceIds \ born :
        /\ workspaces' = [workspaces EXCEPT ![w] = [owner |-> req[r].user, name |-> req[r].arg]]
        /\ born' = born \cup {w}
        /\ Wrote(r, w, None)
  BY DEF CreateWorkspace
<1>3. UNCHANGED <<apps, tokens, audit, secretLog, handed, held, gone>>
  BY DEF CreateWorkspace
<1>4. req[r].user \in Users /\ req[r].arg \in Names
  BY <1>1, AtWrite DEF ArgsOf
<1> DEFINE row == [owner |-> req[r].user, name |-> req[r].arg]
<1>5. row \in Workspace /\ row # None
  BY <1>4, NoneIsApart DEF Workspace
<1> HIDE DEF row
<1>6. workspaces' = [workspaces EXCEPT ![w] = row] /\ workspaces \in [WorkspaceIds -> Workspace \cup {None}]
  BY <1>2 DEF row, ServiceInv, TypeOK, RowsOK
<1>7. Evolves
  BY <1>2, <1>3, <1>6 DEF Evolves
<1>8. SteadyRows
  BY <1>3 DEF SteadyRows
<1>9. RowsOK'
  BY <1>2, <1>3, <1>5, <1>6, IdKinds DEF ServiceInv, TypeOK, RowsOK
<1>10. NoOrphan' /\ BornInv'
  BY <1>2, <1>3, <1>5, <1>6 DEF ServiceInv, NoOrphan, BornInv, TypeOK, RowsOK, App
<1>11. req[r].op \notin Deletions /\ w \in Ids /\ w \in born'
  BY <1>1, <1>2, IdKinds DEF Deletions
<1> QED
  BY <1>1, <1>2, <1>3, <1>7, <1>8, <1>9, <1>10, <1>11, PlainWriteStep

LEMMA UpdateWorkspaceStep ==
  ASSUME ServiceInv, NEW r \in Requests, UpdateWorkspace(r)
  PROVE  ServiceInv'
<1> USE DEF history
<1>1. /\ req[r].pc = "write" /\ req[r].op = "workspace.update"
      /\ UNCHANGED <<apps, tokens, audit, history>>
  BY DEF UpdateWorkspace, At
<1>2. PICK w \in WorkspaceIds \cap born : w = req[r].target
  BY <1>1, AtWrite DEF WorkspaceOps
<1>3. /\ workspaces[w] # None /\ Wrote(r, w, None)
      /\ workspaces' = [workspaces EXCEPT ![w].name = req[r].arg]
  BY <1>2 DEF UpdateWorkspace
<1>4. req[r].arg \in Names
  BY <1>1, AtWrite DEF ArgsOf
<1> DEFINE row == [workspaces[w] EXCEPT !.name = req[r].arg]
<1>5. /\ workspaces \in [WorkspaceIds -> Workspace \cup {None}]
      /\ row \in Workspace /\ row # None /\ row.owner = workspaces[w].owner
  BY <1>3, <1>4, NoneIsApart DEF Workspace, ServiceInv, TypeOK, RowsOK
<1>6. workspaces' = [workspaces EXCEPT ![w] = row]
  BY <1>3, <1>5
<1> HIDE DEF row
<1>7. Evolves
  BY <1>1, <1>3, <1>5, <1>6 DEF Evolves
<1>8. SteadyRows
  BY <1>1 DEF SteadyRows
<1>9. RowsOK'
  BY <1>1, <1>5, <1>6 DEF ServiceInv, TypeOK, RowsOK
<1>10. NoOrphan' /\ BornInv'
  BY <1>1, <1>2, <1>5, <1>6 DEF ServiceInv, NoOrphan, BornInv, TypeOK, RowsOK, App
<1>11. req[r].op \notin Deletions /\ w \in Ids /\ w \in born'
  BY <1>1, <1>2, IdKinds DEF Deletions
<1> QED
  BY <1>1, <1>3, <1>7, <1>8, <1>9, <1>10, <1>11, PlainWriteStep

LEMMA DeleteWorkspaceStep ==
  ASSUME ServiceInv, NEW r \in Requests, DeleteWorkspace(r)
  PROVE  ServiceInv'
<1> USE DEF history
<1>1. /\ req[r].pc = "write" /\ req[r].op = "workspace.delete"
      /\ UNCHANGED <<tokens, audit, history>>
  BY DEF DeleteWorkspace, At
<1>2. PICK w \in WorkspaceIds \cap born : w = req[r].target
  BY <1>1, AtWrite DEF WorkspaceOps
<1>3. /\ Wrote(r, w, None)
      /\ workspaces' = [workspaces EXCEPT ![w] = None]
      /\ apps' = [a \in AppIds |-> IF apps[a] # None /\ apps[a].workspace = w THEN None ELSE apps[a]]
  BY <1>2 DEF DeleteWorkspace
<1>4. /\ workspaces \in [WorkspaceIds -> Workspace \cup {None}] /\ workspaces'[w] = None
      /\ \A v \in WorkspaceIds \ {w} : workspaces'[v] = workspaces[v]
      /\ \A a \in AppIds : apps'[a] = None \/ (apps'[a] = apps[a] /\ apps[a].workspace # w)
  BY <1>3 DEF ServiceInv, TypeOK, RowsOK
<1>7. Evolves
  BY <1>1, <1>4 DEF Evolves
<1>8. SteadyRows
  BY <1>1, <1>4 DEF SteadyRows
<1>9. RowsOK'
  <2>1. workspaces' \in [WorkspaceIds -> Workspace \cup {None}]
    BY <1>3, <1>4
  <2>2. apps' \in [AppIds -> App \cup {None}]
    BY <1>3 DEF ServiceInv, TypeOK, RowsOK
  <2> QED
    BY <1>1, <1>4, <2>1, <2>2 DEF ServiceInv, TypeOK, RowsOK
<1>10. NoOrphan' /\ BornInv'
  BY <1>1, <1>4 DEF ServiceInv, NoOrphan, BornInv, TypeOK, RowsOK, App
<1>11. RowOf(w)' = None /\ w \in Ids /\ w \in born'
  BY <1>1, <1>2, <1>4, IdKinds, ServiceAssumption DEF RowOf
<1> QED
  BY <1>1, <1>3, <1>7, <1>8, <1>9, <1>10, <1>11, PlainWriteStep

(* A patch of an app that leaves its workspace and hashes alone.           *)
LEMMA PatchStep ==
  ASSUME ServiceInv, NEW r \in Requests, req[r].pc = "write", req[r].op \in AppOps,
         req[r].op \notin Deletions,
         NEW a \in AppIds \cap born, apps[a] # None,
         NEW row \in App, row.workspace = apps[a].workspace, row.hashes = apps[a].hashes,
         apps' = [apps EXCEPT ![a] = row], Wrote(r, a, None),
         UNCHANGED <<workspaces, tokens, audit, history>>
  PROVE  ServiceInv'
<1> USE DEF history
<1>1. apps \in [AppIds -> App \cup {None}] /\ row # None
  BY NoneIsApart DEF ServiceInv, TypeOK, RowsOK
<1>2. Evolves
  BY <1>1 DEF Evolves
<1>3. SteadyRows
  BY <1>1 DEF SteadyRows
<1>4. RowsOK'
  BY <1>1 DEF ServiceInv, TypeOK, RowsOK
<1>5. NoOrphan' /\ BornInv'
  BY <1>1 DEF ServiceInv, NoOrphan, BornInv
<1>6. req[r].op # "api_token.create"
  BY DEF AppOps, RotateOp
<1> QED
  BY <1>2, <1>3, <1>4, <1>5, <1>6, IdKinds, PlainWriteStep

LEMMA UpdateAppStep ==
  ASSUME ServiceInv, NEW r \in Requests, UpdateApp(r) \/ ToggleRawTokens(r)
  PROVE  ServiceInv'
<1>1. /\ req[r].pc = "write" /\ req[r].op \in {"app.update", "app.raw_tokens.toggle"}
      /\ UNCHANGED <<workspaces, tokens, audit, history>>
  BY DEF UpdateApp, ToggleRawTokens, At
<1>2. req[r].op \in AppOps /\ req[r].op \notin Deletions
  BY <1>1 DEF AppOps, Deletions
<1>3. PICK a \in AppIds \cap born : a = req[r].target
  BY <1>1, <1>2, AtWrite
<1>4. /\ apps[a] # None /\ Wrote(r, a, None)
      /\ apps[a] \in App
  BY <1>3 DEF UpdateApp, ToggleRawTokens, StoredRow, ServiceInv, TypeOK, RowsOK
<1>5. CASE UpdateApp(r)
  <2>1. req[r].arg \in Details
    BY <1>1, <1>5, AtWrite DEF ArgsOf, UpdateApp, At
  <2> DEFINE row == [apps[a] EXCEPT !.details = req[r].arg]
  <2>2. row \in App /\ row.workspace = apps[a].workspace /\ row.hashes = apps[a].hashes
    BY <1>4, <2>1 DEF App
  <2>3. apps' = [apps EXCEPT ![a] = row]
    BY <1>3, <1>5 DEF UpdateApp, StoredRow
  <2> HIDE DEF row
  <2> QED
    BY <1>1, <1>2, <1>4, <2>2, <2>3, PatchStep
<1>6. CASE ToggleRawTokens(r)
  <2>1. req[r].arg \in BOOLEAN
    BY <1>1, <1>6, AtWrite DEF ArgsOf, ToggleRawTokens, At
  <2> DEFINE row == [apps[a] EXCEPT !.raw = req[r].arg]
  <2>2. row \in App /\ row.workspace = apps[a].workspace /\ row.hashes = apps[a].hashes
    BY <1>4, <2>1 DEF App
  <2>3. apps' = [apps EXCEPT ![a] = row]
    BY <1>3, <1>6 DEF ToggleRawTokens, StoredRow
  <2> HIDE DEF row
  <2> QED
    BY <1>1, <1>2, <1>4, <2>2, <2>3, PatchStep
<1> QED
  BY <1>5, <1>6

LEMMA DeleteAppStep ==
  ASSUME ServiceInv, NEW r \in Requests, DeleteApp(r)
  PROVE  ServiceInv'
<1> USE DEF history
<1>1. /\ req[r].pc = "write" /\ req[r].op = "app.delete"
      /\ UNCHANGED <<workspaces, tokens, audit, history>>
  BY DEF DeleteApp, At
<1>2. PICK a \in AppIds \cap born : a = req[r].target
  BY <1>1, AtWrite DEF AppOps
<1>3. Wrote(r, a, None) /\ apps' = [apps EXCEPT ![a] = None]
  BY <1>2 DEF DeleteApp
<1>4. apps \in [AppIds -> App \cup {None}]
  BY DEF ServiceInv, TypeOK, RowsOK
<1>7. Evolves /\ SteadyRows
  BY <1>1, <1>3, <1>4 DEF Evolves, SteadyRows
<1>9. RowsOK'
  BY <1>1, <1>3, <1>4 DEF ServiceInv, TypeOK, RowsOK
<1>10. NoOrphan' /\ BornInv'
  BY <1>1, <1>3, <1>4 DEF ServiceInv, NoOrphan, BornInv
<1>11. RowOf(a)' = None /\ a \in Ids /\ a \in born'
  BY <1>1, <1>2, <1>3, <1>4, IdKinds, ServiceAssumption DEF RowOf
<1> QED
  BY <1>1, <1>3, <1>7, <1>9, <1>10, <1>11, PlainWriteStep

LEMMA CreateTokenStep ==
  ASSUME ServiceInv, NEW r \in Requests, CreateToken(r)
  PROVE  ServiceInv'
<1> USE DEF history
<1>1. /\ req[r].pc = "write" /\ req[r].op = "api_token.create"
      /\ UNCHANGED <<workspaces, apps, audit, secretLog, handed, held, gone>>
  BY DEF CreateToken, At
<1>2. PICK t \in TokenIds \ born :
        /\ tokens' = [tokens EXCEPT ![t] = [user |-> req[r].user, admin |-> req[r].arg]]
        /\ born' = born \cup {t}
        /\ Wrote(r, t, None)
  BY DEF CreateToken
<1>3. req[r].user \in Users /\ req[r].arg \in BOOLEAN
  BY <1>1, AtWrite DEF ArgsOf
<1> DEFINE row == [user |-> req[r].user, admin |-> req[r].arg]
<1>4. row \in ApiToken /\ tokens \in [TokenIds -> ApiToken \cup {None}]
  BY <1>3 DEF ApiToken, ServiceInv, TypeOK, RowsOK
<1> HIDE DEF row
<1>5. tokens' = [tokens EXCEPT ![t] = row]
  BY <1>2 DEF row
<1>7. Evolves /\ SteadyRows
  BY <1>1, <1>2, <1>4, <1>5 DEF Evolves, SteadyRows
<1>9. RowsOK'
  BY <1>1, <1>2, <1>4, <1>5, IdKinds DEF ServiceInv, TypeOK, RowsOK
<1>10. NoOrphan' /\ BornInv'
  BY <1>1, <1>2, <1>4, <1>5 DEF ServiceInv, NoOrphan, BornInv
<1>11. req[r].op \notin Deletions /\ t \in Ids /\ t \in born'
  BY <1>1, <1>2, IdKinds DEF Deletions
<1> QED
  BY <1>1, <1>2, <1>7, <1>9, <1>10, <1>11, PlainWriteStep

LEMMA DeleteTokenStep ==
  ASSUME ServiceInv, NEW r \in Requests, DeleteToken(r)
  PROVE  ServiceInv'
<1> USE DEF history
<1>1. /\ req[r].pc = "write" /\ req[r].op = "api_token.delete"
      /\ UNCHANGED <<workspaces, apps, audit, history>>
  BY DEF DeleteToken, At
<1>2. PICK t \in TokenIds \cap born : t = req[r].target
  BY <1>1, AtWrite
<1>3. Wrote(r, t, None) /\ tokens' = [tokens EXCEPT ![t] = None]
  BY <1>2 DEF DeleteToken, WithoutToken
<1>4. tokens \in [TokenIds -> ApiToken \cup {None}]
  BY DEF ServiceInv, TypeOK, RowsOK
<1>7. Evolves /\ SteadyRows
  BY <1>1, <1>3, <1>4 DEF Evolves, SteadyRows
<1>9. RowsOK'
  BY <1>1, <1>3, <1>4 DEF ServiceInv, TypeOK, RowsOK
<1>10. NoOrphan' /\ BornInv'
  BY <1>1, <1>3, <1>4 DEF ServiceInv, NoOrphan, BornInv
<1>11. RowOf(t)' = None /\ t \in Ids /\ t \in born'
  BY <1>1, <1>2, <1>3, <1>4, IdKinds, ServiceAssumption DEF RowOf
<1> QED
  BY <1>1, <1>3, <1>7, <1>9, <1>10, <1>11, PlainWriteStep

(* What the log says once secret s of app a is in it.                      *)
LEMMA LogFacts ==
  ASSUME RowsOK, NEW s \in Secrets, secretLog[s].app = None, NEW a \in AppIds, NEW raced \in BOOLEAN
  PROVE  /\ Log(s, a, raced) \in [Secrets -> [app : AppIds \cup {None}, overtaken : 0..2, raced : BOOLEAN]]
         /\ Log(s, a, raced)[s] = [app |-> a, overtaken |-> 0, raced |-> raced]
         /\ \A x \in Secrets \ {s} :
              /\ Log(s, a, raced)[x].app = secretLog[x].app
              /\ Log(s, a, raced)[x].raced = secretLog[x].raced
              /\ secretLog[x].app # a => Log(s, a, raced)[x] = secretLog[x]
              /\ secretLog[x].app = a => /\ Log(s, a, raced)[x].overtaken # 0
                                         /\ Log(s, a, raced)[x].overtaken = 1 => secretLog[x].overtaken = 0
<1>1. secretLog \in [Secrets -> [app : AppIds \cup {None}, overtaken : 0..2, raced : BOOLEAN]]
  BY DEF RowsOK
<1>2. ASSUME NEW x \in Secrets, secretLog[x].overtaken < 2
      PROVE  /\ [secretLog[x] EXCEPT !.overtaken = @ + 1] \in
                  [app : AppIds \cup {None}, overtaken : 0..2, raced : BOOLEAN]
             /\ [secretLog[x] EXCEPT !.overtaken = @ + 1].overtaken = secretLog[x].overtaken + 1
             /\ [secretLog[x] EXCEPT !.overtaken = @ + 1].app = secretLog[x].app
             /\ [secretLog[x] EXCEPT !.overtaken = @ + 1].raced = secretLog[x].raced
  BY <1>1, <1>2
<1>3. ASSUME NEW x \in Secrets PROVE secretLog[x].overtaken \in {0, 1, 2}
  BY <1>1
<1> QED
  BY <1>1, <1>2, <1>3 DEF Log

LEMMA NewestIsMember ==
  ASSUME NEW hashes \in Seq(Secrets), Len(hashes) \in 1..2
  PROVE  Newest(hashes) \in Secrets /\ Len(hashes) \in DOMAIN hashes
  BY DEF Newest

LEMMA CreateAppStep ==
  ASSUME ServiceInv, NEW r \in Requests, CreateApp(r)
  PROVE  ServiceInv'
<1> USE DEF history
<1>1. /\ req[r].pc = "write" /\ req[r].op = "app.create" /\ Insertable(req[r].target, req[r].arg)
      /\ UNCHANGED <<workspaces, tokens, audit, handed, held, gone>>
  BY DEF CreateApp, At
<1>2. PICK a \in AppIds \ born, s \in Unused, d \in Details :
        /\ apps' = [apps EXCEPT ![a] = [workspace |-> req[r].target, toss |-> req[r].arg,
                                        details |-> d, raw |-> FALSE, hashes |-> <<s>>]]
        /\ born' = born \cup {a}
        /\ secretLog' = Log(s, a, FALSE)
        /\ Wrote(r, a, s)
  BY DEF CreateApp
<1>3. PICK w \in WorkspaceIds \cap born : w = req[r].target
  BY <1>1, AtWrite DEF WorkspaceOps
<1>4. req[r].arg \in TossIds /\ workspaces[w] # None
  BY <1>1, <1>3, AtWrite DEF ArgsOf, Insertable
<1> DEFINE row == [workspace |-> req[r].target, toss |-> req[r].arg, details |-> d,
                   raw |-> FALSE, hashes |-> <<s>>]
<1>5. /\ row \in App /\ row # None /\ row.workspace = w /\ row.hashes = <<s>>
      /\ Len(row.hashes) = 1 /\ Newest(row.hashes) = s
      /\ s \in Secrets /\ secretLog[s].app = None
  <2>1. s \in Secrets /\ secretLog[s].app = None
    BY DEF Unused
  <2>2. <<s>> \in Seq(Secrets) /\ Len(<<s>>) = 1 /\ Newest(<<s>>) = s
    BY <2>1 DEF Newest
  <2>3. row \in App /\ row.workspace = w /\ row.hashes = <<s>>
    BY <1>3, <1>4, <2>2 DEF App
  <2> QED
    BY <2>1, <2>2, <2>3, NoneIsApart
<1> HIDE DEF row
<1>6. apps' = [apps EXCEPT ![a] = row] /\ apps \in [AppIds -> App \cup {None}]
  BY <1>2 DEF row, ServiceInv, TypeOK, RowsOK
<1>7. /\ secretLog' \in [Secrets -> [app : AppIds \cup {None}, overtaken : 0..2, raced : BOOLEAN]]
      /\ secretLog'[s] = [app |-> a, overtaken |-> 0, raced |-> FALSE]
      /\ \A x \in Secrets \ {s} : secretLog'[x] = secretLog[x] /\ secretLog[x].app # a
  <2>1. \A x \in Secrets : secretLog[x].app # a
    BY <1>2, NoneIsApart DEF ServiceInv, BornInv, Ids
  <2>2. RowsOK
    BY DEF ServiceInv, TypeOK
  <2> DEFINE raced == FALSE
  <2>4. raced \in BOOLEAN
    OBVIOUS
  <2> HIDE DEF raced
  <2>5. /\ Log(s, a, raced) \in [Secrets -> [app : AppIds \cup {None}, overtaken : 0..2, raced : BOOLEAN]]
        /\ Log(s, a, raced)[s] = [app |-> a, overtaken |-> 0, raced |-> raced]
        /\ \A x \in Secrets \ {s} : secretLog[x].app # a => Log(s, a, raced)[x] = secretLog[x]
    BY <1>2, <1>5, <2>2, <2>4, LogFacts
  <2>3. /\ Log(s, a, FALSE) \in [Secrets -> [app : AppIds \cup {None}, overtaken : 0..2, raced : BOOLEAN]]
        /\ Log(s, a, FALSE)[s] = [app |-> a, overtaken |-> 0, raced |-> FALSE]
        /\ \A x \in Secrets \ {s} : secretLog[x].app # a => Log(s, a, FALSE)[x] = secretLog[x]
    BY <2>5 DEF raced
  <2> QED
    BY <1>2, <2>1, <2>3
<1>8. Evolves
  BY <1>1, <1>2, <1>5, <1>6, <1>7 DEF Evolves
<1>9. RowsOK'
  <2>1. apps' \in [AppIds -> App \cup {None}] /\ apps'[a] = row
        /\ \A b \in AppIds \ {a} : apps'[b] = apps[b]
    BY <1>5, <1>6
  <2>2. \A b \in AppIds : apps'[b] # None => Len(apps'[b].hashes) \in 1..2
    BY <1>5, <2>1 DEF ServiceInv, TypeOK, RowsOK
  <2>3. born' \subseteq Ids
    BY <1>2, IdKinds DEF ServiceInv, TypeOK, RowsOK
  <2> QED
    BY <1>1, <1>7, <2>1, <2>2, <2>3 DEF ServiceInv, TypeOK, RowsOK
<1>10. NoOrphan'
  BY <1>1, <1>4, <1>5, <1>6 DEF ServiceInv, NoOrphan
<1>11. BornInv'
  <2>1. a \in born' /\ born \subseteq born' /\ a # None
    BY <1>2, IdKinds, NoneIsApart
  <2>2. \A b \in AppIds : apps'[b] # None => b \in born'
    BY <1>6, <2>1 DEF ServiceInv, BornInv
  <2>3. \A x \in Secrets : secretLog'[x].app # None => secretLog'[x].app \in born'
    BY <1>7, <2>1 DEF ServiceInv, BornInv
  <2>4. \A x \in handed : secretLog'[x].app # None
    BY <1>7, <2>1 DEF ServiceInv, BornInv, TypeOK, RowsOK
  <2> QED
    BY <1>1, <2>1, <2>2, <2>3, <2>4 DEF ServiceInv, BornInv
<1>12. SecretInv'
  <2>1. TypeOK
    BY DEF ServiceInv
  <2>2. \A b \in AppIds : \A q \in Requests : Rotating(q, b)' =>
           Rotating(q, b) /\ req'[q].row = req[q].row
    BY <1>2, <2>1, WroteSlot DEF Rotating
  <2>3. \A q \in Requests : ~Rotating(q, a)
    BY <1>2, SlotFacts, OpsApart DEF Rotating, Formed
  <2> SUFFICES ASSUME NEW x \in Secrets, NEW b \in AppIds, secretLog'[x].app = b, ~secretLog'[x].raced
               PROVE  /\ secretLog'[x].overtaken = 0 =>
                           /\ apps'[b] # None => Newest(apps'[b].hashes) = x
                           /\ \A q \in Requests : Rotating(q, b)' => Newest(req'[q].row.hashes) = x
                      /\ secretLog'[x].overtaken = 1 /\ apps'[b] # None =>
                           x \in {apps'[b].hashes[i] : i \in DOMAIN apps'[b].hashes}
    BY <1>7 DEF SecretInv, Accepted
  <2>4. CASE x = s
    BY <1>5, <1>6, <1>7, <2>2, <2>3, <2>4
  <2>5. CASE x # s
    <3>1. secretLog[x].app = b /\ ~secretLog[x].raced /\ b # a /\ apps'[b] = apps[b]
      BY <1>6, <1>7, <2>5
    <3>2. /\ secretLog[x].overtaken = 0 =>
              /\ apps[b] # None => Newest(apps[b].hashes) = x
              /\ \A q \in Requests : Rotating(q, b) => Newest(req[q].row.hashes) = x
          /\ secretLog[x].overtaken = 1 /\ apps[b] # None =>
              x \in {apps[b].hashes[i] : i \in DOMAIN apps[b].hashes}
      BY <3>1, NoneIsApart, IdKinds DEF ServiceInv, SecretInv, Accepted
    <3> QED
      BY <1>7, <2>2, <2>5, <3>1, <3>2
  <2> QED
    BY <2>4, <2>5
<1>13. req[r].op \notin Deletions /\ a \in Ids /\ a \in born' /\ secretLog'[s].app # None
  <2>1. req[r].op \notin Deletions
    BY <1>1 DEF Deletions
  <2>2. a \in Ids /\ a # None /\ a \in born'
    BY <1>2, IdKinds, NoneIsApart
  <2>3. secretLog'[s].app = a
    BY <1>7
  <2> QED
    BY <2>1, <2>2, <2>3
<1> QED
  BY <1>1, <1>2, <1>5, <1>8, <1>9, <1>10, <1>11, <1>12, <1>13, WroteStep

LEMMA RotateSecretStep ==
  ASSUME ServiceInv, NEW r \in Requests, RotateSecret(r)
  PROVE  ServiceInv'
<1> USE DEF history
<1> DEFINE before == req[r].row.hashes
<1>1. /\ req[r].pc = "write" /\ req[r].op = RotateOp
      /\ UNCHANGED <<workspaces, tokens, audit, born, handed, held, gone>>
  BY DEF RotateSecret, At
<1>2. PICK a \in AppIds \cap born : a = req[r].target
  BY <1>1, AtWrite, OpsApart
<1>3. apps \in [AppIds -> App \cup {None}] /\ apps[a] # None /\ apps[a] \in App
  BY <1>2 DEF RotateSecret, StoredRow, ServiceInv, TypeOK, RowsOK
<1>4. PICK s \in Unused :
        /\ apps' = [apps EXCEPT ![a] = [apps[a] EXCEPT !.hashes = Rotated(before, s)]]
        /\ secretLog' = Log(s, a, before # apps[a].hashes \/ \E q \in Requests \ {r} : Rotating(q, a))
        /\ Wrote(r, a, s)
  BY <1>2 DEF RotateSecret, StoredRow
<1>5. before \in Seq(Secrets) /\ Len(before) \in 1..2 /\ Rotating(r, a)
  BY <1>1, <1>2, AtWrite, OpsApart DEF App, Rotating
<1> DEFINE hashes == Rotated(before, s)
           row == [apps[a] EXCEPT !.hashes = hashes]
           raced == before # apps[a].hashes \/ \E q \in Requests \ {r} : Rotating(q, a)
<1>6. /\ hashes \in Seq(Secrets) /\ Len(hashes) = 2 /\ DOMAIN hashes = {1, 2}
      /\ hashes[1] = Newest(before) /\ hashes[2] = s
      /\ s \in Secrets /\ secretLog[s].app = None
  <2>1. s \in Secrets /\ secretLog[s].app = None
    BY DEF Unused
  <2>2. Newest(before) \in Secrets
    BY <1>5, NewestIsMember
  <2>3. hashes = <<Newest(before), s>>
    BY DEF Rotated, Newest
  <2> QED
    BY <2>1, <2>2, <2>3
<1> HIDE DEF hashes
<1>7. row \in App /\ row # None /\ row.workspace = apps[a].workspace /\ row.hashes = hashes
  BY <1>3, <1>6, NoneIsApart DEF App
<1> HIDE DEF row
<1>8. apps' = [apps EXCEPT ![a] = row]
  BY <1>4 DEF row, hashes
<1>9. raced \in BOOLEAN /\ secretLog' = Log(s, a, raced)
  BY <1>4
<1>10. raced = FALSE => \A q \in Requests \ {r} : ~Rotating(q, a)
  OBVIOUS
<1> HIDE DEF raced
<1>11. /\ secretLog' \in [Secrets -> [app : AppIds \cup {None}, overtaken : 0..2, raced : BOOLEAN]]
       /\ secretLog'[s] = [app |-> a, overtaken |-> 0, raced |-> raced]
       /\ \A x \in Secrets \ {s} :
            /\ secretLog'[x].app = secretLog[x].app
            /\ secretLog'[x].raced = secretLog[x].raced
            /\ secretLog[x].app # a => secretLog'[x] = secretLog[x]
            /\ secretLog[x].app = a => /\ secretLog'[x].overtaken # 0
                                       /\ secretLog'[x].overtaken = 1 => secretLog[x].overtaken = 0
  BY <1>6, <1>9, LogFacts DEF ServiceInv, TypeOK
<1>12. Evolves
  BY <1>1, <1>3, <1>6, <1>7, <1>8, <1>11 DEF Evolves
<1>13. RowsOK'
  BY <1>1, <1>3, <1>6, <1>7, <1>8, <1>11 DEF ServiceInv, TypeOK, RowsOK
<1>14. NoOrphan'
  BY <1>1, <1>3, <1>7, <1>8 DEF ServiceInv, NoOrphan
<1>15. BornInv'
  <2>1. \A b \in AppIds : apps'[b] # None => b \in born
    BY <1>2, <1>8 DEF ServiceInv, BornInv
  <2>2. \A x \in Secrets : secretLog'[x].app # None => secretLog'[x].app \in born
    BY <1>2, <1>11 DEF ServiceInv, BornInv
  <2>3. \A x \in handed : secretLog'[x].app # None
    <3>1. a # None
      BY <1>2, IdKinds, NoneIsApart
    <3> QED
      BY <1>11, <3>1 DEF ServiceInv, BornInv, TypeOK, RowsOK
  <2> QED
    BY <1>1, <2>1, <2>2, <2>3 DEF ServiceInv, BornInv
<1>16. SecretInv'
  <2>1. TypeOK
    BY DEF ServiceInv
  <2>2. \A b \in AppIds : \A q \in Requests : Rotating(q, b)' =>
           q # r /\ Rotating(q, b) /\ req'[q].row = req[q].row
    BY <1>4, <2>1, WroteSlot DEF Rotating
  <2> SUFFICES ASSUME NEW x \in Secrets, NEW b \in AppIds, secretLog'[x].app = b, ~secretLog'[x].raced
               PROVE  /\ secretLog'[x].overtaken = 0 =>
                           /\ apps'[b] # None => Newest(apps'[b].hashes) = x
                           /\ \A q \in Requests : Rotating(q, b)' => Newest(req'[q].row.hashes) = x
                      /\ secretLog'[x].overtaken = 1 /\ apps'[b] # None =>
                           x \in {apps'[b].hashes[i] : i \in DOMAIN apps'[b].hashes}
    BY <1>11 DEF SecretInv, Accepted
  <2>3. CASE x = s
    <3>1. b = a /\ raced = FALSE /\ secretLog'[x].overtaken = 0
      BY <1>9, <1>11, <2>3
    <3>2. apps'[b].hashes = hashes
      BY <1>3, <1>7, <1>8, <3>1
    <3>3. Newest(hashes) = s
      BY <1>6 DEF Newest
    <3> QED
      BY <1>10, <2>2, <2>3, <3>1, <3>2, <3>3
  <2>4. CASE x # s
    <3>1. secretLog[x].app = b /\ ~secretLog[x].raced
      BY <1>11, <2>4
    <3>2. /\ secretLog[x].overtaken = 0 =>
              /\ apps[b] # None => Newest(apps[b].hashes) = x
              /\ \A q \in Requests : Rotating(q, b) => Newest(req[q].row.hashes) = x
          /\ secretLog[x].overtaken = 1 /\ apps[b] # None =>
              x \in {apps[b].hashes[i] : i \in DOMAIN apps[b].hashes}
      BY <3>1, NoneIsApart, IdKinds DEF ServiceInv, SecretInv, Accepted
    <3>3. CASE b # a
      <4>1. apps'[b] = apps[b] /\ secretLog'[x] = secretLog[x]
        BY <1>3, <1>8, <1>11, <2>4, <3>1, <3>3
      <4> QED
        BY <2>2, <3>2, <4>1
    <3>4. CASE b = a
      <4>1. secretLog'[x].overtaken # 0
        BY <1>11, <2>4, <3>1, <3>4
      <4>2. ASSUME secretLog'[x].overtaken = 1
            PROVE  x \in {apps'[b].hashes[i] : i \in DOMAIN apps'[b].hashes}
        <5>1. secretLog[x].overtaken = 0
          BY <1>11, <2>4, <3>1, <3>4, <4>2
        <5>2. Newest(before) = x
          BY <1>5, <3>2, <3>4, <5>1
        <5>3. apps'[b].hashes = hashes
          BY <1>3, <1>7, <1>8, <3>4
        <5> QED
          BY <1>6, <5>2, <5>3
      <4> QED
        BY <4>1, <4>2
    <3> QED
      BY <3>3, <3>4
  <2> QED
    BY <2>3, <2>4
<1>17. req[r].op \notin Deletions /\ req[r].op # "api_token.create" /\ a \in Ids /\ a \in born' /\ secretLog'[s].app # None
  BY <1>1, <1>2, <1>11, IdKinds, NoneIsApart DEF Deletions, RotateOp
<1> QED
  BY <1>1, <1>4, <1>6, <1>12, <1>13, <1>14, <1>15, <1>16, <1>17, WroteStep

LEMMA WritingStep ==
  ASSUME ServiceInv, NEW r \in Requests, Write(r)
  PROVE  ServiceInv'
  BY CreateWorkspaceStep, UpdateWorkspaceStep, DeleteWorkspaceStep, CreateAppStep, UpdateAppStep,
     RotateSecretStep, DeleteAppStep, CreateTokenStep, DeleteTokenStep DEF Write

-----------------------------------------------------------------------------
(* The audit row and the answer.                                           *)

LEMMA AppendAuditStep ==
  ASSUME ServiceInv, NEW r \in Requests, AppendAudit(r)
  PROVE  ServiceInv'
<1>1. /\ req[r].pc = "audit" /\ audit' = audit \cup {Entry(r)} /\ End(r)
      /\ UNCHANGED <<workspaces, apps, tokens, born, secretLog>>
  BY DEF AppendAudit, Recorded, tables
<1>2. /\ req[r] \in Request /\ req[r].op \in Ops /\ req[r].user \in Users
      /\ req[r].target \in Ids \cap born
      /\ req[r].op = "api_token.create" => req[r].target \in TokenIds
      /\ req[r].secret # None => req[r].secret \in Secrets /\ secretLog[req[r].secret].app # None
      /\ req[r].op \in Deletions => RowOf(req[r].target) = None
  BY <1>1, SlotFacts DEF Formed, Grounded, Request
<1>3. /\ handed' \subseteq handed \cup ({req[r].secret} \ {None})
      /\ held' = IF req[r].op = "api_token.create" THEN held \cup {req[r].target} ELSE held
      /\ gone' = IF req[r].op \in Deletions THEN gone \cup {req[r].target} ELSE gone
  BY DEF AppendAudit, Deletions
<1>4. Evolves
  BY <1>1, <1>3 DEF Evolves
<1>5. req' \in [Requests -> Request] /\ Slots'
  BY <1>1, <1>4, IdleFits, SlotStep DEF End, ServiceInv, Slots
<1>6. RowsOK'
  <2>1. Entry(r) \in [actor : Users, action : Ops, target : Ids]
    BY <1>2 DEF Entry
  <2>2. handed' \subseteq Secrets /\ held' \subseteq TokenIds /\ gone' \subseteq Ids
    BY <1>2, <1>3 DEF ServiceInv, TypeOK, RowsOK
  <2> QED
    BY <1>1, <2>1, <2>2 DEF ServiceInv, TypeOK, RowsOK
<1>7. NoOrphan'
  BY <1>1 DEF ServiceInv, NoOrphan
<1>8. BornInv'
  <2>1. gone' \subseteq born /\ held' \subseteq born
    BY <1>2, <1>3 DEF ServiceInv, BornInv
  <2>2. \A s \in handed' : secretLog[s].app # None
    BY <1>2, <1>3 DEF ServiceInv, BornInv
  <2> QED
    BY <1>1, <2>1, <2>2 DEF ServiceInv, BornInv
<1>9. DeletedStaysGone'
  <2>1. ASSUME NEW id \in gone'
        PROVE  /\ id \in WorkspaceIds => workspaces[id] = None
               /\ id \in AppIds => apps[id] = None
               /\ id \in TokenIds => tokens[id] = None
    <3>1. CASE id \in gone
      BY <3>1 DEF ServiceInv, DeletedStaysGone
    <3>2. CASE id \notin gone
      <4>1. req[r].op \in Deletions /\ id = req[r].target
        BY <1>3, <3>2
      <4>2. RowOf(id) = None
        BY <1>2, <4>1
      <4> QED
        BY <4>2, ServiceAssumption DEF RowOf
    <3> QED
      BY <3>1, <3>2
  <2> QED
    BY <1>1, <2>1 DEF DeletedStaysGone
<1>10. SecretInv'
  <2>1. SteadyRows
    BY <1>1 DEF SteadyRows
  <2>2. SteadyRotations
    BY <1>1 DEF SteadyRotations, Rotating, End, Idle, ServiceInv, TypeOK
  <2> QED
    BY <2>1, <2>2, SteadySecrets DEF ServiceInv
<1> QED
  BY <1>5, <1>6, <1>7, <1>8, <1>9, <1>10 DEF ServiceInv, TypeOK, Slots

-----------------------------------------------------------------------------
(* The invariant.                                                          *)

LEMMA InitServes == Init => ServiceInv
<1> SUFFICES ASSUME Init PROVE ServiceInv
  OBVIOUS
<1>1. TypeOK
  <2>1. tokens \in [TokenIds -> ApiToken \cup {None}]
    BY DEF Init, ApiToken
  <2>2. born \subseteq Ids /\ held \subseteq TokenIds
    BY ServiceAssumption, IdKinds DEF Init
  <2>3. req \in [Requests -> Request]
    BY IdleFits DEF Init
  <2>4. secretLog \in [Secrets -> [app : AppIds \cup {None}, overtaken : 0..2, raced : BOOLEAN]]
    BY DEF Init
  <2> QED
    BY <2>1, <2>2, <2>3, <2>4 DEF Init, TypeOK, RowsOK
<1>2. NoOrphan /\ DeletedStaysGone
  BY DEF Init, NoOrphan, DeletedStaysGone
<1>3. BornInv
  BY DEF Init, BornInv
<1>4. SecretInv
  BY DEF Init, SecretInv
<1>5. \A r \in Requests : Formed(req[r]) /\ Grounded(req[r])
  BY IdleFits DEF Init
<1> QED
  BY <1>1, <1>2, <1>3, <1>4, <1>5 DEF ServiceInv

LEMMA NextServes == ServiceInv /\ [Next]_vars => ServiceInv'
<1> SUFFICES ASSUME ServiceInv, [Next]_vars PROVE ServiceInv'
  OBVIOUS
<1>1. ASSUME NEW r \in Requests, Handle(r) PROVE ServiceInv'
  BY <1>1, ReadStep, WritingStep, AppendAuditStep DEF Handle
<1>2. ASSUME NEW r \in Requests, NEW op \in Offered, Send(r, op) PROVE ServiceInv'
  BY <1>2, SendStep
<1>3. CASE UNCHANGED vars
  BY <1>3 DEF vars, ServiceInv, TypeOK, RowsOK, NoOrphan, DeletedStaysGone, BornInv, SecretInv,
              Formed, Grounded, OwnsIfThere, RowOf, Accepted, Rotating
<1> QED
  BY <1>1, <1>2, <1>3 DEF Next

LEMMA AlwaysServes == Spec => []ServiceInv
  BY InitServes, NextServes, PTL DEF Spec

(* The tables, the history and every request keep their types, and an app  *)
(* never accepts more than two secrets (src/apps/service.ts, rotateSecret).*)
THEOREM ServiceTypeCorrect == Spec => []TypeOK
  BY AlwaysServes, PTL DEF ServiceInv

(* No app outlives its workspace, whatever runs between the ownership      *)
(* check and the insert of createApp.                                      *)
THEOREM NoOrphans == Spec => []NoOrphan
  BY AlwaysServes, PTL DEF ServiceInv

(* No update under way revives a row whose deletion was answered.          *)
THEOREM DeletedStayGone == Spec => []DeletedStaysGone
  BY AlwaysServes, PTL DEF ServiceInv

(* adminAuth refuses a token from the answer to its deletion on.           *)
THEOREM DeletedTokensRefused == Spec => []DeletedTokenRefused
<1>1. ServiceInv => DeletedTokenRefused
  BY DEF ServiceInv, DeletedTokenRefused, Grounded
<1> QED
  BY <1>1, AlwaysServes, PTL

(* A secret handed out by rotateSecret or createApp with no overlapping    *)
(* rotation is accepted until it was overtaken twice.                      *)
THEOREM SettledSecretsWork == Spec => []SettledSecretWorks
<1>1. ASSUME ServiceInv PROVE SettledSecretWorks
  <2> SUFFICES ASSUME NEW s \in handed, apps[secretLog[s].app] # None,
                      secretLog[s].overtaken < 2, ~secretLog[s].raced
               PROVE  s \in Accepted(secretLog[s].app)
    BY DEF SettledSecretWorks
  <2>1. s \in Secrets /\ secretLog[s].app # None
    BY <1>1 DEF ServiceInv, TypeOK, RowsOK, BornInv
  <2>2. secretLog[s].app \in AppIds /\ secretLog[s].overtaken \in {0, 1}
    BY <1>1, <2>1 DEF ServiceInv, TypeOK, RowsOK
  <2> DEFINE a == secretLog[s].app
  <2>3. CASE secretLog[s].overtaken = 0
    <3>1. Newest(apps[a].hashes) = s
      BY <1>1, <2>1, <2>3 DEF ServiceInv, SecretInv
    <3>2. apps[a] \in App /\ Len(apps[a].hashes) \in 1..2
      BY <1>1, <2>2 DEF ServiceInv, TypeOK, RowsOK
    <3>3. Len(apps[a].hashes) \in DOMAIN apps[a].hashes
      BY <3>2, NewestIsMember DEF App
    <3> QED
      BY <3>1, <3>3 DEF Accepted, Newest
  <2>4. CASE secretLog[s].overtaken = 1
    BY <1>1, <2>1, <2>4 DEF ServiceInv, SecretInv
  <2> QED
    BY <2>2, <2>3, <2>4
<1> QED
  BY <1>1, AlwaysServes, PTL

-----------------------------------------------------------------------------
(* Who writes.                                                             *)

(* A write changes only rows of the user who makes it.                     *)
OwnWrites(u) ==
  /\ \A w \in WorkspaceIds : workspaces'[w] # workspaces[w] =>
       \A row \in {workspaces[w], workspaces'[w]} \ {None} : row.owner = u
  /\ \A a \in AppIds : apps'[a] # apps[a] =>
       \A row \in {apps[a], apps'[a]} \ {None} : OwnerOf(row) = u
  /\ \A t \in TokenIds : tokens'[t] # tokens[t] =>
       \A row \in {tokens[t], tokens'[t]} \ {None} : row.user = u

(* What ownership a write can rely on: the check was earlier, yet it holds *)
(* of the rows that are there now.                                         *)
LEMMA OwnedAtWrite ==
  ASSUME ServiceInv, NEW r \in Requests, req[r].pc = "write"
  PROVE  /\ req[r].op \in WorkspaceOps => OwnsIfThere(req[r].target, req[r].user)
         /\ req[r].op \in AppOps /\ apps[req[r].target] # None =>
              OwnerOf(apps[req[r].target]) = req[r].user
         /\ req[r].op = "api_token.delete" /\ tokens[req[r].target] # None =>
              tokens[req[r].target].user = req[r].user
<1>1. Grounded(req[r]) /\ NoOrphan
  BY SlotFacts DEF ServiceInv
<1>2. req[r].op \in AppOps => req[r].target \in AppIds
  BY AtWrite
<1> QED
  BY <1>1, <1>2 DEF Grounded, OwnsIfThere, OwnerOf, NoOrphan

LEMMA WorkspaceWrites ==
  ASSUME ServiceInv, NEW r \in Requests,
         CreateWorkspace(r) \/ UpdateWorkspace(r) \/ DeleteWorkspace(r)
  PROVE  OwnWrites(req[r].user)
<1>1. /\ req[r].pc = "write" /\ tokens' = tokens
      /\ workspaces \in [WorkspaceIds -> Workspace \cup {None}]
  BY DEF CreateWorkspace, UpdateWorkspace, DeleteWorkspace, At, ServiceInv, TypeOK, RowsOK
<1>2. CASE CreateWorkspace(r)
  BY <1>1, <1>2 DEF CreateWorkspace, OwnWrites, ServiceInv, BornInv
<1>3. CASE UpdateWorkspace(r)
  <2>1. /\ OwnsIfThere(req[r].target, req[r].user) /\ req[r].target \in WorkspaceIds
        /\ workspaces[req[r].target] # None
    BY <1>1, <1>3, OwnedAtWrite, AtWrite DEF UpdateWorkspace, At, WorkspaceOps
  <2>2. workspaces[req[r].target] \in Workspace /\ workspaces[req[r].target].owner = req[r].user
    BY <1>1, <2>1 DEF OwnsIfThere
  <2>3. \A w \in WorkspaceIds : workspaces'[w] # workspaces[w] =>
          w = req[r].target /\ workspaces'[w] = [workspaces[w] EXCEPT !.name = req[r].arg]
    BY <1>1, <1>3, <2>1 DEF UpdateWorkspace
  <2> QED
    BY <1>1, <1>3, <2>2, <2>3 DEF UpdateWorkspace, OwnWrites, Workspace
<1>4. CASE DeleteWorkspace(r)
  <2>1. OwnsIfThere(req[r].target, req[r].user) /\ req[r].target \in WorkspaceIds
    BY <1>1, <1>4, OwnedAtWrite, AtWrite DEF DeleteWorkspace, At, WorkspaceOps
  <2>2. \A w \in WorkspaceIds : workspaces'[w] # workspaces[w] =>
          w = req[r].target /\ workspaces'[w] = None
    BY <1>1, <1>4, <2>1 DEF DeleteWorkspace
  <2>3. \A a \in AppIds : apps'[a] # apps[a] =>
          apps'[a] = None /\ apps[a] # None /\ apps[a].workspace = req[r].target
    BY <1>4 DEF DeleteWorkspace
  <2>4. \A a \in AppIds : apps[a] # None => workspaces[apps[a].workspace] # None
    BY DEF ServiceInv, NoOrphan
  <2> QED
    BY <1>1, <2>1, <2>2, <2>3, <2>4 DEF OwnWrites, OwnsIfThere, OwnerOf
<1> QED
  BY <1>2, <1>3, <1>4

LEMMA AppWrites ==
  ASSUME ServiceInv, NEW r \in Requests,
         \/ CreateApp(r) \/ UpdateApp(r) \/ ToggleRawTokens(r)
         \/ RotateSecret(r) \/ DeleteApp(r)
  PROVE  OwnWrites(req[r].user)
<1>1. /\ req[r].pc = "write" /\ tokens' = tokens /\ workspaces' = workspaces
      /\ apps \in [AppIds -> App \cup {None}]
  BY DEF CreateApp, UpdateApp, ToggleRawTokens, RotateSecret, DeleteApp, At, ServiceInv, TypeOK, RowsOK
<1>2. CASE CreateApp(r)
  <2>1. /\ req[r].target \in WorkspaceIds /\ workspaces[req[r].target] # None
        /\ workspaces[req[r].target].owner = req[r].user
    BY <1>1, <1>2, OwnedAtWrite, AtWrite DEF CreateApp, At, WorkspaceOps, Insertable, OwnsIfThere
  <2>2. PICK a \in AppIds \ born, s \in Unused, d \in Details :
          apps' = [apps EXCEPT ![a] = [workspace |-> req[r].target, toss |-> req[r].arg,
                                       details |-> d, raw |-> FALSE, hashes |-> <<s>>]]
    BY <1>2 DEF CreateApp
  <2>3. apps[a] = None
    BY <2>2 DEF ServiceInv, BornInv
  <2> QED
    BY <1>1, <2>1, <2>2, <2>3 DEF OwnWrites, OwnerOf
<1>3. ASSUME ~CreateApp(r) PROVE OwnWrites(req[r].user)
  <2>1. req[r].target \in AppIds /\ req[r].op \in AppOps
    BY <1>1, <1>3, AtWrite
       DEF UpdateApp, ToggleRawTokens, RotateSecret, DeleteApp, At, AppOps, RotateOp
  <2>2. apps[req[r].target] # None => OwnerOf(apps[req[r].target]) = req[r].user
    BY <1>1, <2>1, OwnedAtWrite
  <2>3. PICK row : /\ apps' = [apps EXCEPT ![req[r].target] = row]
                   /\ row = None \/ (/\ apps[req[r].target] # None
                                     /\ row.workspace = apps[req[r].target].workspace)
    <3>1. CASE DeleteApp(r)
      BY <3>1 DEF DeleteApp
    <3>2. CASE UpdateApp(r)
      <4>1. apps[req[r].target] \in App
        BY <1>1, <2>1, <3>2 DEF UpdateApp, StoredRow
      <4> DEFINE row == [apps[req[r].target] EXCEPT !.details = req[r].arg]
      <4>2. row.workspace = apps[req[r].target].workspace
        BY <4>1 DEF App
      <4>3. apps' = [apps EXCEPT ![req[r].target] = row] /\ apps[req[r].target] # None
        BY <3>2 DEF UpdateApp, StoredRow
      <4> HIDE DEF row
      <4> QED
        BY <4>2, <4>3
    <3>3. CASE ToggleRawTokens(r)
      <4>1. apps[req[r].target] \in App
        BY <1>1, <2>1, <3>3 DEF ToggleRawTokens, StoredRow
      <4> DEFINE row == [apps[req[r].target] EXCEPT !.raw = req[r].arg]
      <4>2. row.workspace = apps[req[r].target].workspace
        BY <4>1 DEF App
      <4>3. apps' = [apps EXCEPT ![req[r].target] = row] /\ apps[req[r].target] # None
        BY <3>3 DEF ToggleRawTokens, StoredRow
      <4> HIDE DEF row
      <4> QED
        BY <4>2, <4>3
    <3>4. CASE RotateSecret(r)
      <4>1. apps[req[r].target] \in App
        BY <1>1, <2>1, <3>4 DEF RotateSecret, StoredRow
      <4> QED
        BY <3>4, <4>1 DEF RotateSecret, StoredRow, App
    <3> QED
      BY <1>3, <3>1, <3>2, <3>3, <3>4
  <2>4. \A a \in AppIds : apps'[a] # apps[a] => a = req[r].target /\ apps'[a] = row
    BY <1>1, <2>1, <2>3
  <2> QED
    BY <1>1, <2>2, <2>3, <2>4 DEF OwnWrites, OwnerOf
<1> QED
  BY <1>2, <1>3

LEMMA TokenWrites ==
  ASSUME ServiceInv, NEW r \in Requests, CreateToken(r) \/ DeleteToken(r)
  PROVE  OwnWrites(req[r].user)
<1>1. /\ req[r].pc = "write" /\ apps' = apps /\ workspaces' = workspaces
      /\ tokens \in [TokenIds -> ApiToken \cup {None}]
  BY DEF CreateToken, DeleteToken, At, ServiceInv, TypeOK, RowsOK
<1>2. CASE CreateToken(r)
  BY <1>1, <1>2 DEF CreateToken, OwnWrites, ServiceInv, BornInv
<1>3. CASE DeleteToken(r)
  <2>1. /\ req[r].target \in TokenIds
        /\ tokens[req[r].target] # None => tokens[req[r].target].user = req[r].user
    BY <1>1, <1>3, OwnedAtWrite, AtWrite DEF DeleteToken, At
  <2> QED
    BY <1>1, <1>3, <2>1 DEF DeleteToken, WithoutToken, OwnWrites
<1> QED
  BY <1>2, <1>3

(* Only an owner's request creates, changes or deletes a row of the admin  *)
(* tables, although service.ts checks ownership on an earlier read.        *)
THEOREM OwnersAlwaysWrite == Spec => OnlyOwnersWrite
<1>1. ASSUME ServiceInv, [Next]_vars PROVE [OwnersWrite]_vars
  <2>1. ASSUME NEW r \in Requests, Write(r) PROVE OwnersWrite
    <3>1. OwnWrites(req[r].user)
      BY <1>1, <2>1, WorkspaceWrites, AppWrites, TokenWrites DEF Write
    <3>2. req[r].pc = "write" /\ \E id, secret : Wrote(r, id, secret)
      BY <2>1 DEF Write, At, CreateWorkspace, UpdateWorkspace, DeleteWorkspace, CreateApp, UpdateApp,
                  ToggleRawTokens, RotateSecret, DeleteApp, CreateToken, DeleteToken
    <3>3. req'[r] # req[r]
      BY <1>1, <3>2, WroteSlot DEF ServiceInv
    <3>4. WrittenBy(req[r].user)
      BY <3>2, <3>3 DEF WrittenBy
    <3> QED
      BY <3>1, <3>4 DEF OwnWrites, OwnersWrite
  <2>2. CASE UNCHANGED <<workspaces, apps, tokens>>
    BY <2>2 DEF OwnersWrite
  <2>3. CASE UNCHANGED vars
    BY <2>3
  <2> QED
    BY <1>1, <2>1, <2>2, <2>3 DEF Next, Handle, Send, CheckToken, ReadApp, ReadWorkspace, ReadTokens,
                                  AppendAudit, Fail, tables
<1> QED
  BY <1>1, AlwaysServes, PTL DEF Spec, OnlyOwnersWrite

-----------------------------------------------------------------------------
(* What was confirmed is audited.                                          *)

OnRecord(table, id, actions) == \E e \in table : e.target = id /\ e.action \in actions

(* A creation that has its app and not its audit row.                      *)
Founding(r) == req[r].pc = "audit" /\ req[r].op = "app.create"

(* The secret to answer with is of the app in the answer.                  *)
PendingOK == \A r \in Requests : req[r].secret # None =>
  /\ req[r].pc = "audit" /\ req[r].op \in {"app.create", RotateOp}
  /\ secretLog[req[r].secret].app = req[r].target

OneFounding == \A r, p \in Requests :
  Founding(r) /\ Founding(p) /\ req[r].target = req[p].target => r = p

(* Only a rotation hands out a secret of an app before its creation does.  *)
FoundingFirst == \A r \in Requests, s \in handed :
  Founding(r) /\ secretLog[s].app = req[r].target => OnRecord(audit, req[r].target, {RotateOp})

HandedAudited ==
  /\ \A s \in handed : OnRecord(audit, secretLog[s].app, {"app.create", RotateOp})
  /\ \A s, t \in handed :
       s # t /\ secretLog[s].app = secretLog[t].app => OnRecord(audit, secretLog[s].app, {RotateOp})

GoneAudited == \A id \in gone : OnRecord(audit, id, Deletions)

AuditInv == PendingOK /\ OneFounding /\ FoundingFirst /\ HandedAudited /\ GoneAudited

(* A step of one request before its audit row: an app it made is new.      *)
LEMMA QuietStep ==
  ASSUME ServiceInv, AuditInv, UNCHANGED <<audit, handed, gone>>,
         \A s \in Secrets : secretLog[s].app # None => secretLog'[s].app = secretLog[s].app,
         NEW r \in Requests, NEW q \in Request, req' = [req EXCEPT ![r] = q],
         q.secret # None => /\ q.pc = "audit" /\ q.op \in {"app.create", RotateOp}
                            /\ secretLog'[q.secret].app = q.target,
         q.pc = "audit" /\ q.op = "app.create" => q.target \notin born
  PROVE  AuditInv'
<1>1. \A x \in Requests : req'[x] = IF x = r THEN q ELSE req[x]
  BY DEF ServiceInv, TypeOK
<1>2. \A s \in handed : secretLog'[s].app = secretLog[s].app /\ secretLog[s].app \in born
  BY DEF ServiceInv, BornInv, TypeOK, RowsOK
<1>3. \A x \in Requests : Founding(x) => req[x].target \in born
  BY DEF ServiceInv, Formed, Founding
<1>4. \A x \in Requests \ {r} : Founding(x)' <=> Founding(x)
  BY <1>1 DEF Founding
<1>5. Founding(r)' => q.target \notin born
  BY <1>1 DEF Founding
<1>6. PendingOK'
  <2> SUFFICES ASSUME NEW x \in Requests, req'[x].secret # None
               PROVE  /\ req'[x].pc = "audit" /\ req'[x].op \in {"app.create", RotateOp}
                      /\ secretLog'[req'[x].secret].app = req'[x].target
    BY DEF PendingOK
  <2>1. CASE x = r
    BY <1>1, <2>1
  <2>2. CASE x # r
    <3>1. req'[x] = req[x]
      BY <1>1, <2>2
    <3>2. req[x].secret \in Secrets /\ secretLog[req[x].secret].app # None
      BY <3>1, SlotFacts DEF AuditInv, PendingOK, Formed, Request
    <3> QED
      BY <3>1, <3>2 DEF AuditInv, PendingOK
  <2> QED
    BY <2>1, <2>2
<1>7. OneFounding'
  <2> SUFFICES ASSUME NEW x \in Requests, NEW p \in Requests, Founding(x)', Founding(p)',
                      req'[x].target = req'[p].target
               PROVE  x = p
    BY DEF OneFounding
  <2>1. CASE x # r /\ p # r
    BY <1>1, <1>4, <2>1 DEF AuditInv, OneFounding
  <2>2. CASE x = r /\ p # r
    BY <1>1, <1>3, <1>4, <1>5, <2>2
  <2>3. CASE x # r /\ p = r
    BY <1>1, <1>3, <1>4, <1>5, <2>3
  <2> QED
    BY <2>1, <2>2, <2>3
<1>8. FoundingFirst'
  <2> SUFFICES ASSUME NEW x \in Requests, NEW s \in handed, Founding(x)',
                      secretLog'[s].app = req'[x].target
               PROVE  OnRecord(audit, req'[x].target, {RotateOp})
    BY DEF FoundingFirst, OnRecord
  <2>1. x # r
    BY <1>1, <1>2, <1>5
  <2> QED
    BY <1>1, <1>2, <1>4, <2>1 DEF AuditInv, FoundingFirst
<1>9. HandedAudited'
  BY <1>2 DEF AuditInv, HandedAudited, OnRecord
<1>10. GoneAudited'
  BY DEF AuditInv, GoneAudited, OnRecord
<1> QED
  BY <1>6, <1>7, <1>8, <1>9, <1>10 DEF AuditInv

(* Steps before the write change no more than where the request is.        *)
LEMMA QuietReads ==
  ASSUME ServiceInv, AuditInv, NEW r \in Requests,
         \/ CheckToken(r) \/ ReadApp(r) \/ ReadWorkspace(r) \/ ReadTokens(r) \/ Fail(r)
         \/ \E op \in Offered : Send(r, op)
  PROVE  AuditInv'
<1>1. UNCHANGED <<audit, handed, gone, secretLog>> /\ req' \in [Requests -> Request]
  <2>1. ServiceInv'
    <3>1. CASE \E op \in Offered : Send(r, op)
      BY <3>1, SendStep
    <3> QED
      BY <3>1, ReadStep
  <2>2. req' \in [Requests -> Request]
    BY <2>1 DEF ServiceInv, TypeOK
  <2>3. UNCHANGED <<audit, history>>
    BY Zenon DEF CheckToken, ReadApp, ReadWorkspace, ReadTokens, Fail, Send
  <2> QED
    BY <2>2, <2>3 DEF history
<1>2. /\ \A x \in Requests \ {r} : req'[x] = req[x]
      /\ req'[r].secret = None /\ req'[r].pc # "audit"
  <2>1. CASE End(r)
    BY <2>1 DEF End, Idle, ServiceInv, TypeOK
  <2>2. CASE \E op \in Offered : Send(r, op)
    BY <2>2 DEF Send, Idle, ServiceInv, TypeOK
  <2>3. CASE /\ CheckToken(r) \/ ReadApp(r) \/ ReadWorkspace(r) \/ ReadTokens(r)
             /\ ~End(r)
    <3>1. req[r].pc # "audit" /\ req[r].secret = None /\ req[r] \in Request
      BY <2>3, SlotFacts DEF CheckToken, ReadApp, ReadWorkspace, ReadTokens, AuditInv, PendingOK
    <3>2. FirstStep(req[r].op) # "audit"
      BY DEF FirstStep
    <3> QED
      BY <2>3, <3>1, <3>2 DEF CheckToken, ReadApp, ReadWorkspace, ReadTokens, Goto,
                              Request, ServiceInv, TypeOK
  <2> QED
    BY <2>1, <2>2, <2>3 DEF Fail
<1>3. req' = [req EXCEPT ![r] = req'[r]] /\ req'[r] \in Request
  BY <1>1, <1>2 DEF ServiceInv, TypeOK
<1> QED
  BY <1>1, <1>2, <1>3, QuietStep

(* Logging a secret changes the app of no secret logged before.            *)
LEMMA LogApps ==
  ASSUME RowsOK, NEW s \in Secrets, secretLog[s].app = None, NEW a \in AppIds, NEW raced \in BOOLEAN
  PROVE  /\ Log(s, a, raced)[s].app = a
         /\ \A x \in Secrets : secretLog[x].app # None => Log(s, a, raced)[x].app = secretLog[x].app
<1>1. Log(s, a, raced)[s] = [app |-> a, overtaken |-> 0, raced |-> raced]
  BY LogFacts
<1>2. Log(s, a, raced)[s].app = a
  BY <1>1
<1>3. ASSUME NEW x \in Secrets, secretLog[x].app # None
      PROVE  Log(s, a, raced)[x].app = secretLog[x].app
  <2>1. x \in Secrets \ {s}
    BY <1>3
  <2>2. secretLog \in [Secrets -> [app : AppIds \cup {None}, overtaken : 0..2, raced : BOOLEAN]]
    BY DEF RowsOK
  <2> QED
    BY <2>1, <2>2 DEF Log
<1> QED
  BY <1>2, <1>3

(* A write gives out a secret only of an app that it made or rotated.      *)
LEMMA QuietWrites ==
  ASSUME ServiceInv, AuditInv, NEW r \in Requests, Write(r)
  PROVE  AuditInv'
<1>1. /\ req' \in [Requests -> Request] /\ UNCHANGED <<audit, handed, gone>>
      /\ req[r].pc = "write" /\ req[r] \in Request
  <2>1. ServiceInv'
    BY WritingStep
  <2> QED
    BY <2>1, SlotFacts DEF Write, CreateWorkspace, UpdateWorkspace, DeleteWorkspace, CreateApp,
       UpdateApp, ToggleRawTokens, RotateSecret, DeleteApp, CreateToken, DeleteToken, At, history,
       ServiceInv, TypeOK
<1>2. ASSUME NEW id, NEW secret, Wrote(r, id, secret),
             \A s \in Secrets : secretLog[s].app # None => secretLog'[s].app = secretLog[s].app,
             secret # None => /\ req[r].op \in {"app.create", RotateOp}
                              /\ secretLog'[secret].app = id,
             req[r].op = "app.create" => id \notin born
      PROVE  AuditInv'
  <2>1. /\ \A x \in Requests \ {r} : req'[x] = req[x]
        /\ req'[r].secret # None => /\ req'[r].pc = "audit"
                                    /\ req'[r].op \in {"app.create", RotateOp}
                                    /\ secretLog'[req'[r].secret].app = req'[r].target
        /\ req'[r].pc = "audit" /\ req'[r].op = "app.create" => req'[r].target \notin born
    <3>1. CASE End(r)
      BY <3>1 DEF End, Idle, ServiceInv, TypeOK
    <3>2. CASE req' = [req EXCEPT ![r].pc = "audit", ![r].target = id, ![r].secret = secret]
      BY <1>1, <1>2, <3>2 DEF Request, ServiceInv, TypeOK
    <3> QED
      BY <1>2, <3>1, <3>2 DEF Wrote
  <2>2. req' = [req EXCEPT ![r] = req'[r]] /\ req'[r] \in Request
    BY <1>1, <2>1 DEF ServiceInv, TypeOK
  <2> QED
    BY <1>1, <1>2, <2>1, <2>2, QuietStep
<1>3. CASE CreateApp(r)
  <2>1. PICK a \in AppIds \ born, s \in Unused : secretLog' = Log(s, a, FALSE) /\ Wrote(r, a, s)
    BY <1>3 DEF CreateApp
  <2>2. s \in Secrets /\ secretLog[s].app = None /\ RowsOK /\ req[r].op = "app.create"
    BY <1>3 DEF Unused, ServiceInv, TypeOK, CreateApp, At
  <2>5. /\ Log(s, a, FALSE)[s].app = a
        /\ \A x \in Secrets : secretLog[x].app # None => Log(s, a, FALSE)[x].app = secretLog[x].app
    <3> DEFINE raced == FALSE
    <3>1. raced \in BOOLEAN
      OBVIOUS
    <3> HIDE DEF raced
    <3>2. /\ Log(s, a, raced)[s].app = a
          /\ \A x \in Secrets : secretLog[x].app # None => Log(s, a, raced)[x].app = secretLog[x].app
      BY <2>2, <3>1, LogApps
    <3> QED
      BY <3>2 DEF raced
  <2>3. /\ secretLog'[s].app = a
        /\ \A x \in Secrets : secretLog[x].app # None => secretLog'[x].app = secretLog[x].app
    BY <2>1, <2>5
  <2>4. /\ Wrote(r, a, s)
        /\ s # None => req[r].op \in {"app.create", RotateOp} /\ secretLog'[s].app = a
        /\ req[r].op = "app.create" => a \notin born
    BY <2>1, <2>2, <2>3
  <2> QED
    BY <1>2, <2>3, <2>4, Zenon
<1>4. CASE RotateSecret(r)
  <2> DEFINE a == req[r].target
  <2>1. PICK s \in Unused, raced \in BOOLEAN : secretLog' = Log(s, a, raced) /\ Wrote(r, a, s)
    BY <1>4 DEF RotateSecret
  <2>2. /\ s \in Secrets /\ secretLog[s].app = None /\ RowsOK
        /\ req[r].op = RotateOp /\ RotateOp # "app.create" /\ a \in AppIds
    BY <1>1, <1>4, AtWrite DEF Unused, ServiceInv, TypeOK, RotateSecret, At, AppOps, RotateOp
  <2>5. /\ Log(s, a, raced)[s].app = a
        /\ \A x \in Secrets : secretLog[x].app # None => Log(s, a, raced)[x].app = secretLog[x].app
    <3>1. a \in AppIds
      BY <2>2
    <3>2. /\ Log(s, a, raced)[s].app = a
          /\ \A x \in Secrets : secretLog[x].app # None => Log(s, a, raced)[x].app = secretLog[x].app
      BY <2>2, <3>1, LogApps
    <3> QED
      BY <3>2
  <2>3. /\ secretLog'[s].app = a
        /\ \A x \in Secrets : secretLog[x].app # None => secretLog'[x].app = secretLog[x].app
    BY <2>1, <2>5
  <2>4. /\ Wrote(r, a, s)
        /\ s # None => req[r].op \in {"app.create", RotateOp} /\ secretLog'[s].app = a
        /\ req[r].op = "app.create" => a \notin born
    BY <2>1, <2>2, <2>3
  <2> QED
    BY <1>2, <2>3, <2>4, Zenon
<1>5. CASE \E id : Wrote(r, id, None) /\ secretLog' = secretLog /\ req[r].op # "app.create"
  BY <1>2, <1>5
<1> QED
  BY <1>3, <1>4, <1>5 DEF Write, CreateWorkspace, UpdateWorkspace, DeleteWorkspace,
     UpdateApp, ToggleRawTokens, DeleteApp, CreateToken, DeleteToken, At, history

(* The audit row comes before the answer.                                  *)
LEMMA AuditedStep ==
  ASSUME ServiceInv, AuditInv, NEW r \in Requests, AppendAudit(r)
  PROVE  AuditInv'
<1> DEFINE id == req[r].target
           s0 == req[r].secret
<1>1. /\ req[r].pc = "audit" /\ audit' = audit \cup {Entry(r)} /\ secretLog' = secretLog
      /\ handed' = IF s0 # None THEN handed \cup {s0} ELSE handed
      /\ gone' = IF req[r].op \in Deletions THEN gone \cup {id} ELSE gone
      /\ \A x \in Requests : req'[x] = IF x = r THEN Idle ELSE req[x]
  BY DEF AppendAudit, Recorded, End, Deletions, ServiceInv, TypeOK
<1>2. Entry(r).target = id /\ Entry(r).action = req[r].op
  BY DEF Entry
<1>3. \A i, actions : OnRecord(audit, i, actions) => OnRecord(audit', i, actions)
  BY <1>1 DEF OnRecord
<1>4. \A actions : req[r].op \in actions => OnRecord(audit', id, actions)
  BY <1>1, <1>2 DEF OnRecord
<1>5. s0 # None => req[r].op \in {"app.create", RotateOp} /\ secretLog[s0].app = id
  BY DEF AuditInv, PendingOK
<1>6. Idle.secret = None /\ Idle.pc = "idle"
  BY DEF Idle
<1>7. \A x \in Requests : Founding(x)' => x # r /\ Founding(x)
  BY <1>1, <1>6 DEF Founding
<1>8. PendingOK'
  BY <1>1, <1>6 DEF AuditInv, PendingOK
<1>9. OneFounding'
  BY <1>1, <1>7 DEF AuditInv, OneFounding
<1>10. FoundingFirst'
  <2> SUFFICES ASSUME NEW x \in Requests, NEW s \in handed', Founding(x)',
                      secretLog[s].app = req[x].target
               PROVE  OnRecord(audit', req[x].target, {RotateOp})
    BY <1>1, <1>7 DEF FoundingFirst, OnRecord
  <2>1. CASE s \in handed
    BY <1>3, <1>7, <2>1 DEF AuditInv, FoundingFirst
  <2>2. CASE s \notin handed
    <3>1. s = s0 /\ s0 # None /\ req[x].target = id
      BY <1>1, <1>5, <2>2
    <3>2. ~Founding(r)
      BY <1>7, <3>1 DEF AuditInv, OneFounding
    <3> QED
      BY <1>1, <1>4, <1>5, <3>1, <3>2 DEF Founding
  <2> QED
    BY <2>1, <2>2
<1>11. HandedAudited'
  <2>1. ASSUME NEW s \in handed' PROVE OnRecord(audit', secretLog[s].app, {"app.create", RotateOp})
    BY <1>1, <1>3, <1>4, <1>5 DEF AuditInv, HandedAudited
  <2>2. ASSUME NEW s \in handed, s0 # None, secretLog[s].app = id
        PROVE  OnRecord(audit', id, {RotateOp})
    <3>1. CASE req[r].op = RotateOp
      BY <1>4, <3>1
    <3>2. CASE req[r].op = "app.create"
      <4>1. Founding(r)
        BY <1>1, <3>2 DEF Founding
      <4> QED
        BY <1>3, <2>2, <4>1 DEF AuditInv, FoundingFirst
    <3> QED
      BY <1>5, <2>2, <3>1, <3>2
  <2>3. ASSUME NEW s \in handed', NEW t \in handed', s # t, secretLog[s].app = secretLog[t].app
        PROVE  OnRecord(audit', secretLog[s].app, {RotateOp})
    <3>1. CASE s \in handed /\ t \in handed
      BY <1>3, <2>3, <3>1 DEF AuditInv, HandedAudited
    <3>2. CASE s \notin handed \/ t \notin handed
      BY <1>1, <1>5, <2>2, <2>3, <3>2
    <3> QED
      BY <3>1, <3>2
  <2> QED
    BY <1>1, <2>1, <2>3 DEF HandedAudited, OnRecord
<1>12. GoneAudited'
  BY <1>1, <1>3, <1>4 DEF AuditInv, GoneAudited
<1> QED
  BY <1>8, <1>9, <1>10, <1>11, <1>12 DEF AuditInv

(* Every step keeps the invariant.                                       *)
LEMMA NextAudits == ServiceInv /\ AuditInv /\ [Next]_vars => AuditInv'
<1> SUFFICES ASSUME ServiceInv, AuditInv, [Next]_vars PROVE AuditInv'
  OBVIOUS
<1>1. ASSUME NEW r \in Requests, Handle(r) \/ \E op \in Offered : Send(r, op) PROVE AuditInv'
  BY <1>1, QuietReads, QuietWrites, AuditedStep DEF Handle
<1>2. CASE UNCHANGED vars
  BY <1>2 DEF vars, AuditInv, PendingOK, OneFounding, FoundingFirst, HandedAudited, GoneAudited,
              Founding, OnRecord
<1> QED
  BY <1>1, <1>2 DEF Next

(* It holds in every reachable state.                                    *)
LEMMA AlwaysAudits == Spec => []AuditInv
<1>1. Init => AuditInv
  BY DEF Init, AuditInv, PendingOK, OneFounding, FoundingFirst, HandedAudited, GoneAudited,
         Founding, Idle
<1> QED
  BY <1>1, NextAudits, AlwaysServes, PTL DEF Spec

(* A client holds no secret and saw no deletion without its audit row      *)
(* (every handler of src/apps/service.ts appends before it answers).       *)
THEOREM ConfirmedAreAudited == Spec => []ConfirmedIsAudited
<1>1. ASSUME ServiceInv, AuditInv PROVE ConfirmedIsAudited
  <2>1. ASSUME NEW a \in AppIds, HandedOf(a) # {} PROVE Audited(a, {"app.create", RotateOp})
    BY <1>1, <2>1 DEF HandedOf, Audited, OnRecord, AuditInv, HandedAudited
  <2>2. ASSUME NEW a \in AppIds, Cardinality(HandedOf(a)) > 1 PROVE Audited(a, {RotateOp})
    <3>1. CASE \E s, t \in HandedOf(a) : s # t
      BY <1>1, <3>1 DEF HandedOf, Audited, OnRecord, AuditInv, HandedAudited
    <3>2. CASE \E s : HandedOf(a) = {s}
      BY <2>2, <3>2, FS_Singleton
    <3>3. CASE HandedOf(a) = {}
      BY <2>2, <3>3, FS_EmptySet
    <3> QED
      BY <3>1, <3>2, <3>3
  <2>3. \A id \in gone : Audited(id, {"workspace.delete", "app.delete", "api_token.delete"})
    BY <1>1 DEF Audited, OnRecord, AuditInv, GoneAudited, Deletions
  <2> QED
    BY <2>1, <2>2, <2>3 DEF ConfirmedIsAudited
<1> QED
  BY <1>1, AlwaysServes, AlwaysAudits, PTL

-----------------------------------------------------------------------------
(* AdminService implements Registry.  How its tables look from there.      *)

SeenByRegistry == Promise!Next \/ UNCHANGED Promise!rvars

(* Each table shows its own ids.                                           *)
ByKind ==
  /\ \A w \in WorkspaceIds :
       Row(w) = IF workspaces[w] = None THEN None ELSE WorkspaceRow(workspaces[w])
  /\ \A a \in AppIds : Row(a) = IF apps[a] = None THEN None ELSE AppRow(apps[a])
  /\ \A t \in TokenIds : Row(t) = IF tokens[t] = None THEN None ELSE TokenRow(tokens[t])

LEMMA RowsByKind == ByKind /\ ByKind'
<1>1. ByKind
  BY ServiceAssumption, Zenon DEF ByKind, Row, RowOf
<1> QED
  BY <1>1, PTL

(* What the registry sees of a row, and that it sees one where there is one. *)
LEMMA WorkspaceShape ==
  ASSUME NEW row \in Workspace
  PROVE  /\ WorkspaceRow(row) \in Rows /\ WorkspaceRow(row) # None
         /\ WorkspaceRow(row).owner = row.owner /\ WorkspaceRow(row).within = None
         /\ WorkspaceRow(row).secrets = <<>>
         /\ WorkspaceRow(row).fields = [f \in Fields |-> IF f = "name" THEN row.name ELSE None]
<1>1. row.owner \in Users /\ row.name \in Args
  BY DEF Workspace, Args
<1>2. [f \in Fields |-> IF f = "name" THEN row.name ELSE None] \in [Fields -> Args]
  BY <1>1 DEF Args
<1>3. <<>> \in Seq(Secrets)
  OBVIOUS
<1> DEFINE fields == [f \in Fields |-> IF f = "name" THEN row.name ELSE None]
<1> HIDE DEF fields
<1>4. WorkspaceRow(row) = [owner |-> row.owner, within |-> None, secrets |-> <<>>, fields |-> fields]
  BY Zenon DEF WorkspaceRow, fields
<1>5. WorkspaceRow(row) \in Rows
  BY <1>1, <1>2, <1>3, <1>4 DEF Rows, fields
<1> QED
  BY <1>4, <1>5, ApartAssumption DEF fields

LEMMA TokenShape ==
  ASSUME NEW row \in ApiToken
  PROVE  /\ TokenRow(row) \in Rows /\ TokenRow(row) # None
         /\ TokenRow(row).owner = row.user /\ TokenRow(row).within = None
         /\ TokenRow(row).secrets = <<>>
         /\ TokenRow(row).fields = [f \in Fields |-> IF f = "admin" THEN row.admin ELSE None]
<1>1. row.user \in Users /\ row.admin \in Args
  BY DEF ApiToken, Args
<1>2. [f \in Fields |-> IF f = "admin" THEN row.admin ELSE None] \in [Fields -> Args]
  BY <1>1 DEF Args
<1>3. <<>> \in Seq(Secrets)
  OBVIOUS
<1> DEFINE fields == [f \in Fields |-> IF f = "admin" THEN row.admin ELSE None]
<1> HIDE DEF fields
<1>4. TokenRow(row) = [owner |-> row.user, within |-> None, secrets |-> <<>>, fields |-> fields]
  BY Zenon DEF TokenRow, fields
<1>5. TokenRow(row) \in Rows
  BY <1>1, <1>2, <1>3, <1>4 DEF Rows, fields
<1> QED
  BY <1>4, <1>5, ApartAssumption DEF fields

AppFields(row) == [f \in Fields |-> CASE f = "toss" -> row.toss
                                      [] f = "details" -> row.details
                                      [] f = "raw" -> row.raw
                                      [] OTHER -> None]

LEMMA AppFieldsType ==
  ASSUME NEW row \in App
  PROVE  AppFields(row) \in [Fields -> Args]
<1>1. row.toss \in Args /\ row.details \in Args /\ row.raw \in Args /\ None \in Args
  BY DEF App, Args
<1>2. ASSUME NEW f \in Fields
      PROVE  (CASE f = "toss" -> row.toss [] f = "details" -> row.details
                [] f = "raw" -> row.raw [] OTHER -> None) \in Args
  BY <1>1
<1> QED
  BY <1>2 DEF AppFields

LEMMA AppShape ==
  ASSUME NEW row \in App
  PROVE  /\ AppRow(row).owner = OwnerOf(row) /\ AppRow(row).within = row.workspace
         /\ AppRow(row).secrets = row.hashes /\ AppRow(row).fields = AppFields(row)
         /\ OwnerOf(row) \in Users => AppRow(row) \in Rows /\ AppRow(row) # None
         /\ row.workspace # None
<1>1. row.workspace \in WorkspaceIds /\ row.hashes \in Seq(Secrets)
  BY DEF App
<1>2. AppFields(row) \in [Fields -> Args]
  BY AppFieldsType
<1>3. AppRow(row) = [owner |-> OwnerOf(row), within |-> row.workspace, secrets |-> row.hashes,
                     fields |-> AppFields(row)]
  BY Zenon DEF AppRow, AppFields
<1>4. row.workspace # None
  BY <1>1, IdKinds, NoneIsApart
<1> DEFINE fields == AppFields(row)
           seen == AppRow(row)
<1> HIDE DEF fields, seen
<1>5. fields \in [Fields -> Args] /\ seen = [owner |-> OwnerOf(row), within |-> row.workspace,
                                             secrets |-> row.hashes, fields |-> fields]
  BY <1>2, <1>3 DEF fields, seen
<1>6. OwnerOf(row) \in Users => seen \in Rows
  BY <1>1, <1>5 DEF Rows
<1> QED
  BY <1>4, <1>5, <1>6, ApartAssumption DEF seen, fields

(* The rows themselves.                                                    *)
LEMMA RowFacts ==
  ASSUME ServiceInv
  PROVE  /\ rowsBar \in [Ids -> Rows \cup {None}]
         /\ \A id \in Ids : rowsBar[id] = Row(id) /\ (Row(id) # None <=> RowOf(id) # None)
         /\ \A w \in WorkspaceIds : workspaces[w] # None =>
              Row(w) = WorkspaceRow(workspaces[w]) /\ workspaces[w] \in Workspace
         /\ \A a \in AppIds : apps[a] # None =>
              Row(a) = AppRow(apps[a]) /\ apps[a] \in App /\ OwnerOf(apps[a]) \in Users
         /\ \A t \in TokenIds : tokens[t] # None =>
              Row(t) = TokenRow(tokens[t]) /\ tokens[t] \in ApiToken
<1>1. ASSUME NEW w \in WorkspaceIds, workspaces[w] # None
      PROVE  Row(w) = WorkspaceRow(workspaces[w]) /\ workspaces[w] \in Workspace
  BY <1>1, RowsByKind DEF ByKind, ServiceInv, TypeOK, RowsOK
<1>2. ASSUME NEW a \in AppIds, apps[a] # None
      PROVE  Row(a) = AppRow(apps[a]) /\ apps[a] \in App /\ OwnerOf(apps[a]) \in Users
  <2>1. Row(a) = AppRow(apps[a]) /\ apps[a] \in App
    BY <1>2, RowsByKind DEF ByKind, ServiceInv, TypeOK, RowsOK
  <2>2. apps[a].workspace \in WorkspaceIds /\ workspaces[apps[a].workspace] # None
    BY <1>2, <2>1 DEF App, ServiceInv, NoOrphan
  <2>3. workspaces[apps[a].workspace] \in Workspace
    BY <2>2 DEF ServiceInv, TypeOK, RowsOK
  <2> QED
    BY <2>1, <2>2, <2>3 DEF OwnerOf, Workspace
<1>3. ASSUME NEW t \in TokenIds, tokens[t] # None
      PROVE  Row(t) = TokenRow(tokens[t]) /\ tokens[t] \in ApiToken
  BY <1>3, RowsByKind DEF ByKind, ServiceInv, TypeOK, RowsOK
<1>4. ASSUME NEW id \in Ids
      PROVE  Row(id) \in Rows \cup {None} /\ (Row(id) # None <=> RowOf(id) # None)
  <2>1. CASE id \in WorkspaceIds
    <3>1. RowOf(id) = workspaces[id]
      BY <2>1, ServiceAssumption DEF RowOf
    <3> QED
      BY <1>1, <2>1, <3>1, WorkspaceShape DEF Row
  <2>2. CASE id \in AppIds
    <3>1. RowOf(id) = apps[id]
      BY <2>2, ServiceAssumption DEF RowOf
    <3> QED
      BY <1>2, <2>2, <3>1, AppShape DEF Row
  <2>3. CASE id \in TokenIds
    <3>1. RowOf(id) = tokens[id]
      BY <2>3, ServiceAssumption DEF RowOf
    <3> QED
      BY <1>3, <2>3, <3>1, TokenShape DEF Row
  <2> QED
    BY <2>1, <2>2, <2>3 DEF Ids
<1> QED
  BY <1>1, <1>2, <1>3, <1>4 DEF rowsBar

(* A row that stays where it is looks as before, if its workspace has its  *)
(* owner.                                                                  *)
LEMMA RowStays ==
  /\ \A w \in WorkspaceIds : workspaces'[w] = workspaces[w] => Row(w)' = Row(w)
  /\ \A a \in AppIds : /\ apps'[a] = apps[a]
                       /\ apps[a] # None => OwnerOf(apps[a])' = OwnerOf(apps[a])
                       => Row(a)' = Row(a)
  /\ \A t \in TokenIds : tokens'[t] = tokens[t] => Row(t)' = Row(t)
<1>1. ASSUME NEW w \in WorkspaceIds, workspaces'[w] = workspaces[w] PROVE Row(w)' = Row(w)
  <2>1. Row(w)' = IF workspaces'[w] = None THEN None ELSE WorkspaceRow(workspaces'[w])
    BY RowsByKind, Zenon DEF ByKind, WorkspaceRow
  <2> QED
    BY <1>1, <2>1, RowsByKind, Zenon DEF ByKind
<1>2. ASSUME NEW t \in TokenIds, tokens'[t] = tokens[t] PROVE Row(t)' = Row(t)
  <2>1. Row(t)' = IF tokens'[t] = None THEN None ELSE TokenRow(tokens'[t])
    BY RowsByKind, Zenon DEF ByKind, TokenRow
  <2> QED
    BY <1>2, <2>1, RowsByKind, Zenon DEF ByKind
<1>3. ASSUME NEW a \in AppIds, apps'[a] = apps[a],
             apps[a] # None => OwnerOf(apps[a])' = OwnerOf(apps[a])
      PROVE  Row(a)' = Row(a)
  <2>1. CASE apps[a] = None
    BY <1>3, <2>1, RowsByKind DEF ByKind
  <2>2. CASE apps[a] # None
    <3>1. AppRow(apps[a])' = AppRow(apps[a])
      BY <1>3, <2>2, Zenon DEF AppRow
    <3> QED
      BY <1>3, <2>2, <3>1, RowsByKind DEF ByKind
  <2> QED
    BY <2>1, <2>2
<1> QED
  BY <1>1, <1>2, <1>3

(* A step that changes one row at most, and no owner, is seen at this row. *)
LEMMA OneRowChanges ==
  ASSUME ServiceInv, NEW id \in Ids,
         \A w \in WorkspaceIds \ {id} : workspaces'[w] = workspaces[w],
         \A a \in AppIds \ {id} : apps'[a] = apps[a],
         \A t \in TokenIds \ {id} : tokens'[t] = tokens[t],
         \A w \in WorkspaceIds : workspaces[w] # None =>
           workspaces'[w] # None /\ workspaces'[w].owner = workspaces[w].owner
  PROVE  /\ rowsBar' = [rowsBar EXCEPT ![id] = rowsBar'[id]]
         /\ rowsBar[id] = Row(id) /\ rowsBar'[id] = Row(id)'
<1>1. ASSUME NEW a \in AppIds \ {id}, apps[a] # None PROVE OwnerOf(apps[a])' = OwnerOf(apps[a])
  <2>1. apps[a].workspace \in WorkspaceIds /\ workspaces[apps[a].workspace] # None
    BY <1>1 DEF ServiceInv, TypeOK, RowsOK, NoOrphan, App
  <2> QED
    BY <2>1 DEF OwnerOf
<1>2. \A x \in Ids \ {id} : Row(x)' = Row(x)
  BY <1>1, RowStays DEF Ids
<1> QED
  BY <1>2 DEF rowsBar

LEMMA NoRowChanges ==
  ASSUME UNCHANGED tables
  PROVE  rowsBar' = rowsBar
<1>1. \A a \in AppIds : OwnerOf(apps[a])' = OwnerOf(apps[a])
  BY DEF tables, OwnerOf
<1>2. \A x \in Ids : Row(x)' = Row(x)
  BY <1>1, RowStays DEF Ids, tables
<1> QED
  BY <1>2 DEF rowsBar

-----------------------------------------------------------------------------
(* How its requests look from there.                                       *)

Due(q) == IF q.pc = "audit" THEN [actor |-> q.user, action |-> q.op, target |-> q.target] ELSE None

LEMMA SlotBars ==
  /\ askedBar = [x \in Requests |-> Asking(req[x])] /\ doneBar = [x \in Requests |-> Due(req[x])]
  /\ askedBar' = [x \in Requests |-> Asking(req'[x])] /\ doneBar' = [x \in Requests |-> Due(req'[x])]
<1>1. askedBar = [x \in Requests |-> Asking(req[x])] /\ doneBar = [x \in Requests |-> Due(req[x])]
  BY DEF askedBar, doneBar, Due, Entry
<1>2. /\ askedBar' = [x \in Requests |-> Asking(req'[x])]
      /\ doneBar' = [x \in Requests |-> Due(req'[x])]
  BY Zenon DEF askedBar, doneBar, Due, Entry, Asking
<1> QED
  BY <1>1, <1>2

(* A step of one request changes what is seen of it.                       *)
LEMMA OneSlotChanges ==
  ASSUME ServiceInv, NEW r \in Requests, \A x \in Requests \ {r} : req'[x] = req[x]
  PROVE  /\ askedBar' = [askedBar EXCEPT ![r] = Asking(req'[r])]
         /\ doneBar' = [doneBar EXCEPT ![r] = Due(req'[r])]
         /\ askedBar[r] = Asking(req[r]) /\ doneBar[r] = Due(req[r])
  BY SlotBars

(* A request on its way is a question, one about to be recorded an entry.  *)
Questioning(q) ==
  /\ q \in Request /\ q.pc \notin {"idle", "audit"} /\ q.op \in Ops /\ q.token \in TokenIds
  /\ q.op = RotateOp /\ q.pc \in {"workspace", "write"} =>
       q.row \in App /\ Len(q.row.hashes) \in 1..2

LEMMA QuestionShape ==
  ASSUME NEW q, Questioning(q)
  PROVE  /\ Asking(q) \in Questions /\ Asking(q) # None /\ Due(q) = None
         /\ Asking(q).op = q.op /\ Asking(q).token = q.token
         /\ Asking(q).target = q.target /\ Asking(q).arg = q.arg
         /\ Asking(q).by = IF q.pc = "token" THEN None ELSE q.user
         /\ Asking(q).keep = IF q.op = RotateOp /\ q.pc \in {"workspace", "write"}
                             THEN Newest(q.row.hashes) ELSE None
         /\ Asking(q) = [op |-> q.op, token |-> q.token, target |-> q.target, arg |-> q.arg,
                         by |-> Asking(q).by, keep |-> Asking(q).keep]
<1> DEFINE by == IF q.pc = "token" THEN None ELSE q.user
           keep == IF q.op = RotateOp /\ q.pc \in {"workspace", "write"}
                   THEN Newest(q.row.hashes) ELSE None
<1>1. q.target \in Ids \cup {None} /\ q.arg \in Args /\ by \in Users \cup {None}
  BY DEF Questioning, Request
<1>2. keep \in Secrets \cup {None}
  BY NewestIsMember DEF Questioning, App
<1>3. Asking(q) = [op |-> q.op, token |-> q.token, target |-> q.target, arg |-> q.arg,
                   by |-> by, keep |-> keep]
  BY Zenon DEF Asking, Questioning
<1>4. Due(q) = None
  BY DEF Due, Questioning
<1> HIDE DEF by, keep
<1>5. Asking(q) \in Questions
  BY <1>1, <1>2, <1>3 DEF Questions, Questioning
<1> QED
  BY <1>3, <1>4, <1>5, ApartAssumption DEF by, keep

LEMMA Questioned ==
  ASSUME ServiceInv, NEW r \in Requests, req[r].pc \notin {"idle", "audit"}
  PROVE  Questioning(req[r])
  BY SlotFacts, OpsApart DEF Formed, Questioning

LEMMA Recordable ==
  ASSUME ServiceInv, NEW r \in Requests, req[r].pc = "audit"
  PROVE  /\ Asking(req[r]) = None /\ Due(req[r]) = Entry(r) /\ Due(req[r]) # None
<1>1. req[r].op \in Ops /\ req[r].user \in Users /\ req[r].target \in Ids
  BY SlotFacts DEF Formed
<1>2. Due(req[r]) = Entry(r) /\ Asking(req[r]) = None
  BY DEF Due, Entry, Asking
<1>3. Entry(r) \in [actor : Users, action : Ops, target : Ids]
  BY <1>1 DEF Entry
<1> QED
  BY <1>2, <1>3, ApartAssumption

LEMMA Unasked == Asking(Idle) = None /\ Due(Idle) = None
  BY DEF Idle, Asking, Due

(* A request that ends is dropped.                                         *)
LEMMA EndSeen ==
  ASSUME ServiceInv, NEW r \in Requests, End(r), UNCHANGED <<tables, audit, history>>
  PROVE  Promise!Drop(r)
<1>1. (\A x \in Requests \ {r} : req'[x] = req[x]) /\ req'[r] = Idle
  BY DEF End, ServiceInv, TypeOK
<1>2. rowsBar' = rowsBar
  BY NoRowChanges
<1>3. UNCHANGED <<audit, born, spentBar>>
  BY DEF history, spentBar, Unused
<1>4. /\ askedBar' = [askedBar EXCEPT ![r] = None] /\ doneBar' = [doneBar EXCEPT ![r] = None]
  BY <1>1, OneSlotChanges, Unasked
<1> QED
  BY <1>2, <1>3, <1>4 DEF Promise!Drop

-----------------------------------------------------------------------------
(* What comes before the write.                                            *)

LEMMA SendSeen ==
  ASSUME ServiceInv, ServiceInv', NEW r \in Requests, NEW op \in Offered, Send(r, op)
  PROVE  Promise!Ask(r)
<1>1. UNCHANGED <<tables, audit, history>> /\ req[r].pc = "idle"
  BY DEF Send, Active
<1>2. (\A x \in Requests \ {r} : req'[x] = req[x]) /\ req'[r].pc = "token"
  BY DEF Send, Idle, ServiceInv, TypeOK
<1>3. rowsBar' = rowsBar /\ UNCHANGED <<audit, born, spentBar>>
  BY <1>1, NoRowChanges DEF history, spentBar, Unused
<1>4. Asking(req[r]) = None /\ Due(req[r]) = None
  BY <1>1 DEF Asking, Due
<1>5. /\ Asking(req'[r]) \in Questions /\ Due(req'[r]) = None
      /\ Asking(req'[r]).by = None /\ Asking(req'[r]).keep = None
  <2>1. Questioning(req'[r])
    BY <1>2 DEF Questioning, ServiceInv, TypeOK, Formed
  <2> QED
    BY <1>2, <2>1, QuestionShape
<1>6. /\ askedBar[r] = None /\ doneBar[r] = None /\ askedBar'[r] = Asking(req'[r])
      /\ askedBar' = [askedBar EXCEPT ![r] = askedBar'[r]] /\ doneBar' = doneBar
  BY <1>2, <1>4, <1>5, SlotBars
<1> QED
  BY <1>3, <1>5, <1>6 DEF Promise!Ask

(* A request that goes on with its question is not seen.                   *)
LEMMA UnseenStep ==
  ASSUME ServiceInv, NEW r \in Requests, UNCHANGED <<tables, audit, history>>,
         \A x \in Requests \ {r} : req'[x] = req[x],
         Asking(req'[r]) = Asking(req[r]), Due(req'[r]) = Due(req[r])
  PROVE  UNCHANGED Promise!rvars
<1>1. rowsBar' = rowsBar /\ UNCHANGED <<audit, born, spentBar>>
  BY NoRowChanges DEF history, spentBar, Unused
<1>2. askedBar' = askedBar /\ doneBar' = doneBar
  BY SlotBars
<1> QED
  BY <1>1, <1>2 DEF Promise!rvars

LEMMA GotoSeen ==
  ASSUME ServiceInv, NEW r \in Requests, req[r].pc \in {"workspace", "tokens"}, Goto(r, "write"),
         req[r].pc = "tokens" => req[r].op # RotateOp,
         UNCHANGED <<tables, audit, history>>
  PROVE  UNCHANGED Promise!rvars
<1> DEFINE q == [req[r] EXCEPT !.pc = "write"]
<1>1. (\A x \in Requests \ {r} : req'[x] = req[x]) /\ req'[r] = q
  BY DEF Goto, ServiceInv, TypeOK
<1>2. /\ q.pc = "write" /\ q.op = req[r].op /\ q.token = req[r].token /\ q.target = req[r].target
      /\ q.arg = req[r].arg /\ q.user = req[r].user /\ q.row = req[r].row
  BY SlotFacts DEF Request
<1> HIDE DEF q
<1>3. Asking(q) = Asking(req[r]) /\ Due(q) = Due(req[r])
  BY <1>2 DEF Asking, Due
<1> QED
  BY <1>1, <1>3, UnseenStep

LEMMA CheckTokenSeen ==
  ASSUME ServiceInv, NEW r \in Requests, CheckToken(r)
  PROVE  Promise!Admit(r) \/ Promise!Drop(r)
<1>1. req[r].pc = "token" /\ UNCHANGED <<tables, audit, history>>
  BY DEF CheckToken
<1>2. CASE End(r)
  BY <1>1, <1>2, EndSeen
<1>3. CASE ~End(r)
  <2> DEFINE row == tokens[req[r].token]
             q == [req[r] EXCEPT !.pc = FirstStep(req[r].op), !.user = row.user]
  <2>1. /\ row # None /\ row.admin
        /\ req' = [req EXCEPT ![r].pc = FirstStep(req[r].op), ![r].user = row.user]
    BY <1>3 DEF CheckToken
  <2>2. Questioning(req[r]) /\ req[r].token \in TokenIds /\ req[r].op \in Ops
    BY <1>1, Questioned DEF Questioning
  <2>3. /\ rowsBar[req[r].token] = TokenRow(row) /\ row \in ApiToken
    BY <2>1, <2>2, RowFacts, IdKinds
  <2>4. /\ TokenRow(row) # None /\ TokenRow(row).owner = row.user
        /\ TokenRow(row).fields["admin"] = row.admin /\ row.admin = TRUE
    BY <2>1, <2>3, TokenShape DEF Fields, ApiToken
  <2>5. (\A x \in Requests \ {r} : req'[x] = req[x]) /\ req'[r] = q
    BY <2>1 DEF ServiceInv, TypeOK
  <2> HIDE DEF row
  <2>6. /\ q.op = req[r].op /\ q.token = req[r].token /\ q.target = req[r].target
        /\ q.arg = req[r].arg /\ q.user = row.user /\ q.pc = FirstStep(req[r].op)
    BY SlotFacts DEF Request
  <2>7. /\ FirstStep(req[r].op) \notin {"idle", "audit", "token"}
        /\ req[r].op = RotateOp => FirstStep(req[r].op) \notin {"workspace", "write"}
    BY <2>2, OpsApart DEF FirstStep, Ops
  <2> HIDE DEF q
  <2>8. /\ Asking(req[r]).by = None /\ Asking(req[r]).keep = None
        /\ Asking(req[r]) = [op |-> req[r].op, token |-> req[r].token, target |-> req[r].target,
                             arg |-> req[r].arg, by |-> Asking(req[r]).by,
                             keep |-> Asking(req[r]).keep]
        /\ Asking(req[r]) # None /\ Due(req[r]) = None /\ Asking(req[r]).token = req[r].token
    BY <1>1, <2>2, QuestionShape
  <2>9. /\ Asking(q) = [op |-> req[r].op, token |-> req[r].token, target |-> req[r].target,
                        arg |-> req[r].arg, by |-> row.user, keep |-> None]
        /\ Due(q) = None
    BY <2>6, <2>7 DEF Asking, Due
  <2>10. Asking(q) = [Asking(req[r]) EXCEPT !.by = row.user]
    BY <2>8, <2>9
  <2>11. /\ askedBar[r] = Asking(req[r]) /\ doneBar' = doneBar
         /\ askedBar' = [askedBar EXCEPT ![r] = Asking(q)]
    BY <2>5, <2>8, <2>9, SlotBars
  <2>12. askedBar' = [askedBar EXCEPT ![r].by = row.user]
    BY <2>10, <2>11
  <2>13. rowsBar' = rowsBar /\ UNCHANGED <<audit, born, spentBar>>
    BY <1>1, NoRowChanges DEF history, spentBar, Unused
  <2>14. /\ askedBar[r] # None /\ askedBar[r].by = None
         /\ rowsBar[askedBar[r].token] = TokenRow(row)
    BY <2>3, <2>8, <2>11
  <2>15. Promise!Admit(r)
    BY <2>4, <2>11, <2>12, <2>13, <2>14, Zenon DEF Promise!Admit
  <2> QED
    BY <2>15
<1> QED
  BY <1>2, <1>3

LEMMA ReadAppSeen ==
  ASSUME ServiceInv, NEW r \in Requests, ReadApp(r)
  PROVE  Promise!Consider(r) \/ Promise!Drop(r) \/ UNCHANGED Promise!rvars
<1>1. req[r].pc = "app" /\ req[r].op \in AppOps /\ UNCHANGED <<tables, audit, history>>
  BY SlotFacts DEF ReadApp, Formed
<1>2. CASE End(r)
  BY <1>1, <1>2, EndSeen
<1>3. CASE ~End(r)
  <2> DEFINE row == apps[req[r].target]
             q == [req[r] EXCEPT !.pc = "workspace", !.row = row]
  <2>1. row # None /\ req' = [req EXCEPT ![r].pc = "workspace", ![r].row = row]
    BY <1>3 DEF ReadApp
  <2>2. Questioning(req[r]) /\ req[r].target \in AppIds /\ req[r].user \in Users
    BY <1>1, Questioned, SlotFacts, KindsOfTargets DEF Formed
  <2>3. rowsBar[req[r].target] = AppRow(row) /\ AppRow(row) # None /\ AppRow(row).secrets = row.hashes
    BY <2>1, <2>2, RowFacts, IdKinds, AppShape
  <2>4. (\A x \in Requests \ {r} : req'[x] = req[x]) /\ req'[r] = q
    BY <2>1 DEF ServiceInv, TypeOK
  <2> HIDE DEF row
  <2>5. /\ q.op = req[r].op /\ q.token = req[r].token /\ q.target = req[r].target
        /\ q.arg = req[r].arg /\ q.user = req[r].user /\ q.pc = "workspace" /\ q.row = row
    BY SlotFacts DEF Request
  <2> HIDE DEF q
  <2>6. /\ Asking(req[r]).by = req[r].user /\ Asking(req[r]).keep = None
        /\ Asking(req[r]) = [op |-> req[r].op, token |-> req[r].token, target |-> req[r].target,
                             arg |-> req[r].arg, by |-> Asking(req[r]).by,
                             keep |-> Asking(req[r]).keep]
        /\ Asking(req[r]) # None /\ Due(req[r]) = None /\ Asking(req[r]).op = req[r].op
        /\ Asking(req[r]).target = req[r].target
    BY <1>1, <2>2, QuestionShape
  <2>7. /\ Asking(q) = [op |-> req[r].op, token |-> req[r].token, target |-> req[r].target,
                        arg |-> req[r].arg, by |-> req[r].user,
                        keep |-> IF req[r].op = RotateOp THEN Newest(row.hashes) ELSE None]
        /\ Due(q) = None
    BY <2>5 DEF Asking, Due
  <2>8. CASE req[r].op # RotateOp
    BY <1>1, <2>4, <2>6, <2>7, <2>8, UnseenStep
  <2>9. CASE req[r].op = RotateOp
    <3>1. Asking(q) = [Asking(req[r]) EXCEPT !.keep = Newest(row.hashes)]
      BY <2>6, <2>7, <2>9
    <3>2. /\ askedBar[r] = Asking(req[r]) /\ doneBar' = doneBar
          /\ askedBar' = [askedBar EXCEPT ![r] = Asking(q)]
      BY <2>4, <2>6, <2>7, SlotBars
    <3>3. askedBar' = [askedBar EXCEPT ![r].keep = Newest(row.hashes)]
      BY <3>1, <3>2
    <3>4. rowsBar' = rowsBar /\ UNCHANGED <<audit, born, spentBar>>
      BY <1>1, NoRowChanges DEF history, spentBar, Unused
    <3>5. Promise!Newest(row.hashes) = Newest(row.hashes) /\ req[r].user # None
      BY <2>2, NoneIsApart DEF Promise!Newest, Newest
    <3>6. /\ askedBar[r] # None /\ askedBar[r].op = RotateOp /\ askedBar[r].by # None
          /\ rowsBar[askedBar[r].target] = AppRow(row)
      BY <2>3, <2>6, <2>9, <3>2, <3>5
    <3>7. Promise!Consider(r)
      BY <2>3, <3>2, <3>3, <3>4, <3>5, <3>6, Zenon DEF Promise!Consider
    <3> QED
      BY <3>7
  <2> QED
    BY <2>8, <2>9
<1> QED
  BY <1>2, <1>3

(* A handler that only reads or gives up.                                  *)
LEMMA ReadsSeen ==
  ASSUME ServiceInv, NEW r \in Requests,
         CheckToken(r) \/ ReadApp(r) \/ ReadWorkspace(r) \/ ReadTokens(r) \/ Fail(r)
  PROVE  \/ Promise!Admit(r) \/ Promise!Consider(r) \/ Promise!Drop(r)
         \/ UNCHANGED Promise!rvars
<1>1. CASE ReadWorkspace(r)
  BY <1>1, EndSeen, GotoSeen DEF ReadWorkspace
<1>2. CASE ReadTokens(r)
  <2>1. req[r].op # RotateOp
    BY <1>2, SlotFacts DEF ReadTokens, Formed, RotateOp
  <2> QED
    BY <1>2, <2>1, EndSeen, GotoSeen DEF ReadTokens
<1>3. CASE Fail(r)
  BY <1>3, EndSeen DEF Fail
<1> QED
  BY <1>1, <1>2, <1>3, CheckTokenSeen, ReadAppSeen

(* The audit row.                                                          *)
LEMMA AuditSeen ==
  ASSUME ServiceInv, NEW r \in Requests, AppendAudit(r)
  PROVE  Promise!Record(r)
<1>1. /\ req[r].pc = "audit" /\ audit' = audit \cup {Entry(r)}
      /\ UNCHANGED <<tables, born, secretLog>>
      /\ (\A x \in Requests \ {r} : req'[x] = req[x]) /\ req'[r] = Idle
  BY DEF AppendAudit, Recorded, End, ServiceInv, TypeOK
<1>2. rowsBar' = rowsBar /\ UNCHANGED <<born, spentBar>>
  BY <1>1, NoRowChanges DEF spentBar, Unused
<1>3. Asking(req[r]) = None /\ Due(req[r]) = Entry(r) /\ Entry(r) # None
  BY <1>1, Recordable
<1>4. /\ doneBar[r] = Entry(r) /\ doneBar' = [doneBar EXCEPT ![r] = None] /\ askedBar' = askedBar
  BY <1>1, <1>3, Unasked, SlotBars
<1> QED
  BY <1>1, <1>2, <1>3, <1>4 DEF Promise!Record

-----------------------------------------------------------------------------
(* What a write shows: the question is closed, by one who may.             *)

LEMMA FieldOf ==
  /\ Field["workspace.create"] = "name" /\ Field["workspace.update"] = "name"
  /\ Field["app.create"] = "toss" /\ Field["app.update"] = "details"
  /\ Field["app.raw_tokens.toggle"] = "raw" /\ Field["api_token.create"] = "admin"
<1>1. /\ "workspace.create" \in Ops /\ "workspace.update" \in Ops /\ "app.create" \in Ops
      /\ "app.update" \in Ops /\ "app.raw_tokens.toggle" \in Ops /\ "api_token.create" \in Ops
  BY DEF Ops, CreateOps, WorkspaceOps, AppOps
<1> QED
  BY <1>1 DEF Field

LEMMA WroteSeen ==
  ASSUME ServiceInv, NEW r \in Requests, req[r].pc = "write", NEW id, NEW secret,
         Wrote(r, id, secret), audit' = audit
  PROVE  /\ Promise!Admitted(r) /\ Promise!Acted(r, id)
         /\ askedBar[r].op = req[r].op /\ askedBar[r].target = req[r].target
         /\ askedBar[r].arg = req[r].arg /\ askedBar[r].by = req[r].user
         /\ req[r].op = RotateOp => /\ askedBar[r].keep = Newest(req[r].row.hashes)
                                    /\ askedBar[r].keep # None
<1>1. Questioning(req[r]) /\ req[r] \in Request
  BY Questioned, SlotFacts
<1>2. /\ askedBar[r] = Asking(req[r]) /\ doneBar[r] = None /\ askedBar[r] # None
      /\ askedBar[r].op = req[r].op /\ askedBar[r].target = req[r].target
      /\ askedBar[r].arg = req[r].arg /\ askedBar[r].by = req[r].user
      /\ req[r].op = RotateOp => askedBar[r].keep = Newest(req[r].row.hashes)
  BY <1>1, QuestionShape, SlotBars
<1>3. req[r].user \in Users /\ req[r].user # None
  BY AtWrite, NoneIsApart
<1>4. req[r].op = RotateOp => Newest(req[r].row.hashes) # None
  BY <1>1, NewestIsMember, NoneIsApart DEF Questioning, App
<1>5. /\ \A x \in Requests \ {r} : req'[x] = req[x]
      /\ \/ req'[r] = Idle
         \/ /\ req'[r].pc = "audit" /\ req'[r].user = req[r].user /\ req'[r].op = req[r].op
            /\ req'[r].target = id
  BY <1>1 DEF Wrote, End, ServiceInv, TypeOK, Request
<1>6. Asking(req'[r]) = None
  BY <1>5, Unasked DEF Asking
<1>7. \/ Due(req'[r]) = None
      \/ Due(req'[r]) = [actor |-> askedBar[r].by, action |-> askedBar[r].op, target |-> id]
  BY <1>2, <1>5, Unasked DEF Due
<1>8. askedBar' = [askedBar EXCEPT ![r] = None]
  BY <1>5, <1>6, SlotBars
<1>9. \/ doneBar' = [doneBar EXCEPT ![r] = [actor |-> askedBar[r].by, action |-> askedBar[r].op,
                                            target |-> id]]
      \/ doneBar' = doneBar
  BY <1>2, <1>5, <1>7, SlotBars
<1>10. Promise!Acted(r, id)
  BY <1>8, <1>9 DEF Promise!Acted
<1>11. Promise!Admitted(r)
  BY <1>2, <1>3 DEF Promise!Admitted
<1> QED
  BY <1>2, <1>4, <1>10, <1>11

(* A row is seen as it is.                                                 *)
LEMMA SeenRows ==
  ASSUME ServiceInv
  PROVE  /\ \A w \in WorkspaceIds :
              IF workspaces[w] = None THEN rowsBar[w] = None
              ELSE /\ rowsBar[w] # None /\ rowsBar[w] = WorkspaceRow(workspaces[w])
                   /\ rowsBar[w].owner = workspaces[w].owner /\ rowsBar[w].within = None
         /\ \A a \in AppIds :
              IF apps[a] = None THEN rowsBar[a] = None
              ELSE /\ rowsBar[a] # None /\ rowsBar[a].owner = OwnerOf(apps[a])
                   /\ rowsBar[a].within = apps[a].workspace
                   /\ rowsBar[a].secrets = apps[a].hashes /\ rowsBar[a].fields = AppFields(apps[a])
         /\ \A t \in TokenIds :
              IF tokens[t] = None THEN rowsBar[t] = None
              ELSE /\ rowsBar[t] # None /\ rowsBar[t].owner = tokens[t].user
                   /\ rowsBar[t].within = None
<1>1. ASSUME NEW w \in WorkspaceIds
      PROVE  IF workspaces[w] = None THEN rowsBar[w] = None
             ELSE /\ rowsBar[w] # None /\ rowsBar[w] = WorkspaceRow(workspaces[w])
                  /\ rowsBar[w].owner = workspaces[w].owner /\ rowsBar[w].within = None
  <2>1. rowsBar[w] = Row(w)
    BY RowFacts, IdKinds
  <2>2. CASE workspaces[w] = None
    BY <2>1, <2>2, RowsByKind DEF ByKind
  <2>3. CASE workspaces[w] # None
    <3>1. rowsBar[w] = WorkspaceRow(workspaces[w]) /\ workspaces[w] \in Workspace
      BY <2>1, <2>3, RowFacts
    <3> QED
      BY <2>3, <3>1, WorkspaceShape
  <2> QED
    BY <2>2, <2>3
<1>2. ASSUME NEW a \in AppIds
      PROVE  IF apps[a] = None THEN rowsBar[a] = None
             ELSE /\ rowsBar[a] # None /\ rowsBar[a].owner = OwnerOf(apps[a])
                  /\ rowsBar[a].within = apps[a].workspace
                  /\ rowsBar[a].secrets = apps[a].hashes /\ rowsBar[a].fields = AppFields(apps[a])
  <2>1. rowsBar[a] = Row(a)
    BY RowFacts, IdKinds
  <2>2. CASE apps[a] = None
    BY <2>1, <2>2, RowsByKind DEF ByKind
  <2>3. CASE apps[a] # None
    <3>1. rowsBar[a] = AppRow(apps[a]) /\ apps[a] \in App /\ OwnerOf(apps[a]) \in Users
      BY <2>1, <2>3, RowFacts
    <3> QED
      BY <2>3, <3>1, AppShape
  <2> QED
    BY <2>2, <2>3
<1>3. ASSUME NEW t \in TokenIds
      PROVE  IF tokens[t] = None THEN rowsBar[t] = None
             ELSE /\ rowsBar[t] # None /\ rowsBar[t].owner = tokens[t].user
                  /\ rowsBar[t].within = None
  <2>1. rowsBar[t] = Row(t)
    BY RowFacts, IdKinds
  <2>2. CASE tokens[t] = None
    BY <2>1, <2>2, RowsByKind DEF ByKind
  <2>3. CASE tokens[t] # None
    <3>1. rowsBar[t] = TokenRow(tokens[t]) /\ tokens[t] \in ApiToken
      BY <2>1, <2>3, RowFacts
    <3> QED
      BY <2>3, <3>1, TokenShape
  <2> QED
    BY <2>2, <2>3
<1> QED
  BY <1>1, <1>2, <1>3

(* The rows of a handler that passed its checks are its user's, if there.  *)
LEMMA MineAtWrite ==
  ASSUME ServiceInv, NEW r \in Requests, req[r].pc = "write", askedBar[r].by = req[r].user,
         req[r].op \notin CreateOps
  PROVE  /\ req[r].target \in Ids
         /\ rowsBar[req[r].target] # None => Promise!Mine(r, req[r].target)
<1>1. CASE req[r].op \in WorkspaceOps
  <2>1. req[r].target \in WorkspaceIds
    BY <1>1, AtWrite
  <2>2. rowsBar[req[r].target] # None =>
          /\ workspaces[req[r].target] # None
          /\ rowsBar[req[r].target].owner = workspaces[req[r].target].owner
    BY <2>1, SeenRows
  <2> QED
    BY <1>1, <2>1, <2>2, OwnedAtWrite, IdKinds DEF Promise!Mine, OwnsIfThere
<1>2. CASE req[r].op \in AppOps
  <2>1. req[r].target \in AppIds
    BY <1>2, AtWrite
  <2>2. rowsBar[req[r].target] # None =>
          /\ apps[req[r].target] # None
          /\ rowsBar[req[r].target].owner = OwnerOf(apps[req[r].target])
    BY <2>1, SeenRows
  <2> QED
    BY <1>2, <2>1, <2>2, OwnedAtWrite, IdKinds DEF Promise!Mine
<1>3. CASE req[r].op = "api_token.delete"
  <2>1. req[r].target \in TokenIds
    BY <1>3, AtWrite
  <2>2. rowsBar[req[r].target] # None =>
          /\ tokens[req[r].target] # None
          /\ rowsBar[req[r].target].owner = tokens[req[r].target].user
    BY <2>1, SeenRows
  <2> QED
    BY <1>3, <2>1, <2>2, OwnedAtWrite, IdKinds DEF Promise!Mine
<1> QED
  BY <1>1, <1>2, <1>3, AtWrite, KindsOfTargets

(* The rows as they will be.                                               *)
LEMMA RowsNext ==
  /\ \A w \in WorkspaceIds :
       Row(w)' = IF workspaces'[w] = None THEN None ELSE WorkspaceRow(workspaces'[w])
  /\ \A t \in TokenIds : Row(t)' = IF tokens'[t] = None THEN None ELSE TokenRow(tokens'[t])
  /\ \A a \in AppIds : apps'[a] = None => Row(a)' = None
  /\ \A a \in AppIds : apps'[a] # None =>
       Row(a)' = [owner |-> OwnerOf(apps[a])', within |-> apps'[a].workspace,
                  secrets |-> apps'[a].hashes, fields |-> AppFields(apps'[a])]
<1>1. ASSUME NEW w \in WorkspaceIds
      PROVE  Row(w)' = IF workspaces'[w] = None THEN None ELSE WorkspaceRow(workspaces'[w])
  BY RowsByKind, Zenon DEF ByKind, WorkspaceRow
<1>2. ASSUME NEW t \in TokenIds
      PROVE  Row(t)' = IF tokens'[t] = None THEN None ELSE TokenRow(tokens'[t])
  BY RowsByKind, Zenon DEF ByKind, TokenRow
<1>3. ASSUME NEW a \in AppIds
      PROVE  Row(a)' = IF apps'[a] = None THEN None ELSE AppRow(apps[a])'
  BY RowsByKind, Zenon DEF ByKind
<1>4. ASSUME NEW a \in AppIds
      PROVE  AppRow(apps[a])' = [owner |-> OwnerOf(apps[a])', within |-> apps'[a].workspace,
                                 secrets |-> apps'[a].hashes, fields |-> AppFields(apps'[a])]
  BY Zenon DEF AppRow, AppFields
<1> QED
  BY <1>1, <1>2, <1>3, <1>4

LEMMA CreateWorkspaceSeen ==
  ASSUME ServiceInv, NEW r \in Requests, CreateWorkspace(r)
  PROVE  Promise!Create(r)
<1>1. /\ req[r].pc = "write" /\ req[r].op = "workspace.create"
      /\ UNCHANGED <<apps, tokens, audit, secretLog>>
  BY DEF CreateWorkspace, At
<1>2. PICK w \in WorkspaceIds \ born :
        /\ workspaces' = [workspaces EXCEPT ![w] = [owner |-> req[r].user, name |-> req[r].arg]]
        /\ born' = born \cup {w}
        /\ Wrote(r, w, None)
  BY DEF CreateWorkspace
<1>3. /\ req[r].user \in Users /\ req[r].arg \in Names /\ req[r].target = None
      /\ req[r].op \in CreateOps
  BY <1>1, AtWrite, SlotFacts, KindsOfTargets DEF ArgsOf, Formed, CreateOps
<1> DEFINE row == [owner |-> req[r].user, name |-> req[r].arg]
<1>4. row \in Workspace /\ row # None /\ row.owner = req[r].user /\ row.name = req[r].arg
  BY <1>3, NoneIsApart DEF Workspace
<1> HIDE DEF row
<1>5. workspaces' = [workspaces EXCEPT ![w] = row] /\ workspaces[w] = None /\ w \in Ids
  BY <1>2, IdKinds DEF row, ServiceInv, BornInv
<1>6. workspaces'[w] = row
  BY <1>5 DEF ServiceInv, TypeOK, RowsOK
<1>7. rowsBar' = [rowsBar EXCEPT ![w] = rowsBar'[w]] /\ rowsBar'[w] = WorkspaceRow(row)
  <2>1. Row(w)' = WorkspaceRow(row)
    BY <1>4, <1>6, RowsNext
  <2>2. \A v \in WorkspaceIds \ {w} : workspaces'[v] = workspaces[v]
    BY <1>5 DEF ServiceInv, TypeOK, RowsOK
  <2> QED
    BY <1>1, <1>5, <2>1, <2>2, OneRowChanges
<1>8. spentBar' = spentBar
  BY <1>1 DEF spentBar, Unused
<1>9. /\ Promise!Admitted(r) /\ Promise!Acted(r, w) /\ askedBar[r].op = req[r].op
      /\ askedBar[r].target = None /\ askedBar[r].arg = req[r].arg /\ askedBar[r].by = req[r].user
  BY <1>1, <1>2, <1>3, WroteSeen
<1>10. /\ WorkspaceRow(row) # None /\ WorkspaceRow(row).owner = req[r].user
       /\ WorkspaceRow(row).within = None /\ WorkspaceRow(row).secrets = <<>>
       /\ WorkspaceRow(row).fields["name"] = req[r].arg
  BY <1>4, WorkspaceShape DEF Fields
<1>11. Field[askedBar[r].op] = "name" /\ askedBar[r].op \in CreateOps \cup {"app.create"}
  BY <1>1, <1>3, <1>9, FieldOf
<1> QED
  BY <1>2, <1>5, <1>7, <1>8, <1>9, <1>10, <1>11 DEF Promise!Create

LEMMA CreateTokenSeen ==
  ASSUME ServiceInv, NEW r \in Requests, CreateToken(r)
  PROVE  Promise!Create(r)
<1>1. /\ req[r].pc = "write" /\ req[r].op = "api_token.create"
      /\ UNCHANGED <<workspaces, apps, audit, secretLog>>
  BY DEF CreateToken, At
<1>2. PICK t \in TokenIds \ born :
        /\ tokens' = [tokens EXCEPT ![t] = [user |-> req[r].user, admin |-> req[r].arg]]
        /\ born' = born \cup {t}
        /\ Wrote(r, t, None)
  BY DEF CreateToken
<1>3. /\ req[r].user \in Users /\ req[r].arg \in BOOLEAN /\ req[r].target = None
      /\ req[r].op \in CreateOps
  BY <1>1, AtWrite, SlotFacts, KindsOfTargets DEF ArgsOf, Formed, CreateOps
<1> DEFINE row == [user |-> req[r].user, admin |-> req[r].arg]
<1>4. row \in ApiToken /\ row # None /\ row.user = req[r].user /\ row.admin = req[r].arg
  BY <1>3, NoneIsApart DEF ApiToken
<1> HIDE DEF row
<1>5. tokens' = [tokens EXCEPT ![t] = row] /\ t \in Ids
  BY <1>2, IdKinds DEF row
<1>6. tokens'[t] = row
  BY <1>5 DEF ServiceInv, TypeOK, RowsOK
<1>7. rowsBar' = [rowsBar EXCEPT ![t] = rowsBar'[t]] /\ rowsBar'[t] = TokenRow(row)
  <2>1. Row(t)' = TokenRow(row)
    BY <1>4, <1>6, RowsNext
  <2>2. \A v \in TokenIds \ {t} : tokens'[v] = tokens[v]
    BY <1>5 DEF ServiceInv, TypeOK, RowsOK
  <2> QED
    BY <1>1, <1>5, <2>1, <2>2, OneRowChanges
<1>8. spentBar' = spentBar
  BY <1>1 DEF spentBar, Unused
<1>9. /\ Promise!Admitted(r) /\ Promise!Acted(r, t) /\ askedBar[r].op = req[r].op
      /\ askedBar[r].target = None /\ askedBar[r].arg = req[r].arg /\ askedBar[r].by = req[r].user
  BY <1>1, <1>2, <1>3, WroteSeen
<1>10. /\ TokenRow(row) # None /\ TokenRow(row).owner = req[r].user
       /\ TokenRow(row).within = None /\ TokenRow(row).secrets = <<>>
       /\ TokenRow(row).fields["admin"] = req[r].arg
  BY <1>4, TokenShape DEF Fields
<1>11. Field[askedBar[r].op] = "admin" /\ askedBar[r].op \in CreateOps \cup {"app.create"}
  BY <1>1, <1>3, <1>9, FieldOf
<1> QED
  BY <1>2, <1>5, <1>7, <1>8, <1>9, <1>10, <1>11 DEF Promise!Create

(* A secret that is logged is spent.                                       *)
LEMMA LogSpends ==
  ASSUME RowsOK, NEW s \in Unused, NEW a \in AppIds, NEW raced \in BOOLEAN,
         secretLog' = Log(s, a, raced)
  PROVE  s \in Secrets \ spentBar /\ spentBar' = spentBar \cup {s}
<1>1. s \in Secrets /\ secretLog[s].app = None /\ a # None
  BY IdKinds, NoneIsApart DEF Unused
<1>2. Log(s, a, raced)[s].app = a /\ \A x \in Secrets \ {s} : Log(s, a, raced)[x].app = secretLog[x].app
  <2>1. Log(s, a, raced)[s] = [app |-> a, overtaken |-> 0, raced |-> raced]
    BY <1>1, LogFacts
  <2> QED
    BY <1>1, <2>1, LogFacts
<1>3. secretLog'[s].app = a /\ \A x \in Secrets \ {s} : secretLog'[x].app = secretLog[x].app
  BY <1>2
<1>4. \A x \in Secrets : x \in spentBar' <=> x = s \/ x \in spentBar
  BY <1>1, <1>3 DEF spentBar, Unused
<1>5. spentBar \subseteq Secrets /\ spentBar' \subseteq Secrets
  BY DEF spentBar
<1> QED
  BY <1>1, <1>4, <1>5 DEF spentBar

(* The insert of an app: its workspace is there, and its toss id is new.   *)
LEMMA CreateAppSeen ==
  ASSUME ServiceInv, NEW r \in Requests, CreateApp(r)
  PROVE  Promise!Create(r)
<1>1. /\ req[r].pc = "write" /\ req[r].op = "app.create" /\ Insertable(req[r].target, req[r].arg)
      /\ UNCHANGED <<workspaces, tokens, audit>>
  BY DEF CreateApp, At
<1>2. PICK a \in AppIds \ born, s \in Unused, d \in Details :
        /\ apps' = [apps EXCEPT ![a] = [workspace |-> req[r].target, toss |-> req[r].arg,
                                        details |-> d, raw |-> FALSE, hashes |-> <<s>>]]
        /\ born' = born \cup {a}
        /\ secretLog' = Log(s, a, FALSE)
        /\ Wrote(r, a, s)
  BY DEF CreateApp
<1>3. /\ req[r].op \in WorkspaceOps /\ req[r].op \notin CreateOps
      /\ req[r].target \in WorkspaceIds /\ req[r].arg \in TossIds
      /\ workspaces[req[r].target] # None /\ req[r].target # None
      /\ workspaces[req[r].target].owner = req[r].user
  <2>1. req[r].op \in WorkspaceOps /\ req[r].op \notin CreateOps
    BY <1>1 DEF WorkspaceOps, CreateOps
  <2>2. req[r].target \in WorkspaceIds /\ req[r].arg \in TossIds
    BY <1>1, <2>1, AtWrite DEF ArgsOf
  <2> QED
    BY <1>1, <2>1, <2>2, OwnedAtWrite, IdKinds, NoneIsApart DEF Insertable, OwnsIfThere
<1> DEFINE row == [workspace |-> req[r].target, toss |-> req[r].arg, details |-> d,
                   raw |-> FALSE, hashes |-> <<s>>]
<1>4. /\ row \in App /\ row # None /\ row.workspace = req[r].target /\ row.toss = req[r].arg
      /\ row.hashes = <<s>>
  <2>1. <<s>> \in Seq(Secrets)
    BY DEF Unused
  <2>2. row \in App
    BY <1>3, <2>1 DEF App
  <2> QED
    BY <2>2, NoneIsApart
<1> HIDE DEF row
<1>5. apps' = [apps EXCEPT ![a] = row] /\ a \in Ids
  BY <1>2, IdKinds DEF row
<1>6. apps'[a] = row /\ \A b \in AppIds \ {a} : apps'[b] = apps[b]
  BY <1>5 DEF ServiceInv, TypeOK, RowsOK
<1>7. /\ rowsBar' = [rowsBar EXCEPT ![a] = rowsBar'[a]]
      /\ rowsBar'[a] = [owner |-> OwnerOf(apps[a])', within |-> row.workspace,
                        secrets |-> row.hashes, fields |-> AppFields(row)]
  <2>1. Row(a)' = [owner |-> OwnerOf(apps[a])', within |-> row.workspace,
                   secrets |-> row.hashes, fields |-> AppFields(row)]
    BY <1>4, <1>6, RowsNext
  <2> QED
    BY <1>1, <1>5, <1>6, <2>1, OneRowChanges
<1>8. OwnerOf(apps[a])' = req[r].user
  BY <1>1, <1>3, <1>4, <1>6 DEF OwnerOf
<1>9. s \in Secrets \ spentBar /\ spentBar' = spentBar \cup {s}
  <2> DEFINE raced == FALSE
  <2>1. raced \in BOOLEAN /\ RowsOK
    BY DEF ServiceInv, TypeOK
  <2>2. secretLog' = Log(s, a, raced)
    BY <1>2
  <2> HIDE DEF raced
  <2> QED
    BY <2>1, <2>2, LogSpends
<1>10. /\ Promise!Admitted(r) /\ Promise!Acted(r, a) /\ askedBar[r].op = req[r].op
       /\ askedBar[r].target = req[r].target /\ askedBar[r].arg = req[r].arg
       /\ askedBar[r].by = req[r].user
  BY <1>1, <1>2, WroteSeen
<1>11. /\ rowsBar'[a] # None /\ rowsBar'[a].owner = req[r].user
       /\ rowsBar'[a].within = req[r].target /\ rowsBar'[a].secrets = <<s>>
       /\ rowsBar'[a].fields["toss"] = req[r].arg
  <2>1. AppFields(row)["toss"] = req[r].arg
    BY <1>4 DEF AppFields, Fields
  <2>2. rowsBar'[a] \in Rows
    <3>1. /\ row.workspace \in WorkspaceIds /\ row.hashes \in Seq(Secrets)
          /\ AppFields(row) \in [Fields -> Args] /\ req[r].user \in Users
      BY <1>1, <1>3, <1>4, AppFieldsType, AtWrite DEF App
    <3> QED
      BY <1>7, <1>8, <3>1 DEF Rows
  <2> QED
    BY <1>4, <1>7, <1>8, <2>1, <2>2, ApartAssumption
<1>12. Field[askedBar[r].op] = "toss" /\ askedBar[r].op \in CreateOps \cup {"app.create"}
  BY <1>1, <1>10, FieldOf
<1>13. Promise!Mine(r, req[r].target)
  BY <1>3, <1>10, SeenRows DEF Promise!Mine
<1>14. ASSUME NEW o \in Ids, rowsBar[o] # None, rowsBar[o].within = req[r].target
       PROVE  rowsBar[o].fields["toss"] # req[r].arg
  <2>1. o \in AppIds
    BY <1>3, <1>14, SeenRows DEF Ids
  <2>2. apps[o] # None /\ apps[o].workspace = req[r].target /\ rowsBar[o].fields = AppFields(apps[o])
    BY <1>14, <2>1, SeenRows
  <2>3. AppFields(apps[o])["toss"] = apps[o].toss
    BY DEF AppFields, Fields
  <2> QED
    BY <1>1, <2>1, <2>2, <2>3 DEF Insertable
<1> QED
  BY <1>2, <1>5, <1>7, <1>9, <1>10, <1>11, <1>12, <1>13, <1>14 DEF Promise!Create

ChangeOps == {"workspace.update", "app.update", "app.raw_tokens.toggle"}

(* An update of one column.                                                *)
LEMMA ChangeSeen ==
  ASSUME ServiceInv, NEW r \in Requests, req[r].pc = "write", req[r].op \in ChangeOps,
         NEW id, id = req[r].target, rowsBar[id] # None, Wrote(r, id, None),
         UNCHANGED <<audit, born, secretLog>>,
         rowsBar' = [rowsBar EXCEPT ![id] = rowsBar'[id]],
         rowsBar'[id] = [owner |-> rowsBar[id].owner, within |-> rowsBar[id].within,
                         secrets |-> rowsBar[id].secrets,
                         fields |-> [rowsBar[id].fields EXCEPT ![Field[req[r].op]] = req[r].arg]]
  PROVE  Promise!Change(r)
<1>1. req[r].op \notin CreateOps
  BY DEF ChangeOps, CreateOps
<1>2. /\ Promise!Admitted(r) /\ Promise!Acted(r, id) /\ askedBar[r].op = req[r].op
      /\ askedBar[r].target = id /\ askedBar[r].arg = req[r].arg /\ askedBar[r].by = req[r].user
  BY WroteSeen
<1>3. id \in Ids /\ Promise!Mine(r, id)
  BY <1>1, <1>2, MineAtWrite
<1>4. rowsBar[id] \in Rows
  BY <1>3, RowFacts
<1> DEFINE row == rowsBar[id]
           fields == [row.fields EXCEPT ![Field[req[r].op]] = req[r].arg]
<1>5. rowsBar'[id] = [row EXCEPT !.fields = fields]
  <2>1. row \in Rows /\ rowsBar'[id] = [owner |-> row.owner, within |-> row.within,
                                        secrets |-> row.secrets, fields |-> fields]
    BY <1>4
  <2> HIDE DEF row, fields
  <2> QED
    BY <2>1 DEF Rows
<1>6. rowsBar' = [rowsBar EXCEPT ![id].fields[Field[req[r].op]] = req[r].arg]
  BY <1>5
<1>7. UNCHANGED <<born, spentBar>>
  BY DEF spentBar, Unused
<1> QED
  BY <1>2, <1>3, <1>6, <1>7 DEF Promise!Change, ChangeOps

LEMMA UpdateWorkspaceSeen ==
  ASSUME ServiceInv, NEW r \in Requests, UpdateWorkspace(r)
  PROVE  Promise!Change(r)
<1>1. /\ req[r].pc = "write" /\ req[r].op = "workspace.update"
      /\ UNCHANGED <<apps, tokens, audit, born, secretLog>>
  BY DEF UpdateWorkspace, At, history
<1>2. PICK w \in WorkspaceIds : w = req[r].target
  BY <1>1, AtWrite DEF WorkspaceOps
<1>3. /\ workspaces[w] # None /\ Wrote(r, w, None)
      /\ workspaces' = [workspaces EXCEPT ![w].name = req[r].arg]
  BY <1>2 DEF UpdateWorkspace
<1>4. req[r].arg \in Names
  BY <1>1, AtWrite DEF ArgsOf
<1> DEFINE row == [workspaces[w] EXCEPT !.name = req[r].arg]
<1>5. /\ workspaces \in [WorkspaceIds -> Workspace \cup {None}] /\ workspaces[w] \in Workspace
      /\ row \in Workspace /\ row # None /\ row.owner = workspaces[w].owner /\ row.name = req[r].arg
  BY <1>3, <1>4, NoneIsApart DEF Workspace, ServiceInv, TypeOK, RowsOK
<1>6. workspaces' = [workspaces EXCEPT ![w] = row]
  BY <1>3, <1>5
<1> HIDE DEF row
<1>7. workspaces'[w] = row /\ \A v \in WorkspaceIds \ {w} : workspaces'[v] = workspaces[v]
  BY <1>5, <1>6
<1>8. Row(w)' = WorkspaceRow(row)
  BY <1>5, <1>7, RowsNext
<1>9. rowsBar' = [rowsBar EXCEPT ![w] = rowsBar'[w]] /\ rowsBar'[w] = WorkspaceRow(row)
  BY <1>1, <1>3, <1>5, <1>7, <1>8, IdKinds, OneRowChanges
<1>10. rowsBar[w] # None /\ rowsBar[w] = WorkspaceRow(workspaces[w])
  BY <1>3, SeenRows
<1>11. WorkspaceRow(row).fields = [WorkspaceRow(workspaces[w]).fields EXCEPT !["name"] = req[r].arg]
  BY <1>5, WorkspaceShape
<1>12. WorkspaceRow(row) = [owner |-> WorkspaceRow(workspaces[w]).owner,
                            within |-> WorkspaceRow(workspaces[w]).within,
                            secrets |-> WorkspaceRow(workspaces[w]).secrets,
                            fields |-> WorkspaceRow(row).fields]
  BY <1>5, WorkspaceShape DEF Rows
<1> QED
  BY <1>1, <1>2, <1>3, <1>9, <1>10, <1>11, <1>12, FieldOf, ChangeSeen DEF ChangeOps

(* A patch of an app that leaves its workspace and hashes alone.           *)
LEMMA PatchSeen ==
  ASSUME ServiceInv, NEW r \in Requests, req[r].pc = "write",
         req[r].op \in {"app.update", "app.raw_tokens.toggle"},
         NEW a \in AppIds, a = req[r].target, apps[a] # None,
         NEW row \in App, row.workspace = apps[a].workspace, row.hashes = apps[a].hashes,
         AppFields(row) = [AppFields(apps[a]) EXCEPT ![Field[req[r].op]] = req[r].arg],
         apps' = [apps EXCEPT ![a] = row], Wrote(r, a, None),
         UNCHANGED <<workspaces, tokens, audit, born, secretLog>>
  PROVE  Promise!Change(r)
<1>1. row # None /\ apps'[a] = row /\ \A b \in AppIds \ {a} : apps'[b] = apps[b]
  BY NoneIsApart DEF ServiceInv, TypeOK, RowsOK
<1>2. OwnerOf(apps[a])' = OwnerOf(apps[a])
  BY <1>1 DEF OwnerOf
<1>3. Row(a)' = [owner |-> OwnerOf(apps[a]), within |-> row.workspace, secrets |-> row.hashes,
                 fields |-> AppFields(row)]
  BY <1>1, <1>2, RowsNext
<1>4. rowsBar' = [rowsBar EXCEPT ![a] = rowsBar'[a]] /\ rowsBar'[a] = Row(a)'
  BY <1>1, IdKinds, OneRowChanges
<1>5. /\ rowsBar[a] # None /\ rowsBar[a].owner = OwnerOf(apps[a])
      /\ rowsBar[a].within = apps[a].workspace
      /\ rowsBar[a].secrets = apps[a].hashes /\ rowsBar[a].fields = AppFields(apps[a])
  BY SeenRows
<1>6. rowsBar'[a] = [owner |-> rowsBar[a].owner, within |-> rowsBar[a].within,
                     secrets |-> rowsBar[a].secrets,
                     fields |-> [rowsBar[a].fields EXCEPT ![Field[req[r].op]] = req[r].arg]]
  BY <1>3, <1>4, <1>5
<1> QED
  BY <1>4, <1>5, <1>6, ChangeSeen DEF ChangeOps

LEMMA UpdateAppSeen ==
  ASSUME ServiceInv, NEW r \in Requests, UpdateApp(r) \/ ToggleRawTokens(r)
  PROVE  Promise!Change(r)
<1>1. /\ req[r].pc = "write" /\ req[r].op \in {"app.update", "app.raw_tokens.toggle"}
      /\ UNCHANGED <<workspaces, tokens, audit, born, secretLog>>
  BY DEF UpdateApp, ToggleRawTokens, At, history
<1>2. req[r].op \in AppOps
  BY <1>1 DEF AppOps
<1>3. PICK a \in AppIds : a = req[r].target
  BY <1>1, <1>2, AtWrite
<1>4. apps[a] # None /\ Wrote(r, a, None) /\ apps[a] \in App
  BY <1>3 DEF UpdateApp, ToggleRawTokens, StoredRow, ServiceInv, TypeOK, RowsOK
<1>5. CASE UpdateApp(r)
  <2>1. req[r].arg \in Details /\ req[r].op = "app.update"
    BY <1>1, <1>5, AtWrite DEF ArgsOf, UpdateApp, At
  <2> DEFINE row == [apps[a] EXCEPT !.details = req[r].arg]
  <2>2. /\ row \in App /\ row.workspace = apps[a].workspace /\ row.hashes = apps[a].hashes
        /\ row.toss = apps[a].toss /\ row.raw = apps[a].raw /\ row.details = req[r].arg
    BY <1>4, <2>1 DEF App
  <2>3. apps' = [apps EXCEPT ![a] = row]
    BY <1>3, <1>5 DEF UpdateApp, StoredRow
  <2> HIDE DEF row
  <2>4. AppFields(row) = [AppFields(apps[a]) EXCEPT !["details"] = req[r].arg]
    BY <2>2 DEF AppFields, Fields
  <2>5. AppFields(row) = [AppFields(apps[a]) EXCEPT ![Field[req[r].op]] = req[r].arg]
    BY <2>1, <2>4, FieldOf
  <2> QED
    BY <1>1, <1>3, <1>4, <2>2, <2>3, <2>5, PatchSeen
<1>6. CASE ToggleRawTokens(r)
  <2>1. req[r].arg \in BOOLEAN /\ req[r].op = "app.raw_tokens.toggle"
    BY <1>1, <1>6, AtWrite DEF ArgsOf, ToggleRawTokens, At
  <2> DEFINE row == [apps[a] EXCEPT !.raw = req[r].arg]
  <2>2. /\ row \in App /\ row.workspace = apps[a].workspace /\ row.hashes = apps[a].hashes
        /\ row.toss = apps[a].toss /\ row.raw = req[r].arg /\ row.details = apps[a].details
    BY <1>4, <2>1 DEF App
  <2>3. apps' = [apps EXCEPT ![a] = row]
    BY <1>3, <1>6 DEF ToggleRawTokens, StoredRow
  <2> HIDE DEF row
  <2>4. AppFields(row) = [AppFields(apps[a]) EXCEPT !["raw"] = req[r].arg]
    BY <2>2 DEF AppFields, Fields
  <2>5. AppFields(row) = [AppFields(apps[a]) EXCEPT ![Field[req[r].op]] = req[r].arg]
    BY <2>1, <2>4, FieldOf
  <2> QED
    BY <1>1, <1>3, <1>4, <2>2, <2>3, <2>5, PatchSeen
<1> QED
  BY <1>5, <1>6

(* A rotation keeps what was the newest secret when it read the app.       *)
LEMMA RotateSeen ==
  ASSUME ServiceInv, NEW r \in Requests, RotateSecret(r)
  PROVE  Promise!Rotate(r)
<1>1. /\ req[r].pc = "write" /\ req[r].op = RotateOp /\ req[r].op \in AppOps
      /\ req[r].op \notin CreateOps
      /\ UNCHANGED <<workspaces, tokens, audit, born>>
  BY OpsApart DEF RotateSecret, At
<1>2. PICK a \in AppIds : a = req[r].target
  BY <1>1, AtWrite
<1> DEFINE before == req[r].row.hashes
<1>3. apps \in [AppIds -> App \cup {None}] /\ apps[a] # None /\ apps[a] \in App
  BY <1>2 DEF RotateSecret, StoredRow, ServiceInv, TypeOK, RowsOK
<1>4. PICK s \in Unused, raced \in BOOLEAN :
        /\ apps' = [apps EXCEPT ![a] = [apps[a] EXCEPT !.hashes = Rotated(before, s)]]
        /\ secretLog' = Log(s, a, raced)
        /\ Wrote(r, a, s)
  BY <1>2 DEF RotateSecret, StoredRow
<1>5. before \in Seq(Secrets) /\ Len(before) \in 1..2
  BY <1>1, AtWrite DEF App
<1> DEFINE hashes == <<Newest(before), s>>
           row == [apps[a] EXCEPT !.hashes = hashes]
<1>6. hashes \in Seq(Secrets) /\ Rotated(before, s) = hashes
  BY <1>5, NewestIsMember DEF Unused, Rotated, Newest
<1> HIDE DEF hashes
<1>7. /\ row \in App /\ row # None /\ row.workspace = apps[a].workspace /\ row.hashes = hashes
      /\ row.toss = apps[a].toss /\ row.raw = apps[a].raw /\ row.details = apps[a].details
  BY <1>3, <1>6, NoneIsApart DEF App
<1>8. apps' = [apps EXCEPT ![a] = row]
  BY <1>4, <1>6
<1> HIDE DEF row
<1>9. apps'[a] = row /\ \A b \in AppIds \ {a} : apps'[b] = apps[b]
  BY <1>3, <1>8
<1>10. OwnerOf(apps[a])' = OwnerOf(apps[a])
  BY <1>1, <1>7, <1>9 DEF OwnerOf
<1>11. AppFields(row) = AppFields(apps[a])
  BY <1>7, Zenon DEF AppFields
<1>12. Row(a)' = [owner |-> OwnerOf(apps[a]), within |-> apps[a].workspace, secrets |-> hashes,
                  fields |-> AppFields(apps[a])]
  BY <1>7, <1>9, <1>10, <1>11, RowsNext
<1>13. rowsBar' = [rowsBar EXCEPT ![a] = rowsBar'[a]] /\ rowsBar'[a] = Row(a)'
  BY <1>1, <1>9, IdKinds, OneRowChanges
<1>14. /\ Promise!Admitted(r) /\ Promise!Acted(r, a) /\ askedBar[r].op = RotateOp
       /\ askedBar[r].target = a /\ askedBar[r].by = req[r].user
       /\ askedBar[r].keep = Newest(before) /\ askedBar[r].keep # None
  BY <1>1, <1>2, <1>4, WroteSeen
<1>15. /\ rowsBar[a] # None /\ rowsBar[a].owner = OwnerOf(apps[a])
       /\ rowsBar[a].within = apps[a].workspace
       /\ rowsBar[a].secrets = apps[a].hashes /\ rowsBar[a].fields = AppFields(apps[a])
       /\ rowsBar[a] \in Rows
  BY <1>3, SeenRows, RowFacts, IdKinds
<1>16. rowsBar'[a] = [rowsBar[a] EXCEPT !.secrets = hashes]
  BY <1>12, <1>13, <1>15 DEF Rows
<1>17. rowsBar' = [rowsBar EXCEPT ![a].secrets = <<askedBar[r].keep, s>>]
  BY <1>13, <1>14, <1>16 DEF hashes
<1>18. Promise!Mine(r, a)
  BY <1>1, <1>2, <1>14, <1>15, MineAtWrite
<1>19. s \in Secrets \ spentBar /\ spentBar' = spentBar \cup {s}
  BY <1>4, LogSpends DEF ServiceInv, TypeOK
<1> QED
  BY <1>1, <1>14, <1>17, <1>18, <1>19 DEF Promise!Rotate

(* A deletion takes the row and what is in it, and nothing else.           *)
Falls(r, id) ==
  id = req[r].target \/ (rowsBar[id] # None /\ rowsBar[id].within = req[r].target)

LEMMA RemoveSeen ==
  ASSUME ServiceInv, NEW r \in Requests, req[r].pc = "write", req[r].op \in Deletions,
         Wrote(r, req[r].target, None), UNCHANGED <<audit, born, secretLog>>,
         \A id \in Ids : Row(id)' = IF Falls(r, id) THEN None ELSE Row(id)
  PROVE  Promise!Remove(r)
<1>1. req[r].op \notin CreateOps
  BY DEF Deletions, CreateOps
<1>2. /\ Promise!Admitted(r) /\ Promise!Acted(r, req[r].target) /\ askedBar[r].op = req[r].op
      /\ askedBar[r].target = req[r].target /\ askedBar[r].by = req[r].user
  BY WroteSeen
<1>3. rowsBar[req[r].target] # None => Promise!Mine(r, req[r].target)
  BY <1>1, <1>2, MineAtWrite
<1>4. rowsBar' = [id \in Ids |-> IF Falls(r, id) THEN None ELSE rowsBar[id]]
  BY DEF rowsBar
<1>5. UNCHANGED <<born, spentBar>>
  BY DEF spentBar, Unused
<1> QED
  BY <1>2, <1>3, <1>4, <1>5 DEF Promise!Remove, Falls

LEMMA DeleteWorkspaceSeen ==
  ASSUME ServiceInv, NEW r \in Requests, DeleteWorkspace(r)
  PROVE  Promise!Remove(r)
<1>1. /\ req[r].pc = "write" /\ req[r].op = "workspace.delete" /\ req[r].op \in Deletions
      /\ UNCHANGED <<tokens, audit, born, secretLog>>
  BY DEF DeleteWorkspace, At, history, Deletions
<1>2. PICK w \in WorkspaceIds : w = req[r].target
  BY <1>1, AtWrite DEF WorkspaceOps
<1>3. /\ workspaces' = [workspaces EXCEPT ![w] = None] /\ Wrote(r, w, None)
      /\ apps' = [a \in AppIds |-> IF apps[a] # None /\ apps[a].workspace = w
                                   THEN None ELSE apps[a]]
  BY <1>2 DEF DeleteWorkspace
<1>4. w # None
  BY IdKinds, NoneIsApart
<1>5. ASSUME NEW v \in WorkspaceIds
      PROVE  Row(v)' = IF Falls(r, v) THEN None ELSE Row(v)
  <2>1. CASE v = w
    <3>1. workspaces'[v] = None
      BY <1>3, <2>1 DEF ServiceInv, TypeOK, RowsOK
    <3> QED
      BY <1>2, <2>1, <3>1, RowsNext DEF Falls
  <2>2. CASE v # w
    <3>1. workspaces'[v] = workspaces[v]
      BY <1>3, <2>2 DEF ServiceInv, TypeOK, RowsOK
    <3>2. ~Falls(r, v)
      BY <1>2, <1>4, <2>2, SeenRows DEF Falls
    <3> QED
      BY <3>1, <3>2, RowStays
  <2> QED
    BY <2>1, <2>2
<1>6. ASSUME NEW a \in AppIds
      PROVE  Row(a)' = IF Falls(r, a) THEN None ELSE Row(a)
  <2>1. Falls(r, a) <=> apps[a] # None /\ apps[a].workspace = w
    BY <1>2, SeenRows, ServiceAssumption DEF Falls
  <2>2. CASE Falls(r, a)
    <3>1. apps'[a] = None
      BY <1>3, <2>1, <2>2
    <3> QED
      BY <2>2, <3>1, RowsNext
  <2>3. CASE ~Falls(r, a)
    <3>1. apps'[a] = apps[a]
      BY <1>3, <2>1, <2>3
    <3>2. apps[a] # None => OwnerOf(apps[a])' = OwnerOf(apps[a])
      <4>1. apps[a] # None => apps[a].workspace \in WorkspaceIds
        BY DEF ServiceInv, TypeOK, RowsOK, App
      <4>2. apps[a] # None => workspaces'[apps[a].workspace] = workspaces[apps[a].workspace]
        BY <1>3, <2>1, <2>3, <4>1 DEF ServiceInv, TypeOK, RowsOK
      <4> QED
        BY <3>1, <4>2 DEF OwnerOf
    <3> QED
      BY <2>3, <3>1, <3>2, RowStays
  <2> QED
    BY <2>2, <2>3
<1>7. ASSUME NEW t \in TokenIds
      PROVE  Row(t)' = IF Falls(r, t) THEN None ELSE Row(t)
  <2>1. ~Falls(r, t)
    BY <1>2, <1>4, SeenRows, ServiceAssumption DEF Falls
  <2> QED
    BY <1>1, <2>1, RowStays
<1>8. \A id \in Ids : Row(id)' = IF Falls(r, id) THEN None ELSE Row(id)
  BY <1>5, <1>6, <1>7 DEF Ids
<1> QED
  BY <1>1, <1>2, <1>3, <1>8, RemoveSeen

(* Nothing is in an app or in a token.                                     *)
LEMMA OnlyWorkspacesHold ==
  ASSUME ServiceInv, NEW r \in Requests, req[r].target \in AppIds \cup TokenIds, NEW id \in Ids
  PROVE  Falls(r, id) <=> id = req[r].target
<1>1. rowsBar[id] # None => rowsBar[id].within \in WorkspaceIds \cup {None}
  BY SeenRows DEF ServiceInv, TypeOK, RowsOK, App, Ids
<1>2. req[r].target \notin WorkspaceIds \cup {None}
  BY ServiceAssumption, IdKinds, NoneIsApart
<1> QED
  BY <1>1, <1>2 DEF Falls

LEMMA DeleteAppSeen ==
  ASSUME ServiceInv, NEW r \in Requests, DeleteApp(r)
  PROVE  Promise!Remove(r)
<1>1. /\ req[r].pc = "write" /\ req[r].op = "app.delete" /\ req[r].op \in Deletions
      /\ req[r].op \in AppOps /\ UNCHANGED <<workspaces, tokens, audit, born, secretLog>>
  BY DEF DeleteApp, At, history, Deletions, AppOps
<1>2. PICK a \in AppIds : a = req[r].target
  BY <1>1, AtWrite
<1>3. apps' = [apps EXCEPT ![a] = None] /\ Wrote(r, a, None)
  BY <1>2 DEF DeleteApp
<1>4. apps'[a] = None /\ \A b \in AppIds \ {a} : apps'[b] = apps[b]
  BY <1>3 DEF ServiceInv, TypeOK, RowsOK
<1>5. Row(a)' = None
  BY <1>4, RowsNext
<1>6. ASSUME NEW b \in AppIds \ {a} PROVE Row(b)' = Row(b)
  <2>1. apps[b] # None => OwnerOf(apps[b])' = OwnerOf(apps[b])
    BY <1>1, <1>4 DEF OwnerOf
  <2> QED
    BY <1>4, <2>1, RowStays
<1>7. \A id \in Ids : id # a => Row(id)' = Row(id)
  BY <1>1, <1>6, RowStays DEF Ids
<1>8. \A id \in Ids : Falls(r, id) <=> id = a
  BY <1>2, OnlyWorkspacesHold
<1> QED
  BY <1>1, <1>2, <1>3, <1>5, <1>7, <1>8, RemoveSeen

LEMMA DeleteTokenSeen ==
  ASSUME ServiceInv, NEW r \in Requests, DeleteToken(r)
  PROVE  Promise!Remove(r)
<1>1. /\ req[r].pc = "write" /\ req[r].op = "api_token.delete" /\ req[r].op \in Deletions
      /\ UNCHANGED <<workspaces, apps, audit, born, secretLog>>
  BY DEF DeleteToken, At, history, Deletions
<1>2. PICK t \in TokenIds : t = req[r].target
  BY <1>1, AtWrite
<1>3. tokens' = [tokens EXCEPT ![t] = None] /\ Wrote(r, t, None)
  BY <1>2 DEF DeleteToken, WithoutToken
<1>4. tokens'[t] = None /\ \A s \in TokenIds \ {t} : tokens'[s] = tokens[s]
  BY <1>3 DEF ServiceInv, TypeOK, RowsOK
<1>5. Row(t)' = None
  BY <1>4, RowsNext
<1>6. \A a \in AppIds : OwnerOf(apps[a])' = OwnerOf(apps[a])
  BY <1>1 DEF OwnerOf
<1>7. \A id \in Ids : id # t => Row(id)' = Row(id)
  BY <1>1, <1>4, <1>6, RowStays DEF Ids
<1>8. \A id \in Ids : Falls(r, id) <=> id = t
  BY <1>2, OnlyWorkspacesHold
<1> QED
  BY <1>1, <1>2, <1>3, <1>5, <1>7, <1>8, RemoveSeen

-----------------------------------------------------------------------------
(* The first rows: the tokens that the CLI made.                           *)
LEMMA InitSeen == Init => Promise!Init
<1> SUFFICES ASSUME Init PROVE Promise!Init
  OBVIOUS
<1>1. ServiceInv
  BY InitServes
<1>2. /\ \A w \in WorkspaceIds : workspaces[w] = None
      /\ \A a \in AppIds : apps[a] = None
      /\ \A t \in TokenIds : tokens[t] # None <=> t \in born
      /\ born \subseteq TokenIds
  <2>1. \A u \in Users : FirstToken[u] \in TokenIds
    BY ServiceAssumption
  <2>2. ASSUME NEW t \in TokenIds PROVE tokens[t] # None <=> t \in born
    <3>1. CASE \E u \in Users : FirstToken[u] = t
      <4>1. tokens[t] = [user |-> CHOOSE u \in Users : FirstToken[u] = t, admin |-> TRUE]
        BY <3>1 DEF Init
      <4>2. (CHOOSE u \in Users : FirstToken[u] = t) \in Users
        BY <3>1
      <4>3. tokens[t] \in ApiToken
        BY <4>1, <4>2 DEF ApiToken
      <4> QED
        BY <3>1, <4>3, NoneIsApart DEF Init
    <3>2. CASE ~\E u \in Users : FirstToken[u] = t
      BY <3>2 DEF Init
    <3> QED
      BY <3>1, <3>2
  <2> QED
    BY <2>1, <2>2 DEF Init
<1>3. rowsBar \in [Ids -> Rows \cup {None}]
  BY <1>1, RowFacts
<1>4. ASSUME NEW id \in Ids
      PROVE  /\ rowsBar[id] # None <=> id \in born
             /\ rowsBar[id] # None => rowsBar[id].secrets = <<>>
  <2>1. CASE id \in WorkspaceIds \cup AppIds
    BY <1>1, <1>2, <2>1, SeenRows, ServiceAssumption
  <2>2. CASE id \in TokenIds
    <3>1. rowsBar[id] # None <=> tokens[id] # None
      BY <1>1, <2>2, SeenRows
    <3>2. rowsBar[id] # None => rowsBar[id] = TokenRow(tokens[id]) /\ tokens[id] \in ApiToken
      BY <1>1, <2>2, <3>1, RowFacts
    <3>3. rowsBar[id] # None => rowsBar[id].secrets = <<>>
      BY <3>2, TokenShape
    <3> QED
      BY <1>2, <2>2, <3>1, <3>3
  <2> QED
    BY <2>1, <2>2 DEF Ids
<1>5. born = {id \in Ids : rowsBar[id] # None}
  BY <1>2, <1>4, IdKinds
<1>6. spentBar = {} /\ audit = {}
  BY DEF Init, spentBar, Unused
<1>7. /\ askedBar = [x \in Requests |-> None] /\ doneBar = [x \in Requests |-> None]
  BY SlotBars, Unasked DEF Init
<1> QED
  BY <1>3, <1>4, <1>5, <1>6, <1>7 DEF Promise!Init

LEMMA WritesSeen ==
  ASSUME ServiceInv, NEW r \in Requests, Write(r)
  PROVE  Promise!Create(r) \/ Promise!Change(r) \/ Promise!Rotate(r) \/ Promise!Remove(r)
BY CreateWorkspaceSeen, UpdateWorkspaceSeen, DeleteWorkspaceSeen, CreateAppSeen, UpdateAppSeen,
   RotateSeen, DeleteAppSeen, CreateTokenSeen, DeleteTokenSeen DEF Write

LEMMA StepSeen == ServiceInv /\ ServiceInv' /\ [Next]_vars => [Promise!Next]_Promise!rvars
<1> SUFFICES ASSUME ServiceInv, ServiceInv', [Next]_vars PROVE SeenByRegistry
  BY DEF SeenByRegistry
<1>1. CASE UNCHANGED vars
  <2>1. rowsBar' = rowsBar /\ UNCHANGED <<audit, born, spentBar>>
    BY <1>1, NoRowChanges DEF vars, tables, spentBar, Unused
  <2>2. askedBar' = askedBar /\ doneBar' = doneBar
    BY <1>1, SlotBars DEF vars
  <2> QED
    BY <2>1, <2>2 DEF SeenByRegistry, Promise!rvars
<1>2. ASSUME NEW r \in Requests, Handle(r) PROVE SeenByRegistry
  <2>1. CASE Write(r)
    BY <2>1, WritesSeen DEF SeenByRegistry, Promise!Next
  <2>2. CASE AppendAudit(r)
    BY <2>2, AuditSeen DEF SeenByRegistry, Promise!Next
  <2>3. CASE CheckToken(r) \/ ReadApp(r) \/ ReadWorkspace(r) \/ ReadTokens(r) \/ Fail(r)
    BY <2>3, ReadsSeen DEF SeenByRegistry, Promise!Next
  <2> QED
    BY <1>2, <2>1, <2>2, <2>3 DEF Handle
<1>3. ASSUME NEW r \in Requests, NEW op \in Offered, Send(r, op) PROVE SeenByRegistry
  BY <1>3, SendSeen DEF SeenByRegistry, Promise!Next
<1> QED
  BY <1>1, <1>2, <1>3 DEF Next

(* Whatever interleaves between the reads of a handler and its write, the  *)
(* request takes effect at one instant, at which its user owns the row,    *)
(* and in its own field only (getOwnedWorkspace, getOwnedApp and the       *)
(* updates of src/apps/service.ts).                                        *)
THEOREM RegistryHolds == Spec => RegistryKept
<1>1. ServiceInv /\ [Next]_vars => ServiceInv'
  BY NextServes
<1> QED
  BY <1>1, AlwaysServes, InitSeen, StepSeen, PTL DEF Spec, RegistryKept, Promise!Spec

=============================================================================
