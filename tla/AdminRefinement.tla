--------------------------- MODULE AdminRefinement --------------------------
(***************************************************************************)
(* The handlers of AdminService keep the promise of Registry.              *)
(***************************************************************************)
EXTENDS AdminService

(* The field that an operation sets, and all of them as one shape of row.  *)
Fields == {"name", "toss", "details", "raw", "admin"}
Field == [op \in Ops |->
            CASE op \in {"workspace.create", "workspace.update"} -> "name"
              [] op = "app.create" -> "toss"
              [] op = "app.raw_tokens.toggle" -> "raw"
              [] op = "api_token.create" -> "admin"
              [] OTHER -> "details"]

Rows == [owner : Users, within : WorkspaceIds \cup {None}, fields : [Fields -> Args],
         secrets : Seq(Secrets)]
Questions == [op : Ops, token : TokenIds, target : Ids \cup {None}, arg : Args,
              by : Users \cup {None}, keep : Secrets \cup {None}]

ASSUME ApartAssumption ==
  /\ None \notin Rows /\ None \notin Questions
  /\ None \notin [actor : Users, action : Ops, target : Ids]

WorkspaceRow(row) ==
  [owner |-> row.owner, within |-> None, secrets |-> <<>>,
   fields |-> [f \in Fields |-> IF f = "name" THEN row.name ELSE None]]

AppRow(row) ==
  [owner |-> OwnerOf(row), within |-> row.workspace, secrets |-> row.hashes,
   fields |-> [f \in Fields |-> CASE f = "toss" -> row.toss
                                  [] f = "details" -> row.details
                                  [] f = "raw" -> row.raw
                                  [] OTHER -> None]]

TokenRow(row) ==
  [owner |-> row.user, within |-> None, secrets |-> <<>>,
   fields |-> [f \in Fields |-> IF f = "admin" THEN row.admin ELSE None]]

Row(id) ==
  IF RowOf(id) = None THEN None
  ELSE CASE id \in WorkspaceIds -> WorkspaceRow(workspaces[id])
         [] id \in AppIds -> AppRow(apps[id])
         [] OTHER -> TokenRow(tokens[id])

(* A question lasts until the write; its user is known after the token was *)
(* looked up, what a rotation keeps after the app was read.                *)
Asking(q) ==
  IF q.pc \in {"idle", "audit"} THEN None
  ELSE [op |-> q.op, token |-> q.token, target |-> q.target, arg |-> q.arg,
        by |-> IF q.pc = "token" THEN None ELSE q.user,
        keep |-> IF q.op = RotateOp /\ q.pc \in {"workspace", "write"}
                 THEN Newest(q.row.hashes) ELSE None]

rowsBar == [id \in Ids |-> Row(id)]
spentBar == Secrets \ Unused
askedBar == [r \in Requests |-> Asking(req[r])]
doneBar == [r \in Requests |-> IF req[r].pc = "audit" THEN Entry(r) ELSE None]

Promise == INSTANCE Registry WITH
  Creates <- CreateOps \cup {"app.create"},
  Changes <- {"workspace.update", "app.update", "app.raw_tokens.toggle"},
  Removes <- Deletions, Rotation <- RotateOp,
  rows <- rowsBar, used <- born, spent <- spentBar, asked <- askedBar, done <- doneBar

(* Every request of the admin REST takes effect at one instant, at which   *)
(* its user owns the row it is about, and in its own field only: no check  *)
(* is too old and no update of another is lost, except that a rotation     *)
(* keeps the secret that was newest when it read the app.                  *)
RegistryKept == Promise!Spec

=============================================================================
