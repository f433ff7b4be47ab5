--------------------------- MODULE OidcRefinement --------------------------
(***************************************************************************)
(* The handlers of OidcEndpoints keep the promise of OidcPromise.          *)
(***************************************************************************)
EXTENDS OidcEndpoints

(* What a slot holding q looks like from outside.                          *)
Phase(q) == CASE q.pc \in Steps -> "open" [] q.pc = "done" -> "closed" [] OTHER -> "idle"

Asking(q) == IF q.pc \in Steps
             THEN [kind |-> q.kind, at |-> q.at, app |-> q.app, cred |-> q.cred, tok |-> q.tok]
             ELSE None

(* A request may be served once its handler has passed its checks.  Between *)
(* the row read and the revocation check that holds as long as the token   *)
(* is not in the revocation sets rv: they only grow while a request lives, *)
(* so a token that passes the check was not in them at the row read.  A    *)
(* token of another app fails to unwrap.                                   *)
Cleared(q, rv) ==
  \/ q.pc \in Steps \ {"row", "check", "unwrap"}
  \/ /\ q.pc \in {"check", "unwrap"} /\ q.tok.app = q.app
     /\ q.pc = "check" => q.tok \notin rv[q.at]

phaseBar == [r \in Requests |-> Phase(req[r])]
askBar == [r \in Requests |-> Asking(req[r])]
mayBar == [r \in Requests |-> Cleared(req[r], revoked)]
saidBar == [r \in Requests |-> req[r].answer]

Asks == [kind : Kinds, at : Instances, app : Apps \cup {None},
         cred : Credentials \cup {None}, tok : Token \cup {Junk, None}]

Promise == INSTANCE OidcPromise WITH
  Rows <- AppRow, registry <- apps,
  phase <- phaseBar, ask <- askBar, may <- mayBar, said <- saidBar

(* Every request that is served was entitled to it at one instant between  *)
(* its arrival and its answer: the app row present, verified, accepting    *)
(* the credential (or with raw tokens on) while the token was not revoked. *)
PromiseKept == Promise!Spec

=============================================================================
