------------------------------ MODULE Registry ------------------------------
(***************************************************************************)
(* What the admin REST promises: although a handler looks its token up,    *)
(* then reads the app, then its workspace, and writes later still, what a  *)
(* request changes it changes at ONE instant, at which its user owns the   *)
(* row, in the one field it is about, and in no other row.                 *)
(*                                                                         *)
(* Two things may be older than that instant, but not than the request:    *)
(* the token was an admin's (Admit), and the secret that a rotation keeps  *)
(* was the newest one (Consider).                                          *)
(***************************************************************************)
EXTENDS Naturals, Sequences

CONSTANTS
  Users, Ids, Secrets, Requests,
  Creates, Changes, Removes, Rotation,   \* the operations
  Field,       \* the field that a creation or a change sets
  Rows,        \* [owner, within, fields, secrets]: within is the row it goes with
  Questions,   \* [op, token, target, arg, by, keep]
  None

VARIABLES
  rows,    \* of each id: its row or None
  used,    \* ids that were given out
  spent,   \* secrets that were given out
  audit,   \* what was recorded
  asked,   \* of each request: its question until it is done
  done     \* of each request: what is done and not recorded yet

rvars == <<asked, done, audit, used, spent, rows>>

(* The registry begins with rows that have no secrets.                     *)
Init ==
  /\ rows \in [Ids -> Rows \cup {None}]
  /\ \A id \in Ids : rows[id] # None => rows[id].secrets = <<>>
  /\ used = {id \in Ids : rows[id] # None} /\ spent = {} /\ audit = {}
  /\ asked = [r \in Requests |-> None]
  /\ done = [r \in Requests |-> None]

Ask(r) ==
  /\ asked[r] = None /\ done[r] = None
  /\ asked'[r] \in Questions /\ asked'[r].by = None /\ asked'[r].keep = None
  /\ asked' = [asked EXCEPT ![r] = asked'[r]]
  /\ UNCHANGED <<done, audit, used, spent, rows>>

Admit(r) ==
  LET row == rows[asked[r].token] IN
  /\ asked[r] # None /\ asked[r].by = None
  /\ row # None /\ row.fields["admin"] = TRUE
  /\ asked' = [asked EXCEPT ![r].by = row.owner]
  /\ UNCHANGED <<done, audit, used, spent, rows>>

Newest(secrets) == secrets[Len(secrets)]

Consider(r) ==
  LET row == rows[asked[r].target] IN
  /\ asked[r] # None /\ asked[r].op = Rotation /\ asked[r].by # None
  /\ row # None
  /\ asked' = [asked EXCEPT ![r].keep = Newest(row.secrets)]
  /\ UNCHANGED <<done, audit, used, spent, rows>>

-----------------------------------------------------------------------------
(* The effects.  Whether the request will also say so is open: it may end  *)
(* with its effect unrecorded.                                             *)

Admitted(r) == asked[r] # None /\ asked[r].by # None

Mine(r, id) == rows[id] # None /\ rows[id].owner = asked[r].by

Acted(r, id) ==
  /\ asked' = [asked EXCEPT ![r] = None]
  /\ \/ done' = [done EXCEPT ![r] = [actor |-> asked[r].by, action |-> asked[r].op,
                                     target |-> id]]
     \/ done' = done
  /\ UNCHANGED audit

(* A new row has what was asked for, in a row of its user if it goes with  *)
(* one, where no other has the same.                                       *)
Create(r) ==
  LET q == asked[r] IN
  /\ Admitted(r) /\ q.op \in Creates
  /\ q.target # None =>
       /\ Mine(r, q.target)
       /\ \A o \in Ids : rows[o] # None /\ rows[o].within = q.target =>
            rows[o].fields[Field[q.op]] # q.arg
  /\ \E id \in Ids \ used :
       /\ rows'[id] # None
       /\ rows'[id].owner = q.by /\ rows'[id].within = q.target
       /\ rows'[id].fields[Field[q.op]] = q.arg
       /\ \/ rows'[id].secrets = <<>> /\ spent' = spent
          \/ \E s \in Secrets \ spent : rows'[id].secrets = <<s>> /\ spent' = spent \cup {s}
       /\ rows' = [rows EXCEPT ![id] = rows'[id]]
       /\ used' = used \cup {id}
       /\ Acted(r, id)

Change(r) ==
  LET q == asked[r] IN
  /\ Admitted(r) /\ q.op \in Changes /\ Mine(r, q.target)
  /\ rows' = [rows EXCEPT ![q.target].fields[Field[q.op]] = q.arg]
  /\ Acted(r, q.target)
  /\ UNCHANGED <<used, spent>>

Rotate(r) ==
  LET q == asked[r] IN
  /\ Admitted(r) /\ q.op = Rotation /\ q.keep # None /\ Mine(r, q.target)
  /\ \E s \in Secrets \ spent :
       /\ rows' = [rows EXCEPT ![q.target].secrets = <<q.keep, s>>]
       /\ spent' = spent \cup {s}
  /\ Acted(r, q.target)
  /\ UNCHANGED used

(* What goes with a row goes when it goes.  Removing what is not there any *)
(* more is no effect, and recorded like one.                               *)
Remove(r) ==
  LET q == asked[r] IN
  /\ Admitted(r) /\ q.op \in Removes
  /\ rows[q.target] # None => Mine(r, q.target)
  /\ rows' = [id \in Ids |->
                IF id = q.target \/ (rows[id] # None /\ rows[id].within = q.target)
                THEN None ELSE rows[id]]
  /\ Acted(r, q.target)
  /\ UNCHANGED <<used, spent>>

Record(r) ==
  /\ done[r] # None
  /\ audit' = audit \cup {done[r]}
  /\ done' = [done EXCEPT ![r] = None]
  /\ UNCHANGED <<asked, used, spent, rows>>

(* A request may be turned down or get lost at any time.                   *)
Drop(r) ==
  /\ asked' = [asked EXCEPT ![r] = None]
  /\ done' = [done EXCEPT ![r] = None]
  /\ UNCHANGED <<audit, used, spent, rows>>

Next ==
  \E r \in Requests :
    \/ Ask(r) \/ Drop(r) \/ Admit(r) \/ Consider(r)
    \/ Create(r) \/ Change(r) \/ Rotate(r) \/ Remove(r) \/ Record(r)

Spec == Init /\ [][Next]_rvars

=============================================================================
