--------------------------- MODULE AdminSessions ---------------------------
(***************************************************************************)
(* Admin sessions: POST /admin/login and /admin/logout                     *)
(* (admin/session-route.ts), the service and store behind them             *)
(* (src/src/sessions), the rows of users and user_sessions, the purge at   *)
(* the start of a process (runtime/node.ts) and the CLI that creates users *)
(* and sets passwords (cli/commands/user.ts).                              *)
(*                                                                         *)
(* A stored hash is the password it was made from: bcrypt is assumed       *)
(* perfect.  No route calls validate yet; it is modelled as the service    *)
(* offers it, for any session id that was ever given out.                  *)
(***************************************************************************)
EXTENDS Integers, FiniteSets

CONSTANTS
    Processes, Browsers,
    Users,          \* a user is an email and the row with it
    Passwords,
    Dummy,          \* the password of DUMMY_HASH, which is in the source
    Ids,            \* 16 random bytes, never drawn twice
    Calls,          \* requests under way at once; each belongs to a process
    ServedBy,
    Setters,        \* runs of "user set-password"
    Ttl,            \* 24 hours in the code
    Second,         \* a cookie's Expires has no smaller unit
    LastInstant,    \* bound of the model on time
    Unset,          \* no password yet
    None

ASSUME TimeAssumption == Ttl \in Nat /\ Second \in Nat \ {0} /\ LastInstant \in Nat
ASSUME ServedAssumption == ServedBy \in [Calls -> Processes]
ASSUME DummyAssumption == Dummy \in Passwords
ASSUME UnsetAssumption == Unset \notin Passwords /\ Unset # None

VARIABLES
    now,
    users,      \* None, Unset or what the hash was made from
    rows,       \* user_sessions
    jar,        \* the session cookie of each browser
    cutoff,     \* of a process that has not finished its start: the purge's now
    call,
    setting,    \* what a run of set-password is about to write
    used,       \* history: ids drawn
    ending,     \* history: ids in a logout that arrived
    out,        \* history: ids in a logout that was answered
    had         \* history: passwords the user had while the login was open

vars == <<now, users, rows, jar, cutoff, call, setting, used, ending, out, had>>

Times == 0..LastInstant

Row == [user : Users, expiresAt : Nat]
Cookie == [id : Ids, expires : Nat]

LoginCall == [
    pc        : {"lookup", "compare", "insert", "cookie"},
    browser   : Browsers,
    user      : Users,
    password  : Passwords,
    hash      : Passwords \cup {Unset, None},   \* what lookupUser found
    id        : Ids \cup {None},
    expiresAt : Nat]

LogoutCall == [
    pc      : {"delete", "clear"},
    browser : Browsers,
    id      : Ids \cup {None}]

ValidateCall == [
    pc    : {"read", "check", "valid"},
    id    : Ids,
    found : Row \cup {None},
    late  : BOOLEAN]           \* history: a logout of it had been answered

ASSUME NoneAssumption ==
    /\ None \notin Passwords \cup Ids \cup Int
    /\ None \notin Row /\ None \notin Cookie
    /\ None \notin LoginCall \cup LogoutCall \cup ValidateCall
    /\ None \notin [user : Users, password : Passwords]

At(c, pc) == call[c] # None /\ call[c].pc = pc

LoggingIn(c) == \E pc \in {"lookup", "compare", "insert", "cookie"} : At(c, pc)

Serving(p) == cutoff[p] = None

Init ==
    /\ now = 0
    /\ users = [u \in Users |-> None]
    /\ rows = [id \in Ids |-> None]
    /\ jar = [b \in Browsers |-> None]
    /\ cutoff = [p \in Processes |-> now]
    /\ call = [c \in Calls |-> None]
    /\ setting = [s \in Setters |-> None]
    /\ used = {} /\ ending = {} /\ out = {}
    /\ had = [c \in Calls |-> {}]

Finish(c) == call' = [call EXCEPT ![c] = None]

-----------------------------------------------------------------------------
(* POST /admin/login *)

Login(c, b, u, password) ==
    /\ call[c] = None
    /\ Serving(ServedBy[c])
    /\ call' = [call EXCEPT ![c] =
          [pc |-> "lookup", browser |-> b, user |-> u, password |-> password,
           hash |-> None, id |-> None, expiresAt |-> 0]]
    /\ had' = [had EXCEPT ![c] = {users[u]} \cap Passwords]
    /\ UNCHANGED <<now, users, rows, jar, cutoff, setting, used, ending, out>>

LookUp(c) ==
    /\ At(c, "lookup")
    /\ call' = [call EXCEPT ![c].pc = "compare", ![c].hash = users[call[c].user]]
    /\ UNCHANGED <<now, users, rows, jar, cutoff, setting, used, ending, out, had>>

\* bcrypt runs for users without a hash and for unknown emails as well.
Compared(q) ==
    q.password = IF q.hash \in {None, Unset} THEN Dummy ELSE q.hash

AcceptedWithoutHash(q) == Compared(q) /\ q.hash # None

AcceptedUncompared(q) == q.hash # None /\ q.hash # Unset

Accepted(q) == Compared(q) /\ q.hash # None /\ q.hash # Unset

Refuse(c) ==
    /\ At(c, "compare")
    /\ ~Accepted(call[c])
    /\ Finish(c)
    /\ UNCHANGED <<now, users, rows, jar, cutoff, setting, used, ending, out, had>>

\* store.create up to its await: the id is drawn and the clock is read.
Accept(c, id) ==
    /\ At(c, "compare")
    /\ Accepted(call[c])
    /\ id \notin used
    /\ call' = [call EXCEPT ![c].pc = "insert", ![c].id = id, ![c].expiresAt = now + Ttl]
    /\ used' = used \cup {id}
    /\ UNCHANGED <<now, users, rows, jar, cutoff, setting, ending, out, had>>

InsertSession(c) ==
    /\ At(c, "insert")
    /\ rows' = [rows EXCEPT ![call[c].id] =
          [user |-> call[c].user, expiresAt |-> call[c].expiresAt]]
    /\ call' = [call EXCEPT ![c].pc = "cookie"]
    /\ UNCHANGED <<now, users, jar, cutoff, setting, used, ending, out, had>>

\* toUTCString drops what is less than a second.
CookieExpires(t) == (t \div Second) * Second

\* The answer arrives: the browser replaces the cookie it had.
SetSessionCookie(c) ==
    /\ At(c, "cookie")
    /\ jar' = [jar EXCEPT ![call[c].browser] =
          [id |-> call[c].id, expires |-> CookieExpires(call[c].expiresAt)]]
    /\ Finish(c)
    /\ UNCHANGED <<now, users, rows, cutoff, setting, used, ending, out, had>>

-----------------------------------------------------------------------------
(* POST /admin/logout *)

\* The cookie a browser sends.
SentBy(b) == IF jar[b] # None /\ jar[b].expires > now THEN jar[b].id ELSE None

Logout(c, b) ==
    /\ call[c] = None
    /\ Serving(ServedBy[c])
    /\ call' = [call EXCEPT ![c] =
          [pc |-> IF SentBy(b) = None THEN "clear" ELSE "delete",
           browser |-> b, id |-> SentBy(b)]]
    /\ ending' = ending \cup ({SentBy(b)} \ {None})
    /\ UNCHANGED <<now, users, rows, jar, cutoff, setting, used, out, had>>

RowsKept(id) == rows

RowsWithout(id) == [rows EXCEPT ![id] = None]

DeleteSession(c) ==
    /\ At(c, "delete")
    /\ rows' = RowsWithout(call[c].id)
    /\ call' = [call EXCEPT ![c].pc = "clear"]
    /\ UNCHANGED <<now, users, jar, cutoff, setting, used, ending, out, had>>

\* Max-Age=0 takes whatever cookie the browser has by now.
ClearSessionCookie(c) ==
    /\ At(c, "clear")
    /\ jar' = [jar EXCEPT ![call[c].browser] = None]
    /\ out' = out \cup ({call[c].id} \ {None})
    /\ Finish(c)
    /\ UNCHANGED <<now, users, rows, cutoff, setting, used, ending, had>>

-----------------------------------------------------------------------------
(* SessionService.validate *)

Validate(c, id) ==
    /\ call[c] = None
    /\ Serving(ServedBy[c])
    /\ id \in used
    /\ call' = [call EXCEPT ![c] =
          [pc |-> "read", id |-> id, found |-> None, late |-> id \in out]]
    /\ UNCHANGED <<now, users, rows, jar, cutoff, setting, used, ending, out, had>>

ReadSession(c) ==
    /\ At(c, "read")
    /\ call' = [call EXCEPT ![c].pc = "check", ![c].found = rows[call[c].id]]
    /\ UNCHANGED <<now, users, rows, jar, cutoff, setting, used, ending, out, had>>

\* The clock is read after the row.
CheckExpiry(c) ==
    /\ At(c, "check")
    /\ IF call[c].found # None /\ call[c].found.expiresAt > now
       THEN call' = [call EXCEPT ![c].pc = "valid"]
       ELSE Finish(c)
    /\ UNCHANGED <<now, users, rows, jar, cutoff, setting, used, ending, out, had>>

-----------------------------------------------------------------------------
(* Storage and network failures, restarts, the CLI, time. *)

\* The storage fails (500), the answer is lost, or it was given.
End(c) ==
    /\ call[c] # None
    /\ Finish(c)
    /\ UNCHANGED <<now, users, rows, jar, cutoff, setting, used, ending, out, had>>

\* runStartupTasks reads the clock before it calls the storage.
Restart(p) ==
    /\ cutoff' = [cutoff EXCEPT ![p] = now]
    /\ call' = [c \in Calls |-> IF ServedBy[c] = p THEN None ELSE call[c]]
    /\ UNCHANGED <<now, users, rows, jar, setting, used, ending, out, had>>

NotYetOld(row, t) == row.expiresAt >= t

Old(row, t) == row.expiresAt <= t

\* Only then does the process listen.
Purge(p) ==
    /\ ~Serving(p)
    /\ rows' = [id \in Ids |->
          IF rows[id] # None /\ Old(rows[id], cutoff[p]) THEN None ELSE rows[id]]
    /\ cutoff' = [cutoff EXCEPT ![p] = None]
    /\ UNCHANGED <<now, users, jar, call, setting, used, ending, out, had>>

\* oidc-bridge user create: the email is unique.
CreateUser(u) ==
    /\ users[u] = None
    /\ users' = [users EXCEPT ![u] = Unset]
    /\ UNCHANGED <<now, rows, jar, cutoff, call, setting, used, ending, out, had>>

\* oidc-bridge user set-password, up to the end of bcrypt.
SetPassword(s, u, password) ==
    /\ setting[s] = None
    /\ users[u] # None
    /\ setting' = [setting EXCEPT ![s] = [user |-> u, password |-> password]]
    /\ UNCHANGED <<now, users, rows, jar, cutoff, call, used, ending, out, had>>

WritePassword(s) ==
    /\ setting[s] # None
    /\ users' = [users EXCEPT ![setting[s].user] = setting[s].password]
    /\ setting' = [setting EXCEPT ![s] = None]
    /\ had' = [c \in Calls |->
          IF LoggingIn(c) /\ call[c].user = setting[s].user
          THEN had[c] \cup {setting[s].password} ELSE had[c]]
    /\ UNCHANGED <<now, rows, jar, cutoff, call, used, ending, out>>

Tick ==
    /\ now < LastInstant
    /\ now' = now + 1
    /\ UNCHANGED <<users, rows, jar, cutoff, call, setting, used, ending, out, had>>

Next ==
    \/ \E c \in Calls :
          \/ \E b \in Browsers, u \in Users, password \in Passwords :
                Login(c, b, u, password)
          \/ LookUp(c) \/ Refuse(c) \/ InsertSession(c) \/ SetSessionCookie(c)
          \/ \E id \in Ids : Accept(c, id)
          \/ \E b \in Browsers : Logout(c, b)
          \/ DeleteSession(c) \/ ClearSessionCookie(c)
          \/ \E id \in Ids : Validate(c, id)
          \/ ReadSession(c) \/ CheckExpiry(c) \/ End(c)
    \/ \E p \in Processes : Restart(p) \/ Purge(p)
    \/ \E u \in Users : CreateUser(u)
    \/ \E s \in Setters :
          \/ \E u \in Users, password \in Passwords : SetPassword(s, u, password)
          \/ WritePassword(s)
    \/ Tick

Spec == Init /\ [][Next]_vars

-----------------------------------------------------------------------------
(* Properties. *)

\* What a call must have got before a step may use it.
Equipped(q) ==
    /\ q.pc \in {"insert", "cookie"} => q.hash \in Passwords /\ q.id # None
    /\ q.pc = "delete" => q.id # None
    /\ q.pc = "valid" => q.found # None

\* Every variable has its type; no session is made without a hash it was
\* checked against.
TypeOK ==
    /\ now \in Times
    /\ users \in [Users -> Passwords \cup {Unset, None}]
    /\ rows \in [Ids -> Row \cup {None}]
    /\ jar \in [Browsers -> Cookie \cup {None}]
    /\ cutoff \in [Processes -> Times \cup {None}]
    /\ call \in [Calls -> LoginCall \cup LogoutCall \cup ValidateCall \cup {None}]
    /\ setting \in [Setters -> [user : Users, password : Passwords] \cup {None}]
    /\ used \subseteq Ids /\ ending \subseteq Ids /\ out \subseteq Ids
    /\ had \in [Calls -> SUBSET Passwords]
    /\ \A c \in Calls : call[c] # None => Equipped(call[c])

\* The hash is read, bcrypt runs, the session is stored later: still whoever is
\* given a session sent a password that was the user's at an instant while the
\* login was open, however set-password interleaves, and never the dummy's
\* password for a user without one.
SessionProven ==
    \A c \in Calls : At(c, "insert") \/ At(c, "cookie") => call[c].password \in had[c]

\* A browser that holds a live cookie has a session behind it until it logs out:
\* neither a purge of a process that is starting, nor the rounding of the
\* cookie's expiry, nor another session's logout comes between.
HeldSessionWorks ==
    \A b \in Browsers : LET id == SentBy(b) IN
        id # None /\ id \notin ending => rows[id] # None /\ rows[id].expiresAt > now

\* Once a logout is answered, no validation that arrives later, at any process
\* and with a copy of the cookie, succeeds.
LoggedOutStaysOut ==
    \A c \in Calls : At(c, "valid") => ~call[c].late
=============================================================================
