------------------------ MODULE AdminSessionsProofs ------------------------
(***************************************************************************)
(* Proofs about AdminSessions, for any processes, browsers, users, ids,    *)
(* requests and times that meet its assumptions.                           *)
(***************************************************************************)
EXTENDS AdminSessions, TLAPS

Opening(q) == q.pc \in {"insert", "cookie"}

\* What requests under way rely on.
World == [users |-> users, rows |-> rows, jar |-> jar, now |-> now,
          used |-> used, ending |-> ending, out |-> out]

\* A request q that saw the passwords h goes well with the world w.
Fits(q, h, w) ==
    /\ q.pc = "lookup" /\ w.users[q.user] \in Passwords => w.users[q.user] \in h
    /\ q.pc = "compare" /\ q.hash \in Passwords => q.hash \in h
    /\ Opening(q) =>
        /\ q.password \in h
        /\ q.id \in w.used \ w.ending
        /\ \A b \in Browsers : w.jar[b] # None => w.jar[b].id # q.id
    /\ q.pc = "cookie" /\ q.expiresAt > w.now =>
        w.rows[q.id] # None /\ w.rows[q.id].expiresAt = q.expiresAt
    /\ q.pc = "delete" => q.id \in w.ending
    /\ q.pc = "clear" /\ q.id # None => q.id \in w.ending /\ w.rows[q.id] = None
    /\ q.pc = "read" /\ q.late => q.id \in w.out
    /\ q.pc = "check" /\ q.late => q.found = None
    /\ q.pc = "valid" => ~q.late

SlotsOK == \A c \in Calls : call[c] # None => Fits(call[c], had[c], World)

\* No two logins are given the same id.
OwnId(c, q) ==
    \A d \in Calls : d # c /\ call[d] # None /\ Opening(call[d]) => call[d].id # q.id

IdsOK == \A c \in Calls : call[c] # None /\ Opening(call[c]) => OwnId(c, call[c])

\* Ids come from logins; those of an answered logout have no row.
Known ==
    /\ \A id \in Ids : rows[id] # None => id \in used
    /\ \A b \in Browsers : jar[b] # None => jar[b].id \in used
    /\ ending \subseteq used /\ out \subseteq ending
    /\ \A id \in out : rows[id] = None

\* A live cookie has a row that outlives it, unless its logout arrived.
Backed ==
    \A b \in Browsers : jar[b] # None /\ jar[b].id \notin ending /\ jar[b].expires > now =>
        rows[jar[b].id] # None /\ rows[jar[b].id].expiresAt >= jar[b].expires

\* A purge under way looks no further than the present.
CutoffsPast == \A p \in Processes : cutoff[p] # None => cutoff[p] <= now

IInv == TypeOK /\ SlotsOK /\ IdsOK /\ Known /\ Backed /\ CutoffsPast

Request == LoginCall \cup LogoutCall \cup ValidateCall

-----------------------------------------------------------------------------
\* The initial states satisfy the invariant.
LEMMA InitIInv == Init => IInv
  <1> SUFFICES ASSUME Init PROVE IInv
    OBVIOUS
  <1>1. 0 \in Times /\ 0 \in Int
    BY TimeAssumption DEF Times
  <1>2. TypeOK
    BY <1>1, UnsetAssumption DEF Init, TypeOK
  <1>3. SlotsOK /\ IdsOK /\ Known /\ Backed /\ CutoffsPast
    BY <1>1 DEF Init, SlotsOK, IdsOK, Known, Backed, CutoffsPast
  <1>4. QED
    BY <1>2, <1>3 DEF IInv

\* A request goes on, begins or ends while the tables stay as they are.
LEMMA SlotStep ==
    ASSUME IInv, NEW c \in Calls, NEW q \in Request \cup {None},
           call' = [call EXCEPT ![c] = q],
           UNCHANGED <<now, users, rows, jar, cutoff, setting, used, ending, out>>,
           had' \in [Calls -> SUBSET Passwords],
           \A d \in Calls : d # c => had'[d] = had[d],
           q # None => Equipped(q) /\ Fits(q, had'[c], World) /\ (Opening(q) => OwnId(c, q))
    PROVE  IInv'
  <1>1. \A d \in Calls : call'[d] = IF d = c THEN q ELSE call[d]
    BY DEF IInv, TypeOK
  <1>2. TypeOK'
    <2>1. call' \in [Calls -> Request \cup {None}]
      BY DEF IInv, TypeOK, Request
    <2>2. \A d \in Calls : call'[d] # None => Equipped(call'[d])
      BY <1>1 DEF IInv, TypeOK
    <2>3. QED
      BY <2>1, <2>2 DEF IInv, TypeOK, Request
  <1>3. SlotsOK'
    <2> SUFFICES ASSUME NEW d \in Calls, call'[d] # None PROVE Fits(call'[d], had'[d], World')
      BY DEF SlotsOK
    <2>1. World' = World
      BY DEF World
    <2>2. CASE d = c
      BY <2>1, <2>2, <1>1
    <2>3. CASE d # c
      BY <2>1, <2>3, <1>1 DEF IInv, SlotsOK
    <2>4. QED
      BY <2>2, <2>3
  <1>4. IdsOK'
    BY <1>1 DEF IInv, IdsOK, OwnId
  <1>5. (Known /\ Backed /\ CutoffsPast)'
    BY DEF IInv, Known, Backed, CutoffsPast
  <1>6. QED
    BY <1>2, <1>3, <1>4, <1>5 DEF IInv

\* A request may end at any time.
LEMMA FinishStep ==
    ASSUME IInv, NEW c \in Calls, Finish(c),
           UNCHANGED <<now, users, rows, jar, cutoff, setting, used, ending, out, had>>
    PROVE  IInv'
  <1>1. had \in [Calls -> SUBSET Passwords]
    BY DEF IInv, TypeOK
  <1>2. QED
    BY <1>1, SlotStep DEF Finish

\* A login begins: the user's password of this instant counts.
LEMMA LoginIInv ==
    ASSUME IInv, NEW c \in Calls, NEW b \in Browsers, NEW u \in Users,
           NEW password \in Passwords, Login(c, b, u, password)
    PROVE  IInv'
  <1> DEFINE q == [pc |-> "lookup", browser |-> b, user |-> u, password |-> password,
                   hash |-> None, id |-> None, expiresAt |-> 0]
  <1>1. q \in Request /\ q.pc = "lookup" /\ q.user = u
    BY DEF Request, LoginCall
  <1>2. call' = [call EXCEPT ![c] = q]
        /\ UNCHANGED <<now, users, rows, jar, cutoff, setting, used, ending, out>>
    BY DEF Login
  <1>3. had' \in [Calls -> SUBSET Passwords]
        /\ \A d \in Calls : had'[d] = IF d = c THEN {users[u]} \cap Passwords ELSE had[d]
    BY DEF IInv, TypeOK, Login
  <1> HIDE DEF q
  <1>4. Equipped(q) /\ Fits(q, had'[c], World) /\ ~Opening(q)
    BY <1>1, <1>2, <1>3 DEF Equipped, Fits, World, Opening
  <1>5. QED
    BY <1>1, <1>2, <1>3, <1>4, SlotStep

\* The hash a login reads is the user's, a password it saw.
LEMMA LookUpIInv ==
    ASSUME IInv, NEW c \in Calls, LookUp(c) PROVE IInv'
  <1> DEFINE q == [call[c] EXCEPT !.pc = "compare", !.hash = users[call[c].user]]
  <1>1. call[c] \in LoginCall /\ call[c].pc = "lookup" /\ Fits(call[c], had[c], World)
    BY DEF IInv, TypeOK, SlotsOK, LookUp, At, LoginCall, LogoutCall, ValidateCall
  <1>2. users[call[c].user] \in Passwords \cup {Unset, None}
    BY <1>1 DEF IInv, TypeOK, LoginCall
  <1>3. q \in LoginCall /\ q.pc = "compare" /\ q.hash = users[call[c].user]
    BY <1>1, <1>2 DEF LoginCall
  <1>4. call' = [call EXCEPT ![c] = q]
        /\ UNCHANGED <<now, users, rows, jar, cutoff, setting, used, ending, out, had>>
    BY DEF LookUp
  <1> HIDE DEF q
  <1>5. q \in Request /\ Equipped(q) /\ Fits(q, had'[c], World) /\ ~Opening(q)
    BY <1>1, <1>3, <1>4 DEF Request, Equipped, Fits, World, Opening
  <1>6. had \in [Calls -> SUBSET Passwords]
    BY DEF IInv, TypeOK
  <1>7. QED
    BY <1>4, <1>5, <1>6, SlotStep

\* A validation begins; it knows whether a logout was answered.
LEMMA ValidateIInv ==
    ASSUME IInv, NEW c \in Calls, NEW id \in Ids, Validate(c, id) PROVE IInv'
  <1> DEFINE q == [pc |-> "read", id |-> id, found |-> None, late |-> id \in out]
  <1>1. q \in ValidateCall /\ q.pc = "read" /\ q.id = id /\ q.late = (id \in out)
    BY DEF ValidateCall
  <1>2. call' = [call EXCEPT ![c] = q]
        /\ UNCHANGED <<now, users, rows, jar, cutoff, setting, used, ending, out, had>>
    BY DEF Validate
  <1> HIDE DEF q
  <1>3. q \in Request /\ Equipped(q) /\ Fits(q, had'[c], World) /\ ~Opening(q)
    BY <1>1, <1>2 DEF Request, Equipped, Fits, World, Opening
  <1>4. had \in [Calls -> SUBSET Passwords]
    BY DEF IInv, TypeOK
  <1>5. QED
    BY <1>2, <1>3, <1>4, SlotStep

\* A session that was logged out has no row to be found.
LEMMA ReadSessionIInv ==
    ASSUME IInv, NEW c \in Calls, ReadSession(c) PROVE IInv'
  <1> DEFINE q == [call[c] EXCEPT !.pc = "check", !.found = rows[call[c].id]]
  <1>1. call[c] \in ValidateCall /\ call[c].pc = "read" /\ Fits(call[c], had[c], World)
    BY DEF IInv, TypeOK, SlotsOK, ReadSession, At, LoginCall, LogoutCall, ValidateCall
  <1>2. rows[call[c].id] \in Row \cup {None}
    BY <1>1 DEF IInv, TypeOK, ValidateCall
  <1>3. q \in ValidateCall /\ q.pc = "check" /\ q.found = rows[call[c].id]
        /\ q.late = call[c].late
    BY <1>1, <1>2 DEF ValidateCall
  <1>4. call' = [call EXCEPT ![c] = q]
        /\ UNCHANGED <<now, users, rows, jar, cutoff, setting, used, ending, out, had>>
    BY DEF ReadSession
  <1> HIDE DEF q
  <1>5. q.late => q.found = None
    BY <1>1, <1>3 DEF IInv, Known, Fits, World
  <1>6. q \in Request /\ Equipped(q) /\ Fits(q, had'[c], World) /\ ~Opening(q)
    BY <1>3, <1>4, <1>5 DEF Request, Equipped, Fits, World, Opening
  <1>7. had \in [Calls -> SUBSET Passwords]
    BY DEF IInv, TypeOK
  <1>8. QED
    BY <1>4, <1>6, <1>7, SlotStep

\* What was found is valid or not; a late validation found nothing.
LEMMA CheckExpiryIInv ==
    ASSUME IInv, NEW c \in Calls, CheckExpiry(c) PROVE IInv'
  <1>1. call[c] \in ValidateCall /\ call[c].pc = "check" /\ Fits(call[c], had[c], World)
    BY DEF IInv, TypeOK, SlotsOK, CheckExpiry, At, LoginCall, LogoutCall, ValidateCall
  <1>2. CASE call[c].found # None /\ call[c].found.expiresAt > now
    <2> DEFINE q == [call[c] EXCEPT !.pc = "valid"]
    <2>1. q \in ValidateCall /\ q.pc = "valid" /\ q.late = call[c].late
          /\ q.found = call[c].found
      BY <1>1 DEF ValidateCall
    <2>2. call' = [call EXCEPT ![c] = q]
          /\ UNCHANGED <<now, users, rows, jar, cutoff, setting, used, ending, out, had>>
      BY <1>2 DEF CheckExpiry
    <2> HIDE DEF q
    <2>3. q \in Request /\ Equipped(q) /\ Fits(q, had'[c], World) /\ ~Opening(q)
      BY <1>1, <1>2, <2>1, <2>2 DEF Request, Equipped, Fits, World, Opening
    <2>4. had \in [Calls -> SUBSET Passwords]
      BY DEF IInv, TypeOK
    <2>5. QED
      BY <2>2, <2>3, <2>4, SlotStep
  <1>3. CASE ~(call[c].found # None /\ call[c].found.expiresAt > now)
    BY <1>3, FinishStep DEF CheckExpiry
  <1>4. QED
    BY <1>2, <1>3

\* A login is accepted: its password is the hash it read, its id is new.
LEMMA AcceptIInv ==
    ASSUME IInv, NEW c \in Calls, NEW id \in Ids, Accept(c, id) PROVE IInv'
  <1> DEFINE q == [call[c] EXCEPT !.pc = "insert", !.id = id, !.expiresAt = now + Ttl]
  <1>1. call[c] \in LoginCall /\ call[c].pc = "compare" /\ Fits(call[c], had[c], World)
    BY DEF IInv, TypeOK, SlotsOK, Accept, At, LoginCall, LogoutCall, ValidateCall
  <1>2. call[c].password = call[c].hash /\ call[c].password \in Passwords
        /\ call[c].hash # None
    BY <1>1 DEF Accept, Accepted, Compared, LoginCall
  <1>3. now + Ttl \in Nat
    BY TimeAssumption DEF IInv, TypeOK, Times
  <1>4. /\ q \in LoginCall /\ q.pc = "insert" /\ q.id = id
        /\ q.password = call[c].password /\ q.hash = call[c].hash
    BY <1>1, <1>3 DEF LoginCall
  <1>5. /\ call' = [call EXCEPT ![c] = q] /\ used' = used \cup {id} /\ id \notin used
        /\ UNCHANGED <<now, users, rows, jar, cutoff, setting, ending, out, had>>
    BY DEF Accept
  <1> HIDE DEF q
  <1>6. \A d \in Calls : call'[d] = IF d = c THEN q ELSE call[d]
    BY <1>5 DEF IInv, TypeOK
  <1>7. q # None /\ id # None /\ q.password \in had[c]
    BY <1>1, <1>2, <1>4, NoneAssumption DEF Fits, World
  <1>8. TypeOK'
    <2>1. call' \in [Calls -> Request \cup {None}]
      BY <1>4, <1>5 DEF IInv, TypeOK, Request
    <2>2. Equipped(q)
      BY <1>2, <1>4, <1>7 DEF Equipped
    <2>3. QED
      BY <1>5, <1>6, <2>1, <2>2 DEF IInv, TypeOK, Request
  <1>9. \A b \in Browsers : jar[b] # None => jar[b].id # id
    BY <1>5 DEF IInv, Known
  <1>10. SlotsOK'
    <2> SUFFICES ASSUME NEW d \in Calls, call'[d] # None PROVE Fits(call'[d], had'[d], World')
      BY DEF SlotsOK
    <2>1. CASE d = c
      <3>1. id \in used' \ ending'
        BY <1>5 DEF IInv, Known
      <3>2. QED
        BY <2>1, <3>1, <1>4, <1>5, <1>6, <1>7, <1>9 DEF Fits, World, Opening
    <2>2. CASE d # c
      <3>1. Fits(call[d], had[d], World) /\ call'[d] = call[d]
        BY <2>2, <1>6 DEF IInv, SlotsOK
      <3>2. QED
        BY <3>1, <1>5 DEF Fits, World
    <2>3. QED
      BY <2>1, <2>2
  <1>11. IdsOK'
    <2>1. \A d \in Calls : call[d] # None /\ Opening(call[d]) => call[d].id # id
      BY <1>5 DEF IInv, SlotsOK, Fits, World
    <2>2. QED
      BY <2>1, <1>4, <1>6 DEF IInv, IdsOK, OwnId
  <1>12. (Known /\ Backed /\ CutoffsPast)'
    BY <1>5 DEF IInv, Known, Backed, CutoffsPast
  <1>13. QED
    BY <1>8, <1>10, <1>11, <1>12 DEF IInv

\* The row is stored.  Its id is nobody else's.
LEMMA InsertIInv ==
    ASSUME IInv, NEW c \in Calls, InsertSession(c) PROVE IInv'
  <1> DEFINE q == [call[c] EXCEPT !.pc = "cookie"]
             r == [user |-> call[c].user, expiresAt |-> call[c].expiresAt]
             i == call[c].id
  <1>1. /\ call[c] \in LoginCall /\ call[c].pc = "insert" /\ Equipped(call[c])
        /\ Fits(call[c], had[c], World) /\ OwnId(c, call[c])
    BY DEF IInv, TypeOK, SlotsOK, IdsOK, Opening, InsertSession, At, LoginCall, LogoutCall, ValidateCall
  <1>2. i \in Ids /\ r \in Row /\ r # None /\ r.expiresAt = call[c].expiresAt
    <2>1. i \in Ids /\ r \in Row
      BY <1>1 DEF Equipped, LoginCall, Row
    <2>2. QED
      BY <2>1, NoneAssumption
  <1>3. /\ q \in LoginCall /\ q.pc = "cookie" /\ q.id = i /\ q.hash = call[c].hash
        /\ q.password = call[c].password /\ q.expiresAt = call[c].expiresAt /\ q # None
    <2>1. q \in LoginCall
      BY <1>1 DEF LoginCall
    <2>2. QED
      BY <1>1, <2>1, NoneAssumption DEF LoginCall
  <1>4. /\ call' = [call EXCEPT ![c] = q] /\ rows' = [rows EXCEPT ![i] = r]
        /\ UNCHANGED <<now, users, jar, cutoff, setting, used, ending, out, had>>
    BY DEF InsertSession
  <1> HIDE DEF q, r
  <1>5. \A d \in Calls : call'[d] = IF d = c THEN q ELSE call[d]
    BY <1>4 DEF IInv, TypeOK
  <1>6. \A id \in Ids : rows'[id] = IF id = i THEN r ELSE rows[id]
    BY <1>4 DEF IInv, TypeOK
  <1>7. i \in used /\ i \notin ending /\ \A b \in Browsers : jar[b] # None => jar[b].id # i
    BY <1>1 DEF Fits, Opening, World
  <1>8. TypeOK'
    <2>1. call' \in [Calls -> Request \cup {None}] /\ rows' \in [Ids -> Row \cup {None}]
      BY <1>2, <1>3, <1>4 DEF IInv, TypeOK, Request
    <2>2. Equipped(q)
      BY <1>1, <1>2, <1>3 DEF Equipped
    <2>3. QED
      BY <1>4, <1>5, <2>1, <2>2 DEF IInv, TypeOK, Request
  <1>9. SlotsOK'
    <2> SUFFICES ASSUME NEW d \in Calls, call'[d] # None PROVE Fits(call'[d], had'[d], World')
      BY DEF SlotsOK
    <2>1. CASE d = c
      BY <2>1, <1>1, <1>2, <1>3, <1>4, <1>5, <1>6, <1>7 DEF Fits, World, Opening
    <2>2. CASE d # c
      <3>1. Fits(call[d], had[d], World) /\ call'[d] = call[d] /\ had'[d] = had[d]
        BY <2>2, <1>4, <1>5 DEF IInv, SlotsOK
      <3>2. call[d].pc = "cookie" => call[d].id # i /\ call[d].id \in Ids
        BY <2>2, <1>1, <1>5 DEF OwnId, Opening, IInv, TypeOK, Equipped, LoginCall, LogoutCall, ValidateCall
      <3>3. call[d].pc = "clear" /\ call[d].id # None => call[d].id # i /\ call[d].id \in Ids
        <4>1. call[d].pc = "clear" /\ call[d].id # None => call[d].id \in ending
          BY <3>1 DEF Fits, World
        <4>2. QED
          BY <4>1, <1>7 DEF IInv, TypeOK
      <3>4. QED
        BY <3>1, <3>2, <3>3, <1>4, <1>6 DEF Fits, World
    <2>3. QED
      BY <2>1, <2>2
  <1>10. IdsOK'
    BY <1>1, <1>3, <1>5 DEF IInv, IdsOK, OwnId, Opening
  <1>11. Known'
    BY <1>4, <1>6, <1>7 DEF IInv, TypeOK, Known
  <1>12. Backed'
    <2>1. \A b \in Browsers : jar[b] # None => jar[b].id \in Ids /\ jar[b].id # i
      BY <1>7 DEF IInv, TypeOK, Cookie
    <2>2. QED
      BY <2>1, <1>4, <1>6 DEF IInv, Backed
  <1>13. CutoffsPast'
    BY <1>4 DEF IInv, CutoffsPast
  <1>14. QED
    BY <1>8, <1>9, <1>10, <1>11, <1>12, <1>13 DEF IInv

\* A cookie never outlives what it is made from.
LEMMA CookieNotLonger ==
    ASSUME NEW t \in Nat
    PROVE  CookieExpires(t) \in Nat /\ CookieExpires(t) <= t
  <1>1. Second \in Nat /\ Second > 0
    BY TimeAssumption
  <1>2. \A s \in Nat : s > 0 => (t \div s) * s \in Nat /\ (t \div s) * s <= t
    OBVIOUS
  <1>3. QED
    BY <1>1, <1>2 DEF CookieExpires

\* The browser gets its cookie.
LEMMA SetCookieIInv ==
    ASSUME IInv, NEW c \in Calls, SetSessionCookie(c) PROVE IInv'
  <1> DEFINE b0 == call[c].browser
             i == call[c].id
             k == [id |-> i, expires |-> CookieExpires(call[c].expiresAt)]
  <1>1. /\ call[c] \in LoginCall /\ call[c].pc = "cookie" /\ Equipped(call[c])
        /\ Fits(call[c], had[c], World) /\ OwnId(c, call[c])
    BY DEF IInv, TypeOK, SlotsOK, IdsOK, Opening, SetSessionCookie, At, LoginCall, LogoutCall, ValidateCall
  <1>2. call[c].expiresAt \in Nat /\ i \in Ids /\ b0 \in Browsers
    BY <1>1 DEF Equipped, LoginCall
  <1>3. k \in Cookie /\ k # None /\ k.id = i /\ k.expires \in Nat /\ k.expires <= call[c].expiresAt
    <2>1. k \in Cookie
      BY <1>2, CookieNotLonger DEF Cookie
    <2>2. QED
      BY <1>2, <2>1, CookieNotLonger, NoneAssumption
  <1>4. /\ call' = [call EXCEPT ![c] = None] /\ jar' = [jar EXCEPT ![b0] = k]
        /\ UNCHANGED <<now, users, rows, cutoff, setting, used, ending, out, had>>
    BY DEF SetSessionCookie, Finish
  <1> HIDE DEF k
  <1>5. /\ \A d \in Calls : call'[d] = IF d = c THEN None ELSE call[d]
        /\ \A b \in Browsers : jar'[b] = IF b = b0 THEN k ELSE jar[b]
    BY <1>4 DEF IInv, TypeOK
  <1>6. i \in used /\ now \in Nat
        /\ (call[c].expiresAt > now =>
               rows[i] # None /\ rows[i].expiresAt = call[c].expiresAt)
    BY <1>1 DEF Fits, Opening, World, IInv, TypeOK, Times
  <1>7. TypeOK'
    <2>1. call' \in [Calls -> Request \cup {None}] /\ jar' \in [Browsers -> Cookie \cup {None}]
      BY <1>3, <1>4 DEF IInv, TypeOK, Request
    <2>2. QED
      BY <1>4, <1>5, <2>1 DEF IInv, TypeOK, Request
  <1>8. SlotsOK'
    <2> SUFFICES ASSUME NEW d \in Calls, call'[d] # None PROVE Fits(call'[d], had'[d], World')
      BY DEF SlotsOK
    <2>1. d # c /\ call'[d] = call[d] /\ had'[d] = had[d] /\ Fits(call[d], had[d], World)
      BY <1>4, <1>5 DEF IInv, SlotsOK
    <2>2. Opening(call[d]) => call[d].id # i
      BY <1>1, <1>5, <2>1 DEF OwnId
    <2>3. Opening(call[d]) => \A b \in Browsers : jar'[b] # None => jar'[b].id # call[d].id
      BY <1>3, <1>5, <2>1, <2>2 DEF Fits, World
    <2>4. QED
      BY <1>4, <2>1, <2>3 DEF Fits, World
  <1>9. IdsOK'
    BY <1>5 DEF IInv, IdsOK, OwnId
  <1>10. Known'
    BY <1>3, <1>4, <1>5, <1>6 DEF IInv, Known
  <1>11. Backed'
    <2> SUFFICES ASSUME NEW b \in Browsers, jar'[b] # None, jar'[b].id \notin ending,
                        jar'[b].expires > now
                 PROVE  rows[jar'[b].id] # None
                        /\ rows[jar'[b].id].expiresAt >= jar'[b].expires
      BY <1>4 DEF Backed
    <2>1. CASE b = b0
      BY <2>1, <1>2, <1>3, <1>5, <1>6
    <2>2. CASE b # b0
      BY <2>2, <1>5 DEF IInv, Backed
    <2>3. QED
      BY <2>1, <2>2
  <1>12. CutoffsPast'
    BY <1>4 DEF IInv, CutoffsPast
  <1>13. QED
    BY <1>7, <1>8, <1>9, <1>10, <1>11, <1>12 DEF IInv

\* A logout arrives: from now on nothing is promised of its session.
LEMMA LogoutIInv ==
    ASSUME IInv, NEW c \in Calls, NEW b0 \in Browsers, Logout(c, b0) PROVE IInv'
  <1> DEFINE i == SentBy(b0)
             q == [pc |-> IF i = None THEN "clear" ELSE "delete", browser |-> b0, id |-> i]
  <1>1. i \in Ids \cup {None} /\ (i # None => jar[b0] # None /\ i = jar[b0].id)
    BY DEF SentBy, IInv, TypeOK, Cookie
  <1>2. q \in LogoutCall /\ q.id = i /\ q.pc = (IF i = None THEN "clear" ELSE "delete") /\ q # None
    <2>1. q \in LogoutCall
      BY <1>1 DEF LogoutCall
    <2>2. QED
      BY <2>1, NoneAssumption
  <1>3. /\ call' = [call EXCEPT ![c] = q] /\ ending' = ending \cup ({i} \ {None})
        /\ UNCHANGED <<now, users, rows, jar, cutoff, setting, used, out, had>>
    BY DEF Logout
  <1> HIDE DEF i, q
  <1>4. \A d \in Calls : call'[d] = IF d = c THEN q ELSE call[d]
    BY <1>3 DEF IInv, TypeOK
  <1>5. TypeOK'
    <2>1. call' \in [Calls -> Request \cup {None}] /\ ending' \subseteq Ids
      BY <1>1, <1>2, <1>3 DEF IInv, TypeOK, Request
    <2>2. Equipped(q)
      BY <1>2 DEF Equipped
    <2>3. QED
      BY <1>3, <1>4, <2>1, <2>2 DEF IInv, TypeOK, Request
  <1>6. SlotsOK'
    <2> SUFFICES ASSUME NEW d \in Calls, call'[d] # None PROVE Fits(call'[d], had'[d], World')
      BY DEF SlotsOK
    <2>1. CASE d = c
      BY <2>1, <1>2, <1>3, <1>4 DEF Fits, World, Opening
    <2>2. CASE d # c
      <3>1. Fits(call[d], had[d], World) /\ call'[d] = call[d] /\ had'[d] = had[d]
        BY <2>2, <1>3, <1>4 DEF IInv, SlotsOK
      <3>2. Opening(call[d]) => call[d].id # i \/ i = None
        BY <3>1, <1>1 DEF Fits, World
      <3>3. QED
        BY <3>1, <3>2, <1>3 DEF Fits, World
    <2>3. QED
      BY <2>1, <2>2
  <1>7. IdsOK'
    BY <1>2, <1>4 DEF IInv, IdsOK, OwnId, Opening
  <1>8. Known'
    BY <1>1, <1>3 DEF IInv, Known
  <1>9. (Backed /\ CutoffsPast)'
    BY <1>3 DEF IInv, Backed, CutoffsPast
  <1>10. QED
    BY <1>5, <1>6, <1>7, <1>8, <1>9 DEF IInv

\* The row of the logout goes; it is the row of nothing else.
LEMMA DeleteIInv ==
    ASSUME IInv, NEW c \in Calls, DeleteSession(c) PROVE IInv'
  <1> DEFINE q == [call[c] EXCEPT !.pc = "clear"]
             i == call[c].id
  <1>1. /\ call[c] \in LogoutCall /\ call[c].pc = "delete" /\ Equipped(call[c])
        /\ Fits(call[c], had[c], World)
    BY DEF IInv, TypeOK, SlotsOK, DeleteSession, At, LoginCall, LogoutCall, ValidateCall
  <1>2. i \in ending /\ i \in Ids /\ i # None
    BY <1>1, NoneAssumption DEF Fits, World, Equipped, LogoutCall
  <1>3. q \in LogoutCall /\ q.pc = "clear" /\ q.id = i /\ q # None
    <2>1. q \in LogoutCall /\ q.pc = "clear" /\ q.id = i
      BY <1>1 DEF LogoutCall
    <2>2. QED
      BY <2>1, NoneAssumption
  <1>4. /\ call' = [call EXCEPT ![c] = q] /\ rows' = [rows EXCEPT ![i] = None]
        /\ UNCHANGED <<now, users, jar, cutoff, setting, used, ending, out, had>>
    BY DEF DeleteSession, RowsWithout
  <1> HIDE DEF q
  <1>5. /\ \A d \in Calls : call'[d] = IF d = c THEN q ELSE call[d]
        /\ \A id \in Ids : rows'[id] = IF id = i THEN None ELSE rows[id]
    BY <1>4 DEF IInv, TypeOK
  <1>6. TypeOK'
    <2>1. call' \in [Calls -> Request \cup {None}] /\ rows' \in [Ids -> Row \cup {None}]
      BY <1>3, <1>4 DEF IInv, TypeOK, Request
    <2>2. Equipped(q)
      BY <1>3 DEF Equipped
    <2>3. QED
      BY <1>4, <1>5, <2>1, <2>2 DEF IInv, TypeOK, Request
  <1>7. SlotsOK'
    <2> SUFFICES ASSUME NEW d \in Calls, call'[d] # None PROVE Fits(call'[d], had'[d], World')
      BY DEF SlotsOK
    <2>1. CASE d = c
      BY <2>1, <1>2, <1>3, <1>4, <1>5 DEF Fits, World, Opening
    <2>2. CASE d # c
      <3>1. Fits(call[d], had[d], World) /\ call'[d] = call[d] /\ had'[d] = had[d]
        BY <2>2, <1>4, <1>5 DEF IInv, SlotsOK
      <3>2. call[d].pc = "cookie" => call[d].id \in Ids /\ call[d].id # i
        BY <3>1, <1>2 DEF Fits, World, Opening, IInv, TypeOK
      <3>3. call[d].pc = "clear" /\ call[d].id # None => call[d].id \in Ids
        BY <3>1 DEF Fits, World, IInv, TypeOK
      <3>4. QED
        BY <3>1, <3>2, <3>3, <1>4, <1>5 DEF Fits, World
    <2>3. QED
      BY <2>1, <2>2
  <1>8. IdsOK'
    BY <1>3, <1>5 DEF IInv, IdsOK, OwnId, Opening
  <1>9. Known'
    BY <1>4, <1>5 DEF IInv, TypeOK, Known
  <1>10. Backed'
    <2>1. \A b \in Browsers : jar[b] # None => jar[b].id \in Ids
      BY DEF IInv, TypeOK, Cookie
    <2>2. QED
      BY <2>1, <1>2, <1>4, <1>5 DEF IInv, Backed
  <1>11. CutoffsPast'
    BY <1>4 DEF IInv, CutoffsPast
  <1>12. QED
    BY <1>6, <1>7, <1>8, <1>9, <1>10, <1>11 DEF IInv

\* Max-Age=0: the browser has no cookie, the logout is answered.
LEMMA ClearIInv ==
    ASSUME IInv, NEW c \in Calls, ClearSessionCookie(c) PROVE IInv'
  <1> DEFINE b0 == call[c].browser
             i == call[c].id
  <1>1. call[c] \in LogoutCall /\ call[c].pc = "clear" /\ Fits(call[c], had[c], World)
    BY DEF IInv, TypeOK, SlotsOK, ClearSessionCookie, At, LoginCall, LogoutCall, ValidateCall
  <1>2. i \in Ids \cup {None} /\ b0 \in Browsers
        /\ (i # None => i \in ending /\ rows[i] = None)
    BY <1>1 DEF LogoutCall, Fits, World
  <1>3. /\ call' = [call EXCEPT ![c] = None] /\ jar' = [jar EXCEPT ![b0] = None]
        /\ out' = out \cup ({i} \ {None})
        /\ UNCHANGED <<now, users, rows, cutoff, setting, used, ending, had>>
    BY DEF ClearSessionCookie, Finish
  <1>4. /\ \A d \in Calls : call'[d] = IF d = c THEN None ELSE call[d]
        /\ \A b \in Browsers : jar'[b] = IF b = b0 THEN None ELSE jar[b]
    BY <1>3 DEF IInv, TypeOK
  <1>5. TypeOK'
    <2>1. /\ call' \in [Calls -> Request \cup {None}]
          /\ jar' \in [Browsers -> Cookie \cup {None}] /\ out' \subseteq Ids
      BY <1>2, <1>3 DEF IInv, TypeOK, Request
    <2>2. QED
      BY <1>3, <1>4, <2>1 DEF IInv, TypeOK, Request
  <1>6. SlotsOK'
    <2> SUFFICES ASSUME NEW d \in Calls, call'[d] # None PROVE Fits(call'[d], had'[d], World')
      BY DEF SlotsOK
    <2>1. call'[d] = call[d] /\ had'[d] = had[d] /\ Fits(call[d], had[d], World)
      BY <1>3, <1>4 DEF IInv, SlotsOK
    <2>2. QED
      BY <2>1, <1>3, <1>4 DEF Fits, World
  <1>7. IdsOK'
    BY <1>4 DEF IInv, IdsOK, OwnId
  <1>8. Known'
    BY <1>2, <1>3, <1>4 DEF IInv, Known
  <1>9. (Backed /\ CutoffsPast)'
    BY <1>3, <1>4 DEF IInv, Backed, CutoffsPast
  <1>10. QED
    BY <1>5, <1>6, <1>7, <1>8, <1>9 DEF IInv

\* Requests may be dropped, as a restart drops those of its process.
LEMMA RestartIInv ==
    ASSUME IInv, NEW p \in Processes, Restart(p) PROVE IInv'
  <1>1. /\ cutoff' = [cutoff EXCEPT ![p] = now]
        /\ UNCHANGED <<now, users, rows, jar, setting, used, ending, out, had>>
        /\ call' = [c \in Calls |-> IF ServedBy[c] = p THEN None ELSE call[c]]
    BY DEF Restart
  <1>2. \A d \in Calls : call'[d] = None \/ call'[d] = call[d]
    BY <1>1
  <1>3. now \in Times /\ now <= now
    BY DEF IInv, TypeOK, Times
  <1>4. TypeOK'
    <2>1. /\ call' \in [Calls -> Request \cup {None}]
          /\ cutoff' \in [Processes -> Times \cup {None}]
      BY <1>1, <1>3 DEF IInv, TypeOK, Request
    <2>2. QED
      BY <1>1, <1>2, <2>1 DEF IInv, TypeOK, Request
  <1>5. SlotsOK'
    BY <1>1, <1>2 DEF IInv, SlotsOK, World
  <1>6. IdsOK'
    BY <1>2 DEF IInv, IdsOK, OwnId
  <1>7. (Known /\ Backed)'
    BY <1>1 DEF IInv, Known, Backed
  <1>8. CutoffsPast'
    BY <1>1, <1>3 DEF IInv, TypeOK, CutoffsPast
  <1>9. QED
    BY <1>4, <1>5, <1>6, <1>7, <1>8 DEF IInv

\* The purge takes rows that are past already.
LEMMA PurgeIInv ==
    ASSUME IInv, NEW p \in Processes, Purge(p) PROVE IInv'
  <1>1. /\ cutoff[p] # None /\ cutoff' = [cutoff EXCEPT ![p] = None]
        /\ UNCHANGED <<now, users, jar, call, setting, used, ending, out, had>>
        /\ rows' = [id \in Ids |->
              IF rows[id] # None /\ Old(rows[id], cutoff[p]) THEN None ELSE rows[id]]
    BY DEF Purge, Serving
  <1>2. cutoff[p] \in Int /\ cutoff[p] <= now /\ now \in Int
    BY <1>1 DEF IInv, TypeOK, CutoffsPast, Times
  <1>3. \A id \in Ids : /\ rows'[id] \in {rows[id], None}
                        /\ rows[id] # None /\ rows[id].expiresAt > now => rows'[id] = rows[id]
    <2> SUFFICES ASSUME NEW id \in Ids
                 PROVE  /\ rows'[id] \in {rows[id], None}
                        /\ rows[id] # None /\ rows[id].expiresAt > now => rows'[id] = rows[id]
      OBVIOUS
    <2>1. rows[id] # None => rows[id].expiresAt \in Int
      BY DEF IInv, TypeOK, Row
    <2>2. QED
      BY <1>1, <1>2, <2>1 DEF Old
  <1>4. TypeOK'
    <2>1. rows' \in [Ids -> Row \cup {None}]
      BY <1>1 DEF IInv, TypeOK
    <2>2. cutoff' \in [Processes -> Times \cup {None}]
      BY <1>1 DEF IInv, TypeOK
    <2>3. QED
      BY <1>1, <2>1, <2>2 DEF IInv, TypeOK
  <1>5. SlotsOK'
    <2> SUFFICES ASSUME NEW d \in Calls, call[d] # None PROVE Fits(call[d], had[d], World')
      BY <1>1 DEF SlotsOK
    <2>1. Fits(call[d], had[d], World)
      BY DEF IInv, SlotsOK
    <2>2. call[d].pc = "cookie" => call[d].id \in Ids /\ call[d].expiresAt \in Int
      BY DEF IInv, TypeOK, Equipped, LoginCall, LogoutCall, ValidateCall
    <2>3. call[d].pc = "clear" /\ call[d].id # None => call[d].id \in Ids
      BY <2>1 DEF Fits, World, IInv, TypeOK
    <2>4. QED
      BY <2>1, <2>2, <2>3, <1>1, <1>3 DEF Fits, World
  <1>6. IdsOK'
    BY <1>1 DEF IInv, IdsOK, OwnId
  <1>7. Known'
    BY <1>1, <1>3 DEF IInv, TypeOK, Known
  <1>8. Backed'
    <2> SUFFICES ASSUME NEW b \in Browsers, jar[b] # None, jar[b].id \notin ending,
                        jar[b].expires > now
                 PROVE  rows'[jar[b].id] # None
                        /\ rows'[jar[b].id].expiresAt >= jar[b].expires
      BY <1>1 DEF Backed
    <2>1. jar[b].id \in Ids /\ jar[b].expires \in Int
      BY DEF IInv, TypeOK, Cookie
    <2>2. rows[jar[b].id] # None /\ rows[jar[b].id].expiresAt >= jar[b].expires
          /\ rows[jar[b].id].expiresAt \in Int
      BY <2>1 DEF IInv, Backed, TypeOK, Row
    <2>3. QED
      BY <1>2, <1>3, <2>1, <2>2
  <1>9. CutoffsPast'
    BY <1>1 DEF IInv, TypeOK, CutoffsPast
  <1>10. QED
    BY <1>4, <1>5, <1>6, <1>7, <1>8, <1>9 DEF IInv

\* A new user has no password.
LEMMA CreateUserIInv ==
    ASSUME IInv, NEW u \in Users, CreateUser(u) PROVE IInv'
  <1>1. /\ users' = [users EXCEPT ![u] = Unset]
        /\ UNCHANGED <<now, rows, jar, cutoff, call, setting, used, ending, out, had>>
    BY DEF CreateUser
  <1>2. \A v \in Users : users'[v] = IF v = u THEN Unset ELSE users[v]
    BY <1>1 DEF IInv, TypeOK
  <1>3. TypeOK'
    BY <1>1 DEF IInv, TypeOK
  <1>4. SlotsOK'
    <2> SUFFICES ASSUME NEW d \in Calls, call[d] # None PROVE Fits(call[d], had[d], World')
      BY <1>1 DEF SlotsOK
    <2>1. Fits(call[d], had[d], World)
      BY DEF IInv, SlotsOK
    <2>2. call[d].pc = "lookup" => call[d].user \in Users
      BY DEF IInv, TypeOK, LoginCall, LogoutCall, ValidateCall
    <2>3. QED
      BY <2>1, <2>2, <1>1, <1>2, UnsetAssumption DEF Fits, World
  <1>5. (IdsOK /\ Known /\ Backed /\ CutoffsPast)'
    BY <1>1 DEF IInv, IdsOK, OwnId, Known, Backed, CutoffsPast
  <1>6. QED
    BY <1>3, <1>4, <1>5 DEF IInv

\* bcrypt of the CLI touches no table.
LEMMA SetPasswordIInv ==
    ASSUME IInv, NEW s \in Setters, NEW u \in Users, NEW password \in Passwords,
           SetPassword(s, u, password)
    PROVE  IInv'
  <1>1. /\ setting' = [setting EXCEPT ![s] = [user |-> u, password |-> password]]
        /\ UNCHANGED <<now, users, rows, jar, cutoff, call, used, ending, out, had>>
    BY DEF SetPassword
  <1>2. TypeOK'
    BY <1>1 DEF IInv, TypeOK
  <1>3. (SlotsOK /\ IdsOK /\ Known /\ Backed /\ CutoffsPast)'
    BY <1>1 DEF IInv, SlotsOK, World, IdsOK, OwnId, Known, Backed, CutoffsPast
  <1>4. QED
    BY <1>2, <1>3 DEF IInv

\* A login under way sees the password that is written.
LEMMA WritePasswordIInv ==
    ASSUME IInv, NEW s \in Setters, WritePassword(s) PROVE IInv'
  <1> DEFINE u == setting[s].user
             password == setting[s].password
  <1>1. u \in Users /\ password \in Passwords
    BY DEF IInv, TypeOK, WritePassword
  <1>2. /\ users' = [users EXCEPT ![u] = password]
        /\ setting' = [setting EXCEPT ![s] = None]
        /\ UNCHANGED <<now, rows, jar, cutoff, call, used, ending, out>>
        /\ had' = [c \in Calls |-> IF LoggingIn(c) /\ call[c].user = u
                                   THEN had[c] \cup {password} ELSE had[c]]
    BY DEF WritePassword
  <1> HIDE DEF u, password
  <1>3. \A v \in Users : users'[v] = IF v = u THEN password ELSE users[v]
    BY <1>2 DEF IInv, TypeOK
  <1>4. /\ \A c \in Calls : had[c] \subseteq had'[c]
        /\ \A c \in Calls : LoggingIn(c) /\ call[c].user = u => password \in had'[c]
        /\ had' \in [Calls -> SUBSET Passwords]
    BY <1>1, <1>2 DEF IInv, TypeOK
  <1>5. TypeOK'
    BY <1>1, <1>2, <1>4 DEF IInv, TypeOK
  <1>6. SlotsOK'
    <2> SUFFICES ASSUME NEW d \in Calls, call[d] # None PROVE Fits(call[d], had'[d], World')
      BY <1>2 DEF SlotsOK
    <2>1. Fits(call[d], had[d], World) /\ had[d] \subseteq had'[d]
      BY <1>4 DEF IInv, SlotsOK
    <2>2. call[d].pc = "lookup" => call[d].user \in Users /\ LoggingIn(d)
      BY DEF IInv, TypeOK, LoginCall, LogoutCall, ValidateCall, LoggingIn, At
    <2>3. call[d].pc = "lookup" /\ users'[call[d].user] \in Passwords =>
            users'[call[d].user] \in had'[d]
      BY <2>1, <2>2, <1>3, <1>4 DEF Fits, World
    <2>4. QED
      BY <2>1, <2>3, <1>2 DEF Fits, World
  <1>7. (IdsOK /\ Known /\ Backed /\ CutoffsPast)'
    BY <1>2 DEF IInv, IdsOK, OwnId, Known, Backed, CutoffsPast
  <1>8. QED
    BY <1>5, <1>6, <1>7 DEF IInv

\* Time makes no live row older than its cookie.
LEMMA TickIInv == ASSUME IInv, Tick PROVE IInv'
  <1>1. /\ now \in Int /\ now' = now + 1 /\ now' \in Times
        /\ UNCHANGED <<users, rows, jar, cutoff, call, setting, used, ending, out, had>>
    BY TimeAssumption DEF IInv, TypeOK, Tick, Times
  <1>2. TypeOK'
    BY <1>1 DEF IInv, TypeOK
  <1>3. SlotsOK'
    <2> SUFFICES ASSUME NEW d \in Calls, call[d] # None PROVE Fits(call[d], had[d], World')
      BY <1>1 DEF SlotsOK
    <2>1. Fits(call[d], had[d], World)
      BY DEF IInv, SlotsOK
    <2>2. call[d].pc = "cookie" => call[d].expiresAt \in Int
      BY DEF IInv, TypeOK, LoginCall, LogoutCall, ValidateCall
    <2>3. QED
      BY <2>1, <2>2, <1>1 DEF Fits, World
  <1>4. (IdsOK /\ Known)'
    BY <1>1 DEF IInv, IdsOK, OwnId, Known
  <1>5. Backed'
    <2>1. \A b \in Browsers : jar[b] # None => jar[b].expires \in Int
      BY DEF IInv, TypeOK, Cookie
    <2>2. QED
      BY <1>1, <2>1 DEF IInv, Backed
  <1>6. CutoffsPast'
    <2>1. \A p \in Processes : cutoff[p] # None => cutoff[p] \in Int
      BY DEF IInv, TypeOK, Times
    <2>2. QED
      BY <1>1, <2>1 DEF IInv, CutoffsPast
  <1>7. QED
    BY <1>2, <1>3, <1>4, <1>5, <1>6 DEF IInv

-----------------------------------------------------------------------------
\* Every step preserves the invariant.
LEMMA NextIInv == IInv /\ [Next]_vars => IInv'
  <1> SUFFICES ASSUME IInv, [Next]_vars PROVE IInv'
    OBVIOUS
  <1>1. ASSUME NEW c \in Calls, NEW b \in Browsers, NEW u \in Users,
               NEW password \in Passwords, Login(c, b, u, password)
        PROVE  IInv'
    BY <1>1, LoginIInv
  <1>2. ASSUME NEW c \in Calls,
               \/ LookUp(c) \/ InsertSession(c) \/ SetSessionCookie(c)
               \/ DeleteSession(c) \/ ClearSessionCookie(c)
               \/ ReadSession(c) \/ CheckExpiry(c)
        PROVE  IInv'
    BY <1>2, LookUpIInv, InsertIInv, SetCookieIInv, DeleteIInv, ClearIInv,
       ReadSessionIInv, CheckExpiryIInv
  <1>3. ASSUME NEW c \in Calls, Refuse(c) \/ End(c) PROVE IInv'
    BY <1>3, FinishStep DEF Refuse, End
  <1>4. ASSUME NEW c \in Calls, NEW id \in Ids, Accept(c, id) \/ Validate(c, id)
        PROVE  IInv'
    BY <1>4, AcceptIInv, ValidateIInv
  <1>5. ASSUME NEW c \in Calls, NEW b \in Browsers, Logout(c, b) PROVE IInv'
    BY <1>5, LogoutIInv
  <1>6. ASSUME NEW p \in Processes, Restart(p) \/ Purge(p) PROVE IInv'
    BY <1>6, RestartIInv, PurgeIInv
  <1>7. ASSUME NEW u \in Users, CreateUser(u) PROVE IInv'
    BY <1>7, CreateUserIInv
  <1>8. ASSUME NEW s \in Setters, NEW u \in Users, NEW password \in Passwords,
               SetPassword(s, u, password)
        PROVE  IInv'
    BY <1>8, SetPasswordIInv
  <1>9. ASSUME NEW s \in Setters, WritePassword(s) PROVE IInv'
    BY <1>9, WritePasswordIInv
  <1>10. CASE Tick
    BY <1>10, TickIInv
  <1>11. CASE UNCHANGED vars
    BY <1>11 DEF vars, IInv, TypeOK, SlotsOK, World, IdsOK, OwnId, Opening, Known,
                 Backed, CutoffsPast
  <1>12. QED
    BY <1>1, <1>2, <1>3, <1>4, <1>5, <1>6, <1>7, <1>8, <1>9, <1>10, <1>11 DEF Next

\* The invariant holds in every reachable state.
LEMMA SpecIInv == Spec => []IInv
  BY InitIInv, NextIInv, PTL DEF Spec

\* Every variable has its type, and no session is made without a hash.
THEOREM SessionsTypeCorrect == Spec => []TypeOK
  <1>1. IInv => TypeOK
    BY DEF IInv
  <1>2. QED
    BY <1>1, SpecIInv, PTL

\* Whoever is given a session sent a password that was the user's while the
\* login was open, however many processes serve and passwords are set.
THEOREM SessionsProven == Spec => []SessionProven
  <1>1. IInv => SessionProven
    BY DEF IInv, SlotsOK, SessionProven, Fits, Opening, At
  <1>2. QED
    BY <1>1, SpecIInv, PTL

\* A live cookie that was not logged out has a row that is live: for any
\* lifetime, any number of purging processes and any instants.
THEOREM HeldSessionsWork == Spec => []HeldSessionWorks
  <1>1. ASSUME IInv PROVE HeldSessionWorks
    <2> SUFFICES ASSUME NEW b \in Browsers, SentBy(b) # None, SentBy(b) \notin ending
                 PROVE  rows[SentBy(b)] # None /\ rows[SentBy(b)].expiresAt > now
      BY DEF HeldSessionWorks
    <2>1. jar[b] # None /\ jar[b].expires > now /\ SentBy(b) = jar[b].id
      BY DEF SentBy
    <2>2. jar[b].id \in Ids /\ jar[b].expires \in Int /\ now \in Int
      BY <1>1, <2>1 DEF IInv, TypeOK, Cookie, Times
    <2>3. rows[jar[b].id] # None /\ rows[jar[b].id].expiresAt >= jar[b].expires
      BY <1>1, <2>1 DEF IInv, Backed
    <2>4. rows[jar[b].id].expiresAt \in Int
      BY <1>1, <2>2, <2>3 DEF IInv, TypeOK, Row
    <2>5. QED
      BY <2>1, <2>2, <2>3, <2>4
  <1>2. QED
    BY <1>1, SpecIInv, PTL

\* After the answer to a logout no later validation of its session succeeds, at
\* whatever process.
THEOREM LoggedOutStaysOutAlways == Spec => []LoggedOutStaysOut
  <1>1. IInv => LoggedOutStaysOut
    BY DEF IInv, SlotsOK, LoggedOutStaysOut, Fits, At
  <1>2. QED
    BY <1>1, SpecIInv, PTL
=============================================================================
