------------------------ MODULE OidcRefinementProofs ------------------------
(***************************************************************************)
(* OidcEndpoints implements OidcPromise: every step of a handler is a step *)
(* of the promise or is not seen by it.                                    *)
(***************************************************************************)
EXTENDS OidcProofs

Seen == Promise!Next \/ UNCHANGED Promise!pvars

-----------------------------------------------------------------------------
(* A client step frees a slot or fills one with a request to be read.      *)
LEMMA Arrivals ==
  ASSUME NEW r \in Requests, Client(r)
  PROVE  Finish(r) \/ \E q : Arrive(r, q) /\ q.pc = "row" /\ q.answer = None
<1>1. ASSUME NEW i \in Instances, NEW a \in Apps, NEW cred \in Credentials, NEW code,
             ArriveCode(r, i, a, cred, code)
      PROVE  \E q : Arrive(r, q) /\ q.pc = "row" /\ q.answer = None
  <2> DEFINE q == [Idle EXCEPT !.pc = "row", !.kind = "code", !.at = i, !.app = a,
                               !.cred = cred, !.code = code]
  <2>1. Arrive(r, q) /\ q.pc = "row" /\ q.answer = None
    BY <1>1 DEF ArriveCode, Idle
  <2> HIDE DEF q
  <2> QED
    BY <2>1
<1>2. ASSUME NEW i \in Instances, NEW a \in Apps, NEW cred \in Credentials, NEW tok,
             ArriveRefresh(r, i, a, cred, tok)
      PROVE  \E q : Arrive(r, q) /\ q.pc = "row" /\ q.answer = None
  <2> DEFINE q == [Presenting(i, tok, liveRt) EXCEPT !.kind = "refresh", !.app = a,
                                                     !.cred = cred]
  <2>1. Arrive(r, q)
    BY <1>2 DEF ArriveRefresh
  <2>2. q.pc = "row" /\ q.answer = None
    BY DEF Presenting, Idle
  <2> HIDE DEF q
  <2> QED
    BY <2>1, <2>2
<1>3. ASSUME NEW i \in Instances, NEW kind, NEW tok, ArriveBearer(r, i, kind, tok)
      PROVE  \E q : Arrive(r, q) /\ q.pc = "row" /\ q.answer = None
  <2> DEFINE a == IF tok = Junk THEN None ELSE tok.app
             q == [Presenting(i, tok, liveAt) EXCEPT !.kind = kind, !.app = a]
  <2>1. Arrive(r, q)
    BY <1>3 DEF ArriveBearer
  <2> HIDE DEF a
  <2>2. q.pc = "row" /\ q.answer = None
    BY DEF Presenting, Idle
  <2> HIDE DEF q
  <2> QED
    BY <2>1, <2>2
<1> QED
  BY <1>1, <1>2, <1>3 DEF Client

-----------------------------------------------------------------------------
(* A slot that runs no handler belongs to no process, and only a closed    *)
(* one has an answer.                                                      *)

Clean(q) == /\ q.pc \notin Steps => q.at = None
            /\ q.pc # "done" => q.answer = None

CleanInv == \A r \in Requests : Clean(req[r])

LEMMA CleanStep == Typed /\ CleanInv /\ [Next]_vars => CleanInv'
<1> SUFFICES ASSUME Typed, CleanInv, [Next]_vars PROVE CleanInv'
  OBVIOUS
<1>0. Clean(Idle)
  BY DEF Clean, Idle
<1>1. ASSUME NEW r \in Requests, NEW q, req' = [req EXCEPT ![r] = q], Clean(q)
      PROVE  CleanInv'
  <2>1. ASSUME NEW x \in Requests PROVE Clean(req'[x])
    BY <1>1 DEF Typed, TypeOK, CleanInv
  <2> QED
    BY <2>1 DEF CleanInv, Clean
<1>2. ASSUME NEW r \in Requests, NEW a, Respond(r, a)
      PROVE  CleanInv'
  <2> DEFINE q == [Idle EXCEPT !.pc = "done", !.answer = a, !.kind = req[r].kind,
                               !.wasRevoked = req[r].wasRevoked,
                               !.wasDead = req[r].wasDead]
  <2>1. q.pc = "done" /\ q.at = None
    BY DEF Idle
  <2>2. req' = [req EXCEPT ![r] = q]
    BY <1>2 DEF Respond
  <2> HIDE DEF q
  <2> QED
    BY <1>1, <2>1, <2>2 DEF Clean, Steps
<1>3. ASSUME NEW r \in Requests, req[r].pc \in Steps, NEW q, req' = [req EXCEPT ![r] = q],
             q.pc \in Steps, q.answer = req[r].answer
      PROVE  CleanInv'
  BY <1>1, <1>3 DEF Clean, CleanInv, Steps
<1>4. ASSUME NEW r \in Requests, NEW step \in Steps, req[r].pc \in Steps, Goto(r, step)
      PROVE  CleanInv'
  <2> DEFINE q == [req[r] EXCEPT !.pc = step]
  <2>1. q.pc = step /\ q.answer = req[r].answer
    BY Known DEF Request
  <2>2. req' = [req EXCEPT ![r] = q]
    BY <1>4 DEF Goto
  <2> HIDE DEF q
  <2> QED
    BY <1>3, <1>4, <2>1, <2>2
<1>6. ASSUME NEW r \in Requests, Client(r)
      PROVE  CleanInv'
  <2>1. CASE Finish(r)
    BY <1>0, <1>1, <2>1 DEF Finish
  <2>2. ASSUME NEW q, Arrive(r, q), q.pc = "row", q.answer = None
        PROVE  CleanInv'
    BY <1>1, <2>2 DEF Arrive, Clean, Steps
  <2> QED
    BY <1>6, <2>1, <2>2, Arrivals
<1>7. ASSUME NEW r \in Requests, Handle(r)
      PROVE  CleanInv'
  <2>1. CASE Exchange(r)
    <3>1. PICK g \in Grants : \/ req' = [req EXCEPT ![r].pc = "login", ![r].grant = g]
                              \/ Respond(r, "upstream_error")
      BY <2>1 DEF Exchange
    <3>2. CASE req' = [req EXCEPT ![r].pc = "login", ![r].grant = g]
      <4> DEFINE q == [req[r] EXCEPT !.pc = "login", !.grant = g]
      <4>1. q.pc = "login" /\ q.answer = req[r].answer /\ req' = [req EXCEPT ![r] = q]
        BY <3>2, Known DEF Request
      <4> HIDE DEF q
      <4> QED
        BY <1>3, <2>1, <4>1 DEF Exchange, Steps
    <3> QED
      BY <1>2, <3>1, <3>2
  <2>2. CASE LoginMe(r)
    <3> DEFINE step == IF req[r].kind = "userinfo" THEN "audit" ELSE "seal"
    <3>1. PICK s \in sessions : req' = [req EXCEPT ![r].user = s.user, ![r].pc = step]
      BY <2>2 DEF LoginMe
    <3> DEFINE q == [req[r] EXCEPT !.user = s.user, !.pc = step]
    <3>2. q.pc = step /\ q.answer = req[r].answer /\ req' = [req EXCEPT ![r] = q]
      BY <3>1, Known DEF Request
    <3>3. step \in Steps
      BY DEF Steps
    <3> HIDE DEF q, step
    <3> QED
      BY <1>3, <2>2, <3>2, <3>3 DEF LoginMe, Steps
  <2>3. CASE ReadRowForToken(r)
    <3>1. ASSUME NEW step \in Steps, NEW v,
                 req' = [req EXCEPT ![r] = [req[r] EXCEPT !.pc = step, !.version = v]]
          PROVE  CleanInv'
      <4> DEFINE q == [req[r] EXCEPT !.pc = step, !.version = v]
      <4>1. q.pc = step /\ q.answer = req[r].answer /\ req' = [req EXCEPT ![r] = q]
        BY <3>1, Known DEF Request
      <4> HIDE DEF q
      <4> QED
        BY <1>3, <2>3, <4>1 DEF ReadRowForToken, Steps
    <3>2. \/ \E a : Respond(r, a)
          \/ \E step \in Steps, v \in {apps[req[r].app].version, req[r].tok.version} :
               req' = [req EXCEPT ![r].pc = step, ![r].version = v]
      BY <2>3 DEF ReadRowForToken, Steps
    <3>3. ASSUME NEW step \in Steps, NEW v,
                 req' = [req EXCEPT ![r].pc = step, ![r].version = v]
          PROVE  req' = [req EXCEPT ![r] = [req[r] EXCEPT !.pc = step, !.version = v]]
      BY <3>3
    <3> QED
      BY <1>2, <3>1, <3>2, <3>3
  <2>4. CASE ReadRowForBearer(r) \/ CheckRevoked(r) \/ Unwrap(r) \/ MarkRevoked(r)
             \/ AccessRemove(r) \/ Seal(r) \/ AppendAudit(r)
    <3>1. AfterUnwrap(req[r].kind) \in Steps
      BY DEF AfterUnwrap, Steps, ReadKinds
    <3> QED
      BY <1>2, <1>4, <2>4, <3>1
         DEF ReadRowForBearer, CheckRevoked, Unwrap, MarkRevoked, AccessRemove, Seal,
             AppendAudit, Steps
  <2>5. CASE RejectMalformed(r) \/ ExchangeFails(r) \/ LoginMeFails(r) \/ Reply(r)
             \/ StorageFails(r)
    BY <1>2, <2>5 DEF RejectMalformed, ExchangeFails, LoginMeFails, Reply, StorageFails
  <2> QED
    BY <1>7, <2>1, <2>2, <2>3, <2>4, <2>5 DEF Handle
<1>8. CASE Others \/ UNCHANGED vars
  <2>1. \A r \in Requests : req'[r] \in {req[r], Idle}
    BY <1>8 DEF Others, DeleteApp, ToggleRawTokens, ChangeAccepted, MigrateApp, ChangeKeys,
                ExpireAccess, Restart, vars
  <2>2. \A r \in Requests : Clean(req'[r])
    BY <1>0, <2>1 DEF CleanInv
  <2> QED
    BY <2>2 DEF CleanInv, Clean
<1> QED
  BY <1>6, <1>7, <1>8 DEF Next

-----------------------------------------------------------------------------
(* What the promise sees of one slot.                                      *)

(* The abstract variables, slot by slot, before and after a step.          *)
LEMMA BarsNow ==
  /\ phaseBar = [r \in Requests |-> Phase(req[r])]
  /\ askBar = [r \in Requests |-> Asking(req[r])]
  /\ mayBar = [r \in Requests |-> Cleared(req[r], revoked)]
  /\ saidBar = [r \in Requests |-> req[r].answer]
  BY DEF phaseBar, askBar, mayBar, saidBar

LEMMA BarsNext ==
  /\ phaseBar' = [r \in Requests |-> Phase(req'[r])]
  /\ askBar' = [r \in Requests |-> Asking(req'[r])]
  /\ mayBar' = [r \in Requests |-> Cleared(req'[r], revoked')]
  /\ saidBar' = [r \in Requests |-> req'[r].answer]
  BY DEF phaseBar, Phase, askBar, Asking, mayBar, Cleared, saidBar, Steps

(* After a step that changes one slot and no revocation.                   *)
LEMMA BarsSlot ==
  ASSUME Typed, NEW r \in Requests, NEW q, req' = [req EXCEPT ![r] = q],
         revoked' = revoked
  PROVE  /\ phaseBar' = [phaseBar EXCEPT ![r] = Phase(q)]
         /\ askBar' = [askBar EXCEPT ![r] = Asking(q)]
         /\ mayBar' = [mayBar EXCEPT ![r] = Cleared(q, revoked)]
         /\ saidBar' = [saidBar EXCEPT ![r] = q.answer]
<1>1. req'[r] = q /\ \A x \in Requests \ {r} : req'[x] = req[x]
  BY DEF Typed, TypeOK
<1>2. phaseBar' = [phaseBar EXCEPT ![r] = Phase(q)]
  BY <1>1, BarsNow, BarsNext
<1>3. askBar' = [askBar EXCEPT ![r] = Asking(q)]
  BY <1>1, BarsNow, BarsNext
<1>4. mayBar' = [mayBar EXCEPT ![r] = Cleared(q, revoked)]
  BY <1>1, BarsNow, BarsNext
<1>5. saidBar' = [saidBar EXCEPT ![r] = q.answer]
  BY <1>1, BarsNow, BarsNext
<1> QED
  BY <1>2, <1>3, <1>4, <1>5

(* The phases exclude each other.                                          *)
LEMMA Phases ==
  ASSUME NEW q
  PROVE  /\ Phase(q) = "open" <=> q.pc \in Steps
         /\ q.pc = "done" => Phase(q) = "closed"
         /\ q.pc = "idle" => Phase(q) = "idle"
         /\ q.pc \notin Steps => Asking(q) = None
         /\ q.pc \in Steps => Asking(q) = [kind |-> q.kind, at |-> q.at, app |-> q.app,
                                           cred |-> q.cred, tok |-> q.tok]
         /\ \A rv : q.pc \notin Steps => ~Cleared(q, rv)
  BY DEF Phase, Asking, Cleared, Steps

(* A handler that moves on, having passed its checks only when entitled.   *)
LEMMA MoveSeen ==
  ASSUME Typed, NEW r \in Requests, NEW q, req' = [req EXCEPT ![r] = q],
         req[r].pc \in Steps, q.pc \in Steps,
         q.kind = req[r].kind, q.at = req[r].at, q.app = req[r].app,
         q.cred = req[r].cred, q.tok = req[r].tok, q.answer = req[r].answer,
         Cleared(req[r], revoked) => Cleared(q, revoked),
         Cleared(q, revoked) => Cleared(req[r], revoked) \/ Promise!Entitled(askBar[r]),
         UNCHANGED <<apps, revoked>>
  PROVE  Seen
<1>1. Phase(q) = phaseBar[r] /\ Asking(q) = askBar[r] /\ q.answer = saidBar[r]
  BY Phases DEF phaseBar, askBar, saidBar, Phase
<1>2. UNCHANGED <<phaseBar, askBar, saidBar>>
  BY <1>1, BarsSlot DEF phaseBar, askBar, saidBar
<1>3. mayBar' = [mayBar EXCEPT ![r] = Cleared(q, revoked)] /\ mayBar[r] = Cleared(req[r], revoked)
  BY BarsSlot DEF mayBar
<1>4. CASE Cleared(q, revoked) = Cleared(req[r], revoked)
  <2>1. mayBar' = mayBar
    BY <1>3, <1>4 DEF mayBar
  <2> QED
    BY <1>2, <2>1 DEF Seen, Promise!pvars
<1>5. CASE Cleared(q, revoked) # Cleared(req[r], revoked)
  <2>1. Cleared(q, revoked) /\ Promise!Entitled(askBar[r])
    BY <1>5 DEF Cleared
  <2>2. mayBar' = [mayBar EXCEPT ![r] = TRUE]
    BY <1>3, <2>1 DEF Cleared
  <2>3. phaseBar[r] = "open"
    BY Phases DEF phaseBar
  <2>4. Promise!Consider(r)
    BY <1>2, <2>1, <2>2, <2>3 DEF Promise!Consider
  <2> QED
    BY <2>4 DEF Seen, Promise!Next
<1> QED
  BY <1>4, <1>5

(* A handler that answers, "ok" only past its checks or to a revocation.   *)
LEMMA RespondSeen ==
  ASSUME Typed, NEW r \in Requests, NEW a \in Answers, Respond(r, a),
         req[r].pc \in Steps,
         a = "ok" => Cleared(req[r], revoked) \/ req[r].kind = "revoke",
         UNCHANGED <<apps, revoked>>
  PROVE  Seen
<1> DEFINE q == [Idle EXCEPT !.pc = "done", !.answer = a, !.kind = req[r].kind,
                             !.wasRevoked = req[r].wasRevoked,
                             !.wasDead = req[r].wasDead]
<1>1. q.pc = "done" /\ q.answer = a
  BY DEF Idle
<1>2. req' = [req EXCEPT ![r] = q]
  BY DEF Respond
<1> HIDE DEF q
<1>3. Phase(q) = "closed" /\ Asking(q) = None /\ ~Cleared(q, revoked)
  BY <1>1, Phases DEF Steps
<1>4. phaseBar[r] = "open" /\ askBar[r].kind = req[r].kind
      /\ (mayBar[r] <=> Cleared(req[r], revoked))
  BY Phases DEF phaseBar, askBar, mayBar
<1>5. Cleared(q, revoked) = FALSE
  BY <1>3 DEF Cleared
<1>6. a = "ok" => mayBar[r] \/ askBar[r].kind = "revoke"
  BY <1>4
<1>7. /\ phaseBar' = [phaseBar EXCEPT ![r] = "closed"]
      /\ askBar' = [askBar EXCEPT ![r] = None]
      /\ saidBar' = [saidBar EXCEPT ![r] = a]
  <2>1. /\ phaseBar' = [phaseBar EXCEPT ![r] = Phase(q)]
        /\ askBar' = [askBar EXCEPT ![r] = Asking(q)]
        /\ saidBar' = [saidBar EXCEPT ![r] = q.answer]
    BY <1>2, BarsSlot
  <2> QED
    BY <1>1, <1>3, <2>1
<1>8. mayBar' = [mayBar EXCEPT ![r] = FALSE]
  <2>1. mayBar' = [mayBar EXCEPT ![r] = Cleared(q, revoked)]
    BY <1>2, BarsSlot
  <2> QED
    BY <1>5, <2>1
<1>9. Promise!Close(r, a)
  BY <1>4, <1>6, <1>7, <1>8 DEF Promise!Close
<1> QED
  BY <1>9 DEF Seen, Promise!Next

-----------------------------------------------------------------------------
(* The steps.                                                              *)

(* A request arrives or its client leaves.                                 *)
LEMMA ClientSeen ==
  ASSUME Typed, Typed', CleanInv, NEW r \in Requests, Client(r)
  PROVE  Seen
<1>1. CASE Finish(r)
  <2>1. Idle.pc = "idle" /\ Idle.answer = None
    BY DEF Idle
  <2>2. req' = [req EXCEPT ![r] = Idle] /\ req[r].pc = "done" /\ UNCHANGED <<apps, revoked>>
    BY <1>1 DEF Finish, storage
  <2>3. Phase(Idle) = "idle" /\ Asking(Idle) = None /\ ~Cleared(Idle, revoked)
        /\ Phase(req[r]) = "closed" /\ Asking(req[r]) = None /\ ~Cleared(req[r], revoked)
    BY <2>1, <2>2, Phases DEF Steps
  <2>4. Cleared(Idle, revoked) = Cleared(req[r], revoked)
    BY <2>3 DEF Cleared
  <2>5. /\ phaseBar' = [phaseBar EXCEPT ![r] = Phase(Idle)]
        /\ askBar' = [askBar EXCEPT ![r] = Asking(Idle)]
        /\ mayBar' = [mayBar EXCEPT ![r] = Cleared(Idle, revoked)]
        /\ saidBar' = [saidBar EXCEPT ![r] = Idle.answer]
    BY <2>2, BarsSlot
  <2>6. phaseBar[r] = "closed" /\ UNCHANGED <<askBar, mayBar>>
    BY <2>3, <2>4, <2>5, BarsNow
  <2>7. Promise!Leave(r)
    BY <2>1, <2>2, <2>3, <2>5, <2>6 DEF Promise!Leave
  <2> QED
    BY <2>7 DEF Seen, Promise!Next
<1>2. ASSUME NEW q, Arrive(r, q), q.pc = "row", q.answer = None
      PROVE  Seen
  <2>1. /\ req' = [req EXCEPT ![r] = q] /\ req[r].pc = "idle" /\ req[r].answer = None
        /\ UNCHANGED <<apps, revoked>>
    BY <1>2 DEF Arrive, storage, CleanInv, Clean
  <2>2. q \in Request /\ q.kind \in Kinds /\ q.at \in Instances
    <3>1. req'[r] = q
      BY <2>1 DEF Typed, TypeOK
    <3>2. req'[r] \in Request
      BY DEF Typed, TypeOK
    <3>3. HandlerOK(req'[r])
      BY DEF Typed, HandlerInv, HandlerOK
    <3> QED
      BY <1>2, <3>1, <3>2, <3>3 DEF HandlerOK, Steps
  <2>3. Asking(q) \in Asks
    BY <1>2, <2>2, Phases DEF Asks, Request, Steps
  <2>4. Phase(q) = "open" /\ Phase(req[r]) = "idle"
    BY <1>2, <2>1, Phases DEF Steps
  <2>5. Cleared(q, revoked) = Cleared(req[r], revoked)
    BY <1>2, <2>1 DEF Cleared, Steps
  <2>6. /\ phaseBar' = [phaseBar EXCEPT ![r] = Phase(q)]
        /\ askBar' = [askBar EXCEPT ![r] = Asking(q)]
        /\ mayBar' = [mayBar EXCEPT ![r] = Cleared(q, revoked)]
        /\ saidBar' = [saidBar EXCEPT ![r] = q.answer]
    BY <2>1, BarsSlot
  <2>7. phaseBar[r] = "idle" /\ UNCHANGED <<mayBar, saidBar>>
    BY <1>2, <2>1, <2>4, <2>5, <2>6, BarsNow
  <2>8. Promise!Open(r)
    BY <2>1, <2>3, <2>4, <2>6, <2>7 DEF Promise!Open
  <2> QED
    BY <2>8 DEF Seen, Promise!Next
<1> QED
  BY <1>1, <1>2, Arrivals

(* Reading the row: when the handler may go on, the promise's rules hold of *)
(* the row, and of the revocations if the token is not in them.            *)
LEMMA ReadRowSeen ==
  ASSUME Typed, NEW r \in Requests, ReadRowForToken(r) \/ ReadRowForBearer(r)
  PROVE  Seen
<1> USE Known
<1>1. req[r].pc = "row" /\ req[r].pc \in Steps /\ req[r].app \in Apps
      /\ req[r].kind \in Kinds /\ UNCHANGED <<apps, revoked>>
  BY DEF ReadRowForToken, ReadRowForBearer, HandlerOK, Steps, TokenKinds, BearerKinds,
         ReadKinds, storage
<1>2. askBar[r] = [kind |-> req[r].kind, at |-> req[r].at, app |-> req[r].app,
                   cred |-> req[r].cred, tok |-> req[r].tok]
  BY <1>1, Phases, BarsNow
<1>3. ~Cleared(req[r], revoked)
  BY <1>1 DEF Cleared
<1>4. ASSUME NEW a \in Answers, a # "ok" \/ req[r].kind = "revoke", Respond(r, a)
      PROVE  Seen
  BY <1>1, <1>4, RespondSeen
<1>5. ASSUME NEW q, req' = [req EXCEPT ![r] = q], q.pc \in Steps,
             q.kind = req[r].kind, q.at = req[r].at, q.app = req[r].app,
             q.cred = req[r].cred, q.tok = req[r].tok, q.answer = req[r].answer,
             Cleared(q, revoked) => Promise!Entitled(askBar[r])
      PROVE  Seen
  BY <1>1, <1>3, <1>5, MoveSeen
<1>6. CASE ReadRowForToken(r)
  <2> DEFINE row == apps[req[r].app]
  <2>1. CASE row.present /\ row.verified /\ req[r].cred \in row.accepts
    <3>1. req[r].kind \in {"code", "refresh"}
      BY <1>6 DEF ReadRowForToken, TokenKinds
    <3>2. req[r].kind = "code" \/ req[r].tok \notin revoked[req[r].at]
            => Promise!Entitled(askBar[r])
      BY <1>1, <1>2, <2>1, <3>1 DEF Promise!Entitled
    <3>3. ASSUME NEW v, req[r].kind = "code",
                 req' = [req EXCEPT ![r].pc = "exchange", ![r].version = v]
          PROVE  Seen
      <4> DEFINE q == [req[r] EXCEPT !.pc = "exchange", !.version = v]
      <4>1. /\ req' = [req EXCEPT ![r] = q] /\ q.pc \in Steps
            /\ q.kind = req[r].kind /\ q.at = req[r].at /\ q.app = req[r].app
            /\ q.cred = req[r].cred /\ q.tok = req[r].tok /\ q.answer = req[r].answer
        BY <3>3 DEF Request, Steps
      <4> HIDE DEF q
      <4> QED
        BY <1>5, <3>2, <3>3, <4>1
    <3>4. ASSUME NEW v, req' = [req EXCEPT ![r].pc = "check", ![r].version = v]
          PROVE  Seen
      <4> DEFINE q == [req[r] EXCEPT !.pc = "check", !.version = v]
      <4>1. /\ req' = [req EXCEPT ![r] = q] /\ q.pc \in Steps /\ q.pc = "check"
            /\ q.kind = req[r].kind /\ q.at = req[r].at /\ q.app = req[r].app
            /\ q.cred = req[r].cred /\ q.tok = req[r].tok /\ q.answer = req[r].answer
        BY <3>4 DEF Request, Steps
      <4> HIDE DEF q
      <4>2. Cleared(q, revoked) => Promise!Entitled(askBar[r])
        BY <3>2, <4>1 DEF Cleared
      <4> QED
        BY <1>5, <4>1, <4>2
    <3> QED
      BY <1>4, <1>6, <2>1, <3>3, <3>4 DEF ReadRowForToken, Authenticates, Answers
  <2>2. CASE ~(row.present /\ row.verified /\ req[r].cred \in row.accepts)
    BY <1>4, <1>6, <2>2 DEF ReadRowForToken, Authenticates, Answers
  <2> QED
    BY <2>1, <2>2
<1>7. CASE ReadRowForBearer(r)
  <2> DEFINE row == apps[req[r].app]
  <2>1. ASSUME row.present, NEW step \in {"check", "unwrap"}, Goto(r, step),
               req[r].kind = "raw" => row.raw,
               step = "unwrap" => req[r].kind = "revoke"
        PROVE  Seen
    <3> DEFINE q == [req[r] EXCEPT !.pc = step]
    <3>1. /\ req' = [req EXCEPT ![r] = q] /\ q.pc = step /\ step \in Steps
          /\ q.kind = req[r].kind /\ q.at = req[r].at /\ q.app = req[r].app
          /\ q.cred = req[r].cred /\ q.tok = req[r].tok /\ q.answer = req[r].answer
      BY <2>1 DEF Goto, Request, Steps
    <3> HIDE DEF q
    <3>2. req[r].kind \notin {"code", "refresh"}
      BY <1>7 DEF ReadRowForBearer, BearerKinds, ReadKinds
    <3>3. req[r].kind = "revoke" \/ req[r].tok \notin revoked[req[r].at]
            => Promise!Entitled(askBar[r])
      BY <1>1, <1>2, <2>1, <3>2 DEF Promise!Entitled
    <3>4. Cleared(q, revoked) => Promise!Entitled(askBar[r])
      BY <2>1, <3>1, <3>3 DEF Cleared
    <3> QED
      BY <1>5, <3>1, <3>4
  <2>2. ASSUME Respond(r, Rejection(req[r].kind)) \/ Respond(r, "not_found")
        PROVE  Seen
    <3>1. Rejection(req[r].kind) # "ok" \/ req[r].kind = "revoke"
      BY <1>1 DEF Rejection, Kinds, BearerKinds
    <3> QED
      BY <1>4, <2>2, <3>1, RejectionType DEF Answers
  <2> QED
    BY <1>7, <2>1, <2>2 DEF ReadRowForBearer
<1> QED
  BY <1>6, <1>7

(* Past its checks a handler stays past them.                              *)
LEMMA PastSeen ==
  ASSUME Typed, NEW r \in Requests, NEW q, req' = [req EXCEPT ![r] = q],
         req[r].pc \in Steps, Cleared(req[r], revoked),
         q.pc \in Steps \ {"row", "check", "unwrap"},
         q.kind = req[r].kind, q.at = req[r].at, q.app = req[r].app,
         q.cred = req[r].cred, q.tok = req[r].tok, q.answer = req[r].answer,
         UNCHANGED <<apps, revoked>>
  PROVE  Seen
<1>1. Cleared(q, revoked)
  BY DEF Cleared
<1> QED
  BY <1>1, MoveSeen

LEMMA GotoPastSeen ==
  ASSUME Typed, NEW r \in Requests, req[r].pc \in Steps, Cleared(req[r], revoked),
         NEW step \in Steps \ {"row", "check", "unwrap"}, Goto(r, step),
         UNCHANGED <<apps, revoked>>
  PROVE  Seen
<1> DEFINE q == [req[r] EXCEPT !.pc = step]
<1>1. /\ req' = [req EXCEPT ![r] = q] /\ q.pc = step /\ step \in Steps
      /\ q.kind = req[r].kind /\ q.at = req[r].at /\ q.app = req[r].app
      /\ q.cred = req[r].cred /\ q.tok = req[r].tok /\ q.answer = req[r].answer
  BY Known DEF Goto, Request
<1> HIDE DEF q
<1> QED
  BY <1>1, PastSeen

(* The mark is the promise's revocation: it costs other requests with the  *)
(* same token, still between their row and their check, their chance.      *)
LEMMA MarkSeen ==
  ASSUME Typed, NEW r \in Requests, MarkRevoked(r)
  PROVE  Seen
<1> DEFINE q == [req[r] EXCEPT !.pc = "remove"]
<1>1. /\ req[r].pc = "mark" /\ req[r].kind = "revoke" /\ req[r].at \in Instances
      /\ req[r].pc \in Steps /\ apps' = apps
  BY Known DEF MarkRevoked, HandlerOK, Steps, Kinds, TokenKinds, BearerKinds, ReadKinds,
               storage
<1>2. /\ req' = [req EXCEPT ![r] = q] /\ q.pc = "remove" /\ q.pc \in Steps
      /\ q.kind = req[r].kind /\ q.at = req[r].at /\ q.app = req[r].app
      /\ q.cred = req[r].cred /\ q.tok = req[r].tok /\ q.answer = req[r].answer
  BY Known DEF MarkRevoked, Goto, Request, Steps
<1> HIDE DEF q
<1>3. req'[r] = q /\ \A x \in Requests \ {r} : req'[x] = req[x]
  BY <1>2 DEF Typed, TypeOK
<1>4. Phase(q) = Phase(req[r]) /\ Asking(q) = Asking(req[r]) /\ q.answer = req[r].answer
  BY <1>1, <1>2, Phases DEF Phase
<1>5. UNCHANGED <<phaseBar, askBar, saidBar>>
  BY <1>3, <1>4, BarsNow, BarsNext
<1>6. revoked' = [revoked EXCEPT ![req[r].at] = @ \cup {req[r].tok}]
  BY DEF MarkRevoked
<1>7. \A i \in Instances : revoked[i] \subseteq revoked'[i]
  BY <1>1, <1>6 DEF Typed, TypeOK
<1>8. Cleared(req[r], revoked)
  BY <1>1 DEF Cleared
<1>9. \A x \in Requests : Cleared(req'[x], revoked') => Cleared(req[x], revoked)
  <2>1. ASSUME NEW x \in Requests, x # r, Cleared(req[x], revoked')
        PROVE  Cleared(req[x], revoked)
    <3>1. req[x].pc \in Steps => req[x].at \in Instances
      BY Known DEF HandlerOK
    <3> QED
      BY <1>7, <2>1, <3>1 DEF Cleared, Steps
  <2>2. ASSUME NEW x \in Requests, Cleared(req'[x], revoked')
        PROVE  Cleared(req[x], revoked)
    <3>1. CASE x = r
      BY <1>8, <3>1
    <3>2. CASE x # r
      BY <1>3, <2>1, <2>2, <3>2
    <3> QED
      BY <3>1, <3>2
  <2> QED
    BY <2>2
<1>10. mayBar' \in [Requests -> BOOLEAN] /\ \A x \in Requests : mayBar'[x] => mayBar[x]
  <2>1. \A x \in Requests : Cleared(req'[x], revoked') \in BOOLEAN
    BY DEF Cleared
  <2> QED
    BY <1>9, <2>1, BarsNow, BarsNext
<1>11. /\ phaseBar[r] = "open" /\ askBar[r].kind = "revoke" /\ mayBar[r]
       /\ askBar[r].at = req[r].at /\ askBar[r].tok = req[r].tok
  BY <1>1, <1>8, Phases, BarsNow
<1>12. Promise!Revoke(r)
  BY <1>1, <1>5, <1>6, <1>10, <1>11 DEF Promise!Revoke
<1> QED
  BY <1>12 DEF Seen, Promise!Next

(* Every step of a handler.                                                *)
LEMMA HandleSeen ==
  ASSUME Typed, NEW r \in Requests, Handle(r)
  PROVE  Seen
<1> USE Known
<1>1. CASE ReadRowForToken(r) \/ ReadRowForBearer(r)
  BY <1>1, ReadRowSeen
<1>2. CASE RejectMalformed(r)
  <2>1. Rejection(req[r].kind) # "ok" \/ req[r].kind = "revoke"
    BY <1>2 DEF RejectMalformed, Rejection, BearerKinds
  <2> QED
    BY <1>2, <2>1, RejectionType, RespondSeen DEF RejectMalformed, Steps, storage
<1>3. CASE CheckRevoked(r)
  <2>1. req[r].pc = "check" /\ req[r].pc \in Steps /\ UNCHANGED <<apps, revoked>>
        /\ req[r].kind \in LateKinds
    BY <1>3 DEF CheckRevoked, Steps, storage, HandlerOK, Kinds, TokenKinds, BearerKinds,
                ReadKinds, LateKinds
  <2>2. CASE Respond(r, Rejection(req[r].kind))
    <3>1. Rejection(req[r].kind) # "ok"
      BY <2>1 DEF Rejection, LateKinds, TokenKinds, ReadKinds
    <3> QED
      BY <2>1, <2>2, <3>1, RejectionType, RespondSeen
  <2>3. CASE Goto(r, "unwrap") /\ ~IsRevoked(req[r].at, req[r].app, req[r].tok)
    <3> DEFINE q == [req[r] EXCEPT !.pc = "unwrap"]
    <3>1. /\ req' = [req EXCEPT ![r] = q] /\ q.pc = "unwrap" /\ q.pc \in Steps
          /\ q.kind = req[r].kind /\ q.at = req[r].at /\ q.app = req[r].app
          /\ q.cred = req[r].cred /\ q.tok = req[r].tok /\ q.answer = req[r].answer
      BY <2>3 DEF Goto, Request, Steps
    <3> HIDE DEF q
    <3>2. Cleared(q, revoked) <=> Cleared(req[r], revoked)
      BY <2>1, <2>3, <3>1 DEF Cleared, IsRevoked
    <3> QED
      BY <2>1, <3>1, <3>2, MoveSeen
  <2> QED
    BY <1>3, <2>2, <2>3 DEF CheckRevoked
<1>4. CASE Unwrap(r)
  <2>1. req[r].pc = "unwrap" /\ req[r].pc \in Steps /\ UNCHANGED <<apps, revoked>>
        /\ req[r].kind \in Kinds
    BY <1>4 DEF Unwrap, Steps, storage, HandlerOK
  <2>2. CASE Respond(r, Rejection(req[r].kind))
    <3>1. Rejection(req[r].kind) # "ok" \/ req[r].kind = "revoke"
      BY <2>1 DEF Rejection, Kinds, BearerKinds
    <3> QED
      BY <2>1, <2>2, <3>1, RejectionType, RespondSeen
  <2>3. CASE Goto(r, AfterUnwrap(req[r].kind)) /\ req[r].tok.app = req[r].app
    <3>1. AfterUnwrap(req[r].kind) \in Steps \ {"row", "check", "unwrap"}
      BY DEF AfterUnwrap, Steps
    <3>2. Cleared(req[r], revoked)
      BY <2>1, <2>3 DEF Cleared
    <3> QED
      BY <2>1, <2>3, <3>1, <3>2, GotoPastSeen
  <2> QED
    BY <1>4, <2>2, <2>3 DEF Unwrap, Opens
<1>5. CASE MarkRevoked(r)
  BY <1>5, MarkSeen
<1>6. CASE AccessRemove(r) \/ Seal(r) \/ AppendAudit(r)
  <2>1. Cleared(req[r], revoked) /\ req[r].pc \in Steps /\ UNCHANGED <<apps, revoked>>
    BY <1>6 DEF AccessRemove, Seal, AppendAudit, Cleared, Steps, storage
  <2>2. CASE Goto(r, "audit") \/ Goto(r, "reply")
    BY <2>1, <2>2, GotoPastSeen DEF Steps
  <2>3. CASE Respond(r, "server_error")
    BY <2>1, <2>3, RespondSeen DEF Answers
  <2> QED
    BY <1>6, <2>2, <2>3 DEF AccessRemove, Seal, AppendAudit
<1>7. CASE Exchange(r) \/ LoginMe(r)
  <2>1. Cleared(req[r], revoked) /\ req[r].pc \in Steps /\ UNCHANGED <<apps, revoked>>
    BY <1>7 DEF Exchange, LoginMe, Cleared, Steps, storage
  <2>2. ASSUME NEW step \in {"login", "audit", "seal"}, NEW g, NEW u,
               req' = [req EXCEPT ![r] = [req[r] EXCEPT !.pc = step, !.grant = g, !.user = u]]
        PROVE  Seen
    <3> DEFINE q == [req[r] EXCEPT !.pc = step, !.grant = g, !.user = u]
    <3>1. /\ req' = [req EXCEPT ![r] = q] /\ q.pc = step
          /\ q.kind = req[r].kind /\ q.at = req[r].at /\ q.app = req[r].app
          /\ q.cred = req[r].cred /\ q.tok = req[r].tok /\ q.answer = req[r].answer
      BY <2>2 DEF Request
    <3> HIDE DEF q
    <3> QED
      BY <2>1, <3>1, PastSeen DEF Steps
  <2>3. CASE Exchange(r)
    <3>1. PICK g \in Grants : \/ req' = [req EXCEPT ![r].pc = "login", ![r].grant = g]
                              \/ Respond(r, "upstream_error")
      BY <2>3 DEF Exchange
    <3>2. CASE req' = [req EXCEPT ![r].pc = "login", ![r].grant = g]
      <4>1. req' = [req EXCEPT ![r] = [req[r] EXCEPT !.pc = "login", !.grant = g,
                                                     !.user = req[r].user]]
        BY <3>2 DEF Request
      <4> QED
        BY <2>2, <4>1
    <3>3. CASE Respond(r, "upstream_error")
      BY <2>1, <3>3, RespondSeen DEF Answers
    <3> QED
      BY <3>1, <3>2, <3>3
  <2>4. CASE LoginMe(r)
    <3> DEFINE step == IF req[r].kind = "userinfo" THEN "audit" ELSE "seal"
    <3>1. PICK s \in sessions : req' = [req EXCEPT ![r].user = s.user, ![r].pc = step]
      BY <2>4 DEF LoginMe
    <3>2. step \in {"login", "audit", "seal"}
      OBVIOUS
    <3> HIDE DEF step
    <3>3. req' = [req EXCEPT ![r] = [req[r] EXCEPT !.pc = step, !.grant = req[r].grant,
                                                   !.user = s.user]]
      BY <3>1 DEF Request
    <3> QED
      BY <2>2, <3>2, <3>3
  <2> QED
    BY <1>7, <2>3, <2>4
<1>8. CASE ExchangeFails(r) \/ LoginMeFails(r) \/ StorageFails(r)
  BY <1>8, RespondSeen DEF ExchangeFails, LoginMeFails, StorageFails, Answers, Steps, storage
<1>9. CASE Reply(r)
  <2>1. Cleared(req[r], revoked) /\ req[r].pc \in Steps /\ UNCHANGED <<apps, revoked>>
    BY <1>9 DEF Reply, Cleared, Steps, storage
  <2> QED
    BY <1>9, <2>1, RespondSeen DEF Reply, Answers
<1> QED
  BY <1>1, <1>2, <1>3, <1>4, <1>5, <1>6, <1>7, <1>8, <1>9 DEF Handle

(* A crash is the promise's crash: only a slot that runs a handler belongs *)
(* to the process that dies.                                               *)
LEMMA RestartSeen ==
  ASSUME Typed, CleanInv, NEW i \in Instances, Restart(i)
  PROVE  Seen
<1> DEFINE lost(r) == phaseBar[r] = "open" /\ askBar[r].at = i
<1>1. /\ revoked' = [revoked EXCEPT ![i] = {}] /\ apps' = apps
      /\ req' = [r \in Requests |-> IF req[r].at = i THEN Idle ELSE req[r]]
  BY DEF Restart, storage
<1>2. ASSUME NEW r \in Requests
      PROVE  lost(r) <=> req[r].at = i
  <2>1. CASE req[r].pc \in Steps
    <3>1. phaseBar[r] = "open" /\ askBar[r].at = req[r].at
      BY <2>1, Phases, BarsNow
    <3> QED
      BY <3>1
  <2>2. CASE req[r].pc \notin Steps
    <3>1. phaseBar[r] # "open" /\ req[r].at # i
      BY <2>2, Phases, BarsNow, NoneAssumption DEF CleanInv, Clean
    <3> QED
      BY <3>1
  <2> QED
    BY <2>1, <2>2
<1>3. ASSUME NEW r \in Requests, lost(r)
      PROVE  /\ Phase(req'[r]) = "idle" /\ Asking(req'[r]) = None
             /\ Cleared(req'[r], revoked') = FALSE /\ req'[r].answer = req[r].answer
  <2>1. req'[r] = Idle
    BY <1>1, <1>2, <1>3
  <2>2. Idle.pc = "idle" /\ Idle.answer = None
    BY DEF Idle
  <2>3. req[r].answer = None
    BY <1>3, Phases, BarsNow DEF CleanInv, Clean, Steps
  <2>4. Cleared(Idle, revoked') = FALSE
    BY <2>2 DEF Cleared, Steps
  <2> QED
    BY <2>1, <2>2, <2>3, <2>4, Phases DEF Steps
<1>4. ASSUME NEW r \in Requests, ~lost(r)
      PROVE  req'[r] = req[r] /\ Cleared(req'[r], revoked') = Cleared(req[r], revoked)
  <2>1. req'[r] = req[r] /\ req[r].at # i
    BY <1>1, <1>2, <1>4
  <2>2. req[r].pc \in Steps => revoked'[req[r].at] = revoked[req[r].at]
    BY <1>1, <2>1, Known DEF HandlerOK, Typed, TypeOK
  <2> QED
    BY <2>1, <2>2 DEF Cleared, Steps
<1> HIDE DEF lost
<1>5. phaseBar' = [r \in Requests |-> IF lost(r) THEN "idle" ELSE phaseBar[r]]
  BY <1>3, <1>4, BarsNow, BarsNext
<1>6. askBar' = [r \in Requests |-> IF lost(r) THEN None ELSE askBar[r]]
  BY <1>3, <1>4, BarsNow, BarsNext
<1>7. mayBar' = [r \in Requests |-> IF lost(r) THEN FALSE ELSE mayBar[r]]
  BY <1>3, <1>4, BarsNow, BarsNext
<1>8. saidBar' = saidBar
  BY <1>3, <1>4, BarsNow, BarsNext
<1>9. Promise!Crash(i)
  BY <1>1, <1>5, <1>6, <1>7, <1>8 DEF Promise!Crash, lost
<1> QED
  BY <1>9 DEF Seen, Promise!Next

(* Operators act on the rows alone, as the promise lets them; keys and     *)
(* expiry at Toss are not seen.                                            *)
LEMMA OthersSeen ==
  ASSUME Typed, Typed', CleanInv, Others
  PROVE  Seen
<1>1. ASSUME UNCHANGED <<req, revoked>>
      PROVE  UNCHANGED <<phaseBar, askBar, mayBar, saidBar>>
  BY <1>1, BarsNow, BarsNext
<1>2. ASSUME NEW a \in Apps, NEW row, row.verified = apps[a].verified, apps[a].present,
             apps' = [apps EXCEPT ![a] = row], UNCHANGED <<req, revoked>>
      PROVE  Seen
  <2>1. apps' \in [Apps -> AppRow]
    BY DEF Typed, TypeOK
  <2>2. \A x \in Apps : /\ apps'[x].present => apps[x].present
                        /\ apps'[x].verified = apps[x].verified
    BY <1>2 DEF Typed, TypeOK
  <2>3. Promise!Administer
    BY <1>1, <1>2, <2>1, <2>2 DEF Promise!Administer
  <2> QED
    BY <2>3 DEF Seen, Promise!Next
<1>3. ASSUME NEW a \in Apps, DeleteApp(a)
      PROVE  Seen
  <2> DEFINE row == [apps[a] EXCEPT !.present = FALSE]
  <2>1. row.verified = apps[a].verified /\ apps' = [apps EXCEPT ![a] = row]
    BY <1>3 DEF DeleteApp, Typed, TypeOK, AppRow
  <2> HIDE DEF row
  <2> QED
    BY <1>2, <1>3, <2>1 DEF DeleteApp
<1>4. ASSUME NEW a \in Apps, ToggleRawTokens(a)
      PROVE  Seen
  <2> DEFINE row == [apps[a] EXCEPT !.raw = ~@]
  <2>1. row.verified = apps[a].verified /\ apps' = [apps EXCEPT ![a] = row]
    BY <1>4 DEF ToggleRawTokens, Typed, TypeOK, AppRow
  <2> HIDE DEF row
  <2> QED
    BY <1>2, <1>4, <2>1 DEF ToggleRawTokens
<1>5. ASSUME NEW a \in Apps, NEW accepted, ChangeAccepted(a, accepted)
      PROVE  Seen
  <2> DEFINE row == [apps[a] EXCEPT !.accepts = accepted]
  <2>1. row.verified = apps[a].verified /\ apps' = [apps EXCEPT ![a] = row]
    BY <1>5 DEF ChangeAccepted, Typed, TypeOK, AppRow
  <2> HIDE DEF row
  <2> QED
    BY <1>2, <1>5, <2>1 DEF ChangeAccepted
<1>6. ASSUME NEW a \in Apps, NEW v, MigrateApp(a, v)
      PROVE  Seen
  <2> DEFINE row == [apps[a] EXCEPT !.version = v]
  <2>1. row.verified = apps[a].verified /\ apps' = [apps EXCEPT ![a] = row]
    BY <1>6 DEF MigrateApp, Typed, TypeOK, AppRow
  <2> HIDE DEF row
  <2> QED
    BY <1>2, <1>6, <2>1 DEF MigrateApp
<1>7. ASSUME NEW v, ChangeKeys(v) \/ ExpireAccess(v)
      PROVE  Seen
  BY <1>1, <1>7 DEF ChangeKeys, ExpireAccess, storage, Seen, Promise!pvars
<1> QED
  BY <1>3, <1>4, <1>5, <1>6, <1>7, RestartSeen DEF Others

-----------------------------------------------------------------------------
(* Every behaviour of the handlers is one the promise allows: a request    *)
(* that is served was entitled to it at one instant while it was open,     *)
(* whatever else happened between its reads, for any number of apps,       *)
(* requests and processes.                                                 *)
THEOREM PromiseHolds == Spec => PromiseKept
<1>1. Init => Promise!Init /\ CleanInv
  <2> SUFFICES ASSUME Init PROVE Promise!Init /\ CleanInv
    OBVIOUS
  <2>1. \A r \in Requests : req[r] = Idle
    BY DEF Init
  <2>2. Idle.pc = "idle" /\ Idle.at = None /\ Idle.answer = None
    BY DEF Idle
  <2>3. Phase(Idle) = "idle" /\ Asking(Idle) = None /\ Cleared(Idle, revoked) = FALSE
    <3>1. Idle.pc \notin Steps
      BY <2>2 DEF Steps
    <3> QED
      BY <2>2, <3>1, Phases DEF Cleared
  <2>4. apps \in [Apps -> AppRow]
    BY DEF Init
  <2>5. Promise!Init
    BY <2>1, <2>2, <2>3, <2>4, BarsNow DEF Init, Promise!Init
  <2>6. CleanInv
    BY <2>1, <2>2 DEF CleanInv, Clean
  <2> QED
    BY <2>5, <2>6
<1>2. Typed /\ Typed' /\ CleanInv /\ [Next]_vars => [Promise!Next]_Promise!pvars
  <2> SUFFICES ASSUME Typed, Typed', CleanInv, [Next]_vars PROVE Seen
    BY DEF Seen
  <2>1. CASE UNCHANGED vars
    <3>1. UNCHANGED <<apps, req, revoked>>
      BY <2>1 DEF vars
    <3> QED
      BY <3>1, BarsNow, BarsNext DEF Seen, Promise!pvars
  <2> QED
    BY <2>1, ClientSeen, HandleSeen, OthersSeen DEF Next
<1> QED
  BY <1>1, <1>2, CleanStep, AlwaysTyped, PTL DEF Spec, PromiseKept, Promise!Spec

=============================================================================
