----------------------------- MODULE OidcProofs -----------------------------
(***************************************************************************)
(* Theorems about OidcEndpoints, for every number of apps, requests,       *)
(* processes, tokens and keys.                                             *)
(***************************************************************************)
EXTENDS OidcRefinement, TLAPS

-----------------------------------------------------------------------------
(* A request slot.                                                         *)

Typed == TypeOK /\ HandlerInv

(* The request a free slot holds.                                          *)
LEMMA IdleType == Idle \in Request /\ HandlerOK(Idle)
  BY DEF Idle, Request, HandlerOK, Steps

(* Replacing one slot by a well-formed request keeps all slots so.         *)
LEMMA SlotType ==
  ASSUME Typed, NEW r \in Requests, NEW q \in Request, HandlerOK(q),
         req' = [req EXCEPT ![r] = q]
  PROVE  req' \in [Requests -> Request] /\ HandlerInv'
<1>1. req' \in [Requests -> Request]
  BY DEF Typed, TypeOK
<1>2. ASSUME NEW x \in Requests
      PROVE  HandlerOK(req'[x])
  BY DEF Typed, TypeOK, HandlerInv
<1> QED
  BY <1>1, <1>2 DEF HandlerInv, HandlerOK

(* Responding does: the slot no longer runs a handler.                     *)
LEMMA RespondType ==
  ASSUME Typed, NEW r \in Requests, NEW a \in Answers, Respond(r, a)
  PROVE  req' \in [Requests -> Request] /\ HandlerInv'
<1> DEFINE q == [Idle EXCEPT !.pc = "done", !.answer = a, !.kind = req[r].kind,
                             !.wasRevoked = req[r].wasRevoked,
                             !.wasDead = req[r].wasDead]
<1>1. q \in Request
  BY DEF Typed, TypeOK, Idle, Request
<1>2. HandlerOK(q)
  BY DEF Idle, HandlerOK, Steps
<1>3. req' = [req EXCEPT ![r] = q]
  BY DEF Respond
<1> QED
  BY <1>1, <1>2, <1>3, SlotType

(* So does moving on to an await the handler may reach.                    *)
LEMMA GotoType ==
  ASSUME Typed, NEW r \in Requests, NEW step \in Steps, Goto(r, step),
         HandlerOK([req[r] EXCEPT !.pc = step])
  PROVE  req' \in [Requests -> Request] /\ HandlerInv'
<1> DEFINE q == [req[r] EXCEPT !.pc = step]
<1>1. q \in Request
  BY DEF Typed, TypeOK, Request
<1>2. req' = [req EXCEPT ![r] = q]
  BY DEF Goto
<1> QED
  BY <1>1, <1>2, SlotType

(* A rejection is an answer.                                               *)
LEMMA RejectionType ==
  ASSUME NEW kind
  PROVE  Rejection(kind) \in Answers
  BY DEF Rejection, Answers

-----------------------------------------------------------------------------
(* Type correctness: the clients.                                          *)

(* A new request occupies its slot and changes nothing else.               *)
LEMMA ArriveType ==
  ASSUME Typed, NEW r \in Requests, NEW q \in Request, HandlerOK(q), Arrive(r, q)
  PROVE  Typed'
<1>1. req' \in [Requests -> Request] /\ HandlerInv'
  BY SlotType DEF Arrive
<1> QED
  BY <1>1 DEF Typed, TypeOK, Arrive, storage, toss

(* A client step keeps the state well formed.                              *)
LEMMA ClientType ==
  ASSUME Typed, NEW r \in Requests, Client(r)
  PROVE  Typed'
<1>1. ASSUME NEW i \in Instances, NEW a \in Apps, NEW cred \in Credentials,
             NEW code \in Codes, ArriveCode(r, i, a, cred, code)
      PROVE  Typed'
  <2> DEFINE q == [Idle EXCEPT !.pc = "row", !.kind = "code", !.at = i, !.app = a,
                               !.cred = cred, !.code = code]
  <2>1. q \in Request
    BY DEF Idle, Request, Kinds, TokenKinds, Steps
  <2>2. HandlerOK(q)
    BY DEF Idle, HandlerOK, Steps, Kinds, TokenKinds, BearerKinds, ReadKinds
  <2>3. Arrive(r, q)
    BY <1>1 DEF ArriveCode
  <2> QED
    BY <2>1, <2>2, <2>3, ArriveType
<1>2. ASSUME NEW i \in Instances, NEW tok \in issued \cup {Junk}, NEW live
      PROVE  /\ Presenting(i, tok, live) \in Request
             /\ Presenting(i, tok, live).pc = "row"
             /\ Presenting(i, tok, live).at = i
             /\ Presenting(i, tok, live).tok = tok
  <2> DEFINE w == tok \in acked[i]
             d == tok # Junk /\ tok.grant \notin live
  <2>1. w \in BOOLEAN /\ d \in BOOLEAN
    OBVIOUS
  <2>2. Presenting(i, tok, live) = [Idle EXCEPT !.pc = "row", !.at = i, !.tok = tok,
                                          !.wasRevoked = w, !.wasDead = d]
    BY DEF Presenting
  <2>3. tok \in Token \cup {Junk, None}
    BY DEF Typed, TypeOK
  <2> HIDE DEF w, d
  <2> QED
    BY <2>1, <2>2, <2>3 DEF Idle, Request, Steps
<1>3. ASSUME NEW i \in Instances, NEW a \in Apps, NEW cred \in Credentials,
             NEW tok \in issued \cup {Junk}, ArriveRefresh(r, i, a, cred, tok)
      PROVE  Typed'
  <2> DEFINE q0 == Presenting(i, tok, liveRt)
             q == [q0 EXCEPT !.kind = "refresh", !.app = a, !.cred = cred]
  <2>1. q0 \in Request /\ q0.pc = "row" /\ q0.at = i /\ q0.tok = tok
    BY <1>2
  <2>2. Arrive(r, q)
    BY <1>3 DEF ArriveRefresh
  <2>3. "refresh" \in Kinds /\ tok \in Token \cup {Junk}
    BY DEF Kinds, TokenKinds, Typed, TypeOK
  <2> HIDE DEF q0
  <2>4. q \in Request
    BY <2>1, <2>3 DEF Request
  <2>5. HandlerOK(q)
    BY <2>1, <2>3 DEF Request, HandlerOK, Steps, TokenKinds, BearerKinds, ReadKinds
  <2> QED
    BY <2>2, <2>4, <2>5, ArriveType
<1>4. ASSUME NEW i \in Instances, NEW kind \in BearerKinds,
             NEW tok \in issued \cup {Junk}, ArriveBearer(r, i, kind, tok)
      PROVE  Typed'
  <2> DEFINE q0 == Presenting(i, tok, liveAt)
             a == IF tok = Junk THEN None ELSE tok.app
             q == [q0 EXCEPT !.kind = kind, !.app = a]
  <2>1. q0 \in Request /\ q0.pc = "row" /\ q0.at = i /\ q0.tok = tok
    BY <1>2
  <2>2. Arrive(r, q)
    BY <1>4 DEF ArriveBearer
  <2>3. kind \in Kinds /\ tok \in Token \cup {Junk}
    BY DEF Kinds, Typed, TypeOK
  <2>4. a \in Apps \cup {None} /\ (tok # Junk => a \in Apps)
    BY <2>3 DEF Token
  <2> HIDE DEF q0, a
  <2>5. q \in Request
    BY <2>1, <2>3, <2>4 DEF Request
  <2>6. HandlerOK(q)
    BY <2>1, <2>3, <2>4
       DEF Request, HandlerOK, Steps, Kinds, TokenKinds, BearerKinds, ReadKinds
  <2> QED
    BY <2>2, <2>5, <2>6, ArriveType
<1>5. CASE Finish(r)
  <2>1. req' \in [Requests -> Request] /\ HandlerInv'
    BY <1>5, IdleType, SlotType DEF Finish
  <2> QED
    BY <1>5, <2>1 DEF Typed, TypeOK, Finish, storage, toss
<1> QED
  BY <1>1, <1>3, <1>4, <1>5 DEF Client

-----------------------------------------------------------------------------
(* Type correctness: the handlers.                                         *)

(* What is known of a handler at an await.                                 *)
LEMMA Known ==
  ASSUME Typed, NEW r \in Requests
  PROVE  req[r] \in Request /\ HandlerOK(req[r])
  BY DEF Typed, TypeOK, HandlerInv

(* A step that changes only the slot.                                      *)
LEMMA OnlyRequest ==
  ASSUME Typed, req' \in [Requests -> Request], HandlerInv',
         UNCHANGED <<storage, keys, revoked, toss, issued, acked>>
  PROVE  Typed'
  BY DEF Typed, TypeOK, storage, toss

(* Reading the row.                                                        *)
LEMMA ReadRowType ==
  ASSUME Typed, NEW r \in Requests,
         RejectMalformed(r) \/ ReadRowForToken(r) \/ ReadRowForBearer(r)
  PROVE  Typed'
<1> USE Known
<1>1. CASE RejectMalformed(r)
  BY <1>1, RejectionType, RespondType, OnlyRequest DEF RejectMalformed
<1>2. CASE ReadRowForToken(r)
  <2> DEFINE row == apps[req[r].app]
             qc == [req[r] EXCEPT !.pc = "exchange", !.version = row.version]
             qr == [req[r] EXCEPT !.pc = "check", !.version = req[r].tok.version]
  <2>1. req[r].kind \in TokenKinds /\ req[r].pc = "row" /\ req[r].app \in Apps
    BY <1>2 DEF ReadRowForToken, HandlerOK, Steps
  <2>2. row.version \in Versions
    BY <2>1 DEF Typed, TypeOK, AppRow
  <2>3. ASSUME NEW a \in Answers, Respond(r, a)
        PROVE  Typed'
    BY <1>2, <2>3, RespondType, OnlyRequest DEF ReadRowForToken
  <2>4. ASSUME req[r].kind = "code", req' = [req EXCEPT ![r] = qc]
        PROVE  Typed'
    <3>1. qc \in Request
      BY <2>2 DEF Request, Steps
    <3>2. HandlerOK(qc)
      BY <2>1, <2>2, <2>4 DEF HandlerOK, Request, Steps, TokenKinds, BearerKinds, ReadKinds
    <3> QED
      BY <1>2, <2>4, <3>1, <3>2, SlotType, OnlyRequest DEF ReadRowForToken
  <2>5. ASSUME req[r].kind = "refresh", req[r].tok # Junk, req' = [req EXCEPT ![r] = qr]
        PROVE  Typed'
    <3>0. req[r].tok \in Token
      BY <2>1, <2>5 DEF HandlerOK, Steps
    <3>1. req[r].tok.version \in Versions
      BY <3>0 DEF Token
    <3>2. qr \in Request
      BY <3>1 DEF Request, Steps
    <3>3. HandlerOK(qr)
      BY <2>1, <2>5, <3>0, <3>1
         DEF HandlerOK, Request, Steps, TokenKinds, BearerKinds, ReadKinds
    <3> QED
      BY <1>2, <2>5, <3>2, <3>3, SlotType, OnlyRequest DEF ReadRowForToken
  <2> QED
    BY <1>2, <2>3, <2>4, <2>5 DEF ReadRowForToken, Answers
<1>3. CASE ReadRowForBearer(r)
  <2>1. /\ req[r].kind \in BearerKinds /\ req[r].pc = "row"
        /\ req[r].tok \in Token /\ req[r].tok # Junk
    BY <1>3 DEF ReadRowForBearer, HandlerOK, Steps, BearerKinds, ReadKinds
  <2>2. ASSUME NEW a \in Answers, Respond(r, a)
        PROVE  Typed'
    BY <1>3, <2>2, RespondType, OnlyRequest DEF ReadRowForBearer
  <2>3. ASSUME NEW step \in {"check", "unwrap"}, Goto(r, step),
               step = "check" => req[r].kind \in ReadKinds,
               step = "unwrap" => req[r].kind = "revoke"
        PROVE  Typed'
    <3>1. HandlerOK([req[r] EXCEPT !.pc = step])
      BY <2>1, <2>3 DEF HandlerOK, Request, Steps, TokenKinds, BearerKinds, ReadKinds
    <3> QED
      BY <1>3, <2>3, <3>1, GotoType, OnlyRequest DEF ReadRowForBearer, Steps
  <2> QED
    BY <1>3, <2>2, <2>3, RejectionType DEF ReadRowForBearer, Answers
<1> QED
  BY <1>1, <1>2, <1>3

(* The revocation check and the unwrapping.                                *)
LEMMA CheckType ==
  ASSUME Typed, NEW r \in Requests, CheckRevoked(r) \/ Unwrap(r)
  PROVE  Typed'
<1> USE Known
<1>1. CASE CheckRevoked(r)
  <2>1. HandlerOK([req[r] EXCEPT !.pc = "unwrap"])
    BY <1>1 DEF CheckRevoked, HandlerOK, Request, Steps, TokenKinds, BearerKinds, ReadKinds
  <2> QED
    BY <1>1, <2>1, RejectionType, RespondType, GotoType, OnlyRequest DEF CheckRevoked, Steps
<1>2. CASE Unwrap(r)
  <2> DEFINE step == AfterUnwrap(req[r].kind)
  <2>1. req[r].kind \in {"refresh", "userinfo", "raw", "revoke"}
    BY <1>2 DEF Unwrap, HandlerOK, Steps, Kinds, TokenKinds, BearerKinds, ReadKinds
  <2>2. /\ req[r].kind = "refresh" => step = "exchange"
        /\ req[r].kind = "userinfo" => step = "login"
        /\ req[r].kind = "raw" => step = "audit"
        /\ req[r].kind = "revoke" => step = "mark"
    BY DEF AfterUnwrap
  <2> HIDE DEF step
  <2>3. HandlerOK([req[r] EXCEPT !.pc = step])
    BY <1>2, <2>1, <2>2
       DEF Unwrap, HandlerOK, Request, Steps, TokenKinds, BearerKinds, ReadKinds
  <2>4. step \in Steps
    BY <2>1, <2>2 DEF Steps
  <2>5. ASSUME Goto(r, step)
        PROVE  Typed'
    BY <1>2, <2>3, <2>4, <2>5, GotoType, OnlyRequest DEF Unwrap
  <2>6. ASSUME Respond(r, Rejection(req[r].kind))
        PROVE  Typed'
    BY <1>2, <2>6, RejectionType, RespondType, OnlyRequest DEF Unwrap
  <2> QED
    BY <1>2, <2>5, <2>6 DEF Unwrap, step
<1> QED
  BY <1>1, <1>2

(* The two effects of a revocation.                                        *)
LEMMA RevokeType ==
  ASSUME Typed, NEW r \in Requests, MarkRevoked(r) \/ AccessRemove(r)
  PROVE  Typed'
<1> USE Known
<1>1. CASE MarkRevoked(r)
  <2>1. req[r].kind = "revoke" /\ req[r].tok \in Token /\ req[r].at \in Instances
    BY <1>1 DEF MarkRevoked, HandlerOK, Steps, Kinds, TokenKinds, BearerKinds, ReadKinds
  <2>2. HandlerOK([req[r] EXCEPT !.pc = "remove"])
    BY <1>1, <2>1 DEF MarkRevoked, HandlerOK, Request, Steps, TokenKinds, BearerKinds, ReadKinds
  <2>3. req' \in [Requests -> Request] /\ HandlerInv'
    BY <1>1, <2>2, GotoType DEF MarkRevoked, Steps
  <2>4. revoked' \in [Instances -> SUBSET Token]
    BY <1>1, <2>1 DEF MarkRevoked, Typed, TypeOK
  <2> QED
    BY <1>1, <2>3, <2>4 DEF MarkRevoked, Typed, TypeOK, storage, toss
<1>2. CASE AccessRemove(r)
  <2>1. req[r].kind = "revoke"
    BY <1>2 DEF AccessRemove, HandlerOK, Steps, Kinds, TokenKinds, BearerKinds, ReadKinds
  <2>2. HandlerOK([req[r] EXCEPT !.pc = "audit"])
    BY <1>2, <2>1 DEF AccessRemove, HandlerOK, Request, Steps, TokenKinds, BearerKinds, ReadKinds
  <2>3. req' \in [Requests -> Request] /\ HandlerInv'
    BY <1>2, <2>2, GotoType DEF AccessRemove, Steps
  <2>4. liveAt' \in SUBSET Grants /\ liveRt' \in SUBSET Grants
    BY <1>2 DEF AccessRemove, Typed, TypeOK
  <2> QED
    BY <1>2, <2>3, <2>4 DEF AccessRemove, Typed, TypeOK, storage
<1> QED
  BY <1>1, <1>2

(* What an exchange leaves at Toss.                                        *)
LEMMA RedeemType ==
  ASSUME Typed, NEW r \in Requests, NEW g \in Grants,
         RedeemCode(r, g) \/ RedeemRefreshToken(r, g)
  PROVE  /\ codes' \in SUBSET Codes
         /\ sessions' \in SUBSET [grant : Grants, app : Apps, user : Users]
         /\ liveAt' \in SUBSET Grants /\ liveRt' \in SUBSET Grants
<1>1. CASE RedeemCode(r, g)
  <2>1. req[r].code \in [app : Apps, user : Users, seq : Nat]
    BY <1>1, CodesAssumption DEF RedeemCode, Typed, TypeOK
  <2> QED
    BY <1>1, <2>1 DEF RedeemCode, Typed, TypeOK
<1>2. CASE RedeemRefreshToken(r, g)
  <2>1. PICK s \in sessions : sessions' = sessions \cup {[s EXCEPT !.grant = g]}
    BY <1>2 DEF RedeemRefreshToken
  <2>2. sessions' \in SUBSET [grant : Grants, app : Apps, user : Users]
    BY <2>1 DEF Typed, TypeOK
  <2>3. liveAt' \in SUBSET Grants /\ liveRt' \in SUBSET Grants
    BY <1>2 DEF RedeemRefreshToken, Typed, TypeOK
  <2> QED
    BY <1>2, <2>2, <2>3 DEF RedeemRefreshToken, Typed, TypeOK
<1> QED
  BY <1>1, <1>2

(* The calls to Toss.                                                      *)
LEMMA ExchangeType ==
  ASSUME Typed, NEW r \in Requests, Exchange(r) \/ ExchangeFails(r)
  PROVE  Typed'
<1> USE Known
<1>1. CASE Exchange(r)
  <2>1. PICK g \in Grants :
          /\ RedeemCode(r, g) \/ RedeemRefreshToken(r, g)
          /\ \/ req' = [req EXCEPT ![r].pc = "login", ![r].grant = g]
             \/ Respond(r, "upstream_error")
    BY <1>1 DEF Exchange
  <2> DEFINE q == [req[r] EXCEPT !.pc = "login", !.grant = g]
  <2>2. req[r].kind \in TokenKinds /\ req[r].kind \in {"code", "refresh"}
    BY <2>1 DEF RedeemCode, RedeemRefreshToken, TokenKinds
  <2>3. q \in Request
    BY DEF Request, Steps
  <2>4. HandlerOK(q)
    BY <1>1, <2>2 DEF Exchange, HandlerOK, Request, Steps, TokenKinds, BearerKinds, ReadKinds
  <2>5. req' \in [Requests -> Request] /\ HandlerInv'
    <3>1. CASE req' = [req EXCEPT ![r].pc = "login", ![r].grant = g]
      <4>1. req' = [req EXCEPT ![r] = q]
        BY <3>1
      <4> QED
        BY <2>3, <2>4, <4>1, SlotType
    <3>2. CASE Respond(r, "upstream_error")
      BY <3>2, RespondType DEF Answers
    <3> QED
      BY <2>1, <3>1, <3>2
  <2> QED
    BY <1>1, <2>1, <2>5, RedeemType DEF Exchange, Typed, TypeOK, storage
<1>2. CASE ExchangeFails(r)
  BY <1>2, RespondType, OnlyRequest DEF ExchangeFails, Answers
<1> QED
  BY <1>1, <1>2

(* login-me.                                                               *)
LEMMA LoginType ==
  ASSUME Typed, NEW r \in Requests, LoginMe(r) \/ LoginMeFails(r)
  PROVE  Typed'
<1> USE Known
<1>1. CASE LoginMe(r)
  <2> DEFINE step == IF req[r].kind = "userinfo" THEN "audit" ELSE "seal"
  <2>1. PICK s \in sessions : req' = [req EXCEPT ![r].user = s.user, ![r].pc = step]
    BY <1>1 DEF LoginMe
  <2> DEFINE q == [req[r] EXCEPT !.user = s.user, !.pc = step]
  <2>2. s.user \in Users
    BY DEF Typed, TypeOK
  <2>3. /\ step \in {"audit", "seal"}
        /\ step = "audit" <=> req[r].kind = "userinfo"
    OBVIOUS
  <2>4. req' = [req EXCEPT ![r] = q]
    BY <2>1
  <2> HIDE DEF step
  <2>5. q \in Request
    <3>1. step \in {"idle", "done"} \cup Steps /\ s.user \in Users \cup {None}
      BY <2>2, <2>3 DEF Steps
    <3> QED
      BY <3>1 DEF Request
  <2>6. req[r].pc = "login" /\ req[r].kind \in {"code", "refresh", "userinfo"}
    BY <1>1 DEF LoginMe, HandlerOK, Steps, Kinds, TokenKinds, BearerKinds, ReadKinds
  <2>7. /\ q.pc = step /\ q.user \in Users /\ q.kind = req[r].kind /\ q.at = req[r].at
        /\ q.app = req[r].app /\ q.code = req[r].code /\ q.tok = req[r].tok
        /\ q.version = req[r].version /\ q.grant = req[r].grant
    BY <2>2 DEF Request
  <2> HIDE DEF q
  <2>8. HandlerOK(q)
    BY <2>3, <2>6, <2>7
       DEF HandlerOK, Steps, Kinds, TokenKinds, BearerKinds, ReadKinds
  <2> QED
    BY <1>1, <2>4, <2>5, <2>8, SlotType, OnlyRequest DEF LoginMe
<1>2. CASE LoginMeFails(r)
  BY <1>2, RespondType, OnlyRequest DEF LoginMeFails, Answers
<1> QED
  BY <1>1, <1>2

(* Sealing, and a storage call that throws.                                *)
LEMMA SealType ==
  ASSUME Typed, NEW r \in Requests, Seal(r) \/ StorageFails(r)
  PROVE  Typed'
<1> USE Known
<1>1. CASE Seal(r)
  <2>1. req[r].pc = "seal" /\ req[r].kind \in TokenKinds
    BY <1>1 DEF Seal, HandlerOK, Steps, Kinds, TokenKinds, BearerKinds, ReadKinds
  <2>2. HandlerOK([req[r] EXCEPT !.pc = "audit"])
    BY <2>1 DEF HandlerOK, Request, Steps, TokenKinds, BearerKinds, ReadKinds
  <2> QED
    BY <1>1, <2>2, RespondType, GotoType, OnlyRequest DEF Seal, Steps, Answers
<1>2. CASE StorageFails(r)
  BY <1>2, RespondType, OnlyRequest DEF StorageFails, Answers
<1> QED
  BY <1>1, <1>2

(* The audit row names a known app and token set.                          *)
LEMMA AuditType ==
  ASSUME Typed, NEW r \in Requests, AppendAudit(r)
  PROVE  Typed'
<1> USE Known
<1>1. /\ req[r].pc = "audit" /\ req[r].kind \in Kinds /\ req[r].app \in Apps
      /\ Subject(r) \in Grants
  <2>1. req[r].pc = "audit" /\ req[r].kind \in Kinds
    BY DEF AppendAudit, HandlerOK, Steps
  <2>2. CASE req[r].kind \in TokenKinds
    BY <2>1, <2>2 DEF HandlerOK, Steps, Subject
  <2>3. CASE req[r].kind \in BearerKinds
    <3>1. req[r].kind \notin TokenKinds /\ req[r].kind # "code"
      BY <2>3 DEF BearerKinds, ReadKinds, TokenKinds
    <3>2. req[r].tok \in Token
      BY <2>1, <3>1 DEF HandlerOK, Steps
    <3>3. req[r].tok # Junk /\ req[r].tok.grant \in Grants
      BY <3>2, NoneAssumption DEF Token
    <3> QED
      BY <2>1, <2>3, <3>1, <3>3 DEF HandlerOK, Steps, Subject
  <2> QED
    BY <2>1, <2>2, <2>3 DEF Kinds
<1>2. HandlerOK([req[r] EXCEPT !.pc = "reply"])
  BY <1>1 DEF HandlerOK, Request, Steps, TokenKinds, BearerKinds, ReadKinds
<1>3. req' \in [Requests -> Request] /\ HandlerInv'
  BY <1>2, GotoType DEF AppendAudit, Steps
<1>4. audit' \in SUBSET AuditEntry
  BY <1>1 DEF AppendAudit, AuditEntry, Typed, TypeOK
<1> QED
  BY <1>3, <1>4 DEF AppendAudit, Typed, TypeOK, toss

(* The tokens sent are well formed, the revocation acknowledged is of a    *)
(* token.                                                                  *)
LEMMA ReplyType ==
  ASSUME Typed, NEW r \in Requests, Reply(r)
  PROVE  Typed'
<1> USE Known
<1>1. req' \in [Requests -> Request] /\ HandlerInv'
  BY RespondType DEF Reply, Answers
<1>2. issued' \in SUBSET Token
  <2>1. CASE req[r].kind \in TokenKinds
    <3>1. /\ req[r].app \in Apps /\ req[r].user \in Users
          /\ req[r].version \in Versions /\ req[r].grant \in Grants
      BY <2>1 DEF Reply, HandlerOK, Steps
    <3>2. Sealed(r, "access") \in Token /\ Sealed(r, "refresh") \in Token
      BY <3>1 DEF Sealed, Token
    <3> QED
      BY <2>1, <3>2 DEF Reply, Typed, TypeOK
  <2>2. CASE req[r].kind \notin TokenKinds
    BY <2>2 DEF Reply, Typed, TypeOK
  <2> QED
    BY <2>1, <2>2
<1>3. acked' \in [Instances -> SUBSET Token]
  <2>1. CASE req[r].kind = "revoke"
    <3>1. req[r].tok \in Token
      BY <2>1 DEF Reply, HandlerOK, Steps
    <3> QED
      BY <2>1, <3>1 DEF Reply, Typed, TypeOK
  <2>2. CASE req[r].kind # "revoke"
    BY <2>2 DEF Reply, Typed, TypeOK
  <2> QED
    BY <2>1, <2>2
<1> QED
  BY <1>1, <1>2, <1>3 DEF Reply, Typed, TypeOK, storage, toss

(* Every handler step keeps the state well formed.                         *)
LEMMA HandleType ==
  ASSUME Typed, NEW r \in Requests, Handle(r)
  PROVE  Typed'
  BY ReadRowType, CheckType, RevokeType, ExchangeType, LoginType, SealType,
     AuditType, ReplyType DEF Handle

-----------------------------------------------------------------------------
(* Type correctness: operators and crashes.                                *)

LEMMA OthersType ==
  ASSUME Typed, Others
  PROVE  Typed'
<1>1. ASSUME NEW a \in Apps, apps' \in [Apps -> AppRow],
             UNCHANGED <<audit, keys, revoked, toss, issued, acked, req>>
      PROVE  Typed'
  BY <1>1 DEF Typed, TypeOK, HandlerInv, HandlerOK, toss
<1>2. ASSUME NEW a \in Apps, DeleteApp(a)
      PROVE  Typed'
  <2>1. apps' \in [Apps -> AppRow]
    BY <1>2 DEF DeleteApp, Typed, TypeOK, AppRow
  <2> QED
    BY <1>1, <1>2, <2>1 DEF DeleteApp
<1>3. ASSUME NEW a \in Apps, ToggleRawTokens(a)
      PROVE  Typed'
  <2> DEFINE raw == ~apps[a].raw
  <2>1. raw \in BOOLEAN /\ apps' = [apps EXCEPT ![a].raw = raw]
    BY <1>3 DEF ToggleRawTokens
  <2> HIDE DEF raw
  <2>2. apps' \in [Apps -> AppRow]
    BY <2>1 DEF Typed, TypeOK, AppRow
  <2> QED
    BY <1>1, <1>3, <2>2 DEF ToggleRawTokens
<1>4. ASSUME NEW a \in Apps, NEW accepted \in SUBSET Credentials,
             ChangeAccepted(a, accepted)
      PROVE  Typed'
  <2>1. apps' \in [Apps -> AppRow]
    BY <1>4 DEF ChangeAccepted, Typed, TypeOK, AppRow
  <2> QED
    BY <1>1, <1>4, <2>1 DEF ChangeAccepted
<1>5. ASSUME NEW a \in Apps, NEW v \in Versions, MigrateApp(a, v)
      PROVE  Typed'
  <2>1. apps' \in [Apps -> AppRow]
    BY <1>5 DEF MigrateApp, Typed, TypeOK, AppRow
  <2> QED
    BY <1>1, <1>5, <2>1 DEF MigrateApp
<1>6. ASSUME NEW v \in Versions, ChangeKeys(v)
      PROVE  Typed'
  BY <1>6 DEF ChangeKeys, Typed, TypeOK, HandlerInv, HandlerOK, storage, toss
<1>7. ASSUME NEW i \in Instances, Restart(i)
      PROVE  Typed'
  <2>1. /\ req' \in [Requests -> Request]
        /\ \A r \in Requests : req'[r] = Idle \/ req'[r] = req[r]
    BY <1>7, IdleType DEF Restart, Typed, TypeOK
  <2>2. HandlerInv'
    <3>1. \A r \in Requests : HandlerOK(req'[r])
      BY <2>1, IdleType DEF Typed, HandlerInv
    <3> QED
      BY <3>1 DEF HandlerInv, HandlerOK
  <2>3. revoked' \in [Instances -> SUBSET Token] /\ acked' \in [Instances -> SUBSET Token]
    BY <1>7 DEF Restart, Typed, TypeOK
  <2> QED
    BY <1>7, <2>1, <2>2, <2>3 DEF Restart, Typed, TypeOK, storage, toss
<1>8. ASSUME NEW g \in liveAt, ExpireAccess(g)
      PROVE  Typed'
  BY <1>8 DEF ExpireAccess, Typed, TypeOK, HandlerInv, HandlerOK, storage
<1> QED
  BY <1>2, <1>3, <1>4, <1>5, <1>6, <1>7, <1>8 DEF Others

LEMMA InitType == Init => Typed
<1> SUFFICES ASSUME Init PROVE Typed
  OBVIOUS
<1>1. req \in [Requests -> Request] /\ HandlerInv
  BY IdleType DEF Init, HandlerInv
<1> QED
  BY <1>1 DEF Init, Typed, TypeOK

LEMMA StepType == Typed /\ [Next]_vars => Typed'
<1> SUFFICES ASSUME Typed, [Next]_vars PROVE Typed'
  OBVIOUS
<1>1. CASE UNCHANGED vars
  BY <1>1 DEF vars, Typed, TypeOK, HandlerInv, HandlerOK
<1> QED
  BY <1>1, ClientType, HandleType, OthersType DEF Next

LEMMA AlwaysTyped == Spec => []Typed
  BY InitType, StepType, PTL DEF Spec

(* Every variable keeps its type and every handler finds the locals it     *)
(* uses filled in, whatever other requests, operators and crashes do       *)
(* between its awaits.                                                     *)
THEOREM TypeCorrect == Spec => []TypeOK
  BY AlwaysTyped, PTL DEF Typed

-----------------------------------------------------------------------------
(* Revocation.  RevocationInv, slot by slot.                               *)

LateKinds == {"refresh", "userinfo", "raw"}

(* A handler that has not accepted its token yet and, if it is past the    *)
(* revocation check, will not.                                             *)
Held(q) == \/ q.pc \in {"row", "check"}
           \/ q.pc = "unwrap" /\ q.tok.app # q.app

(* What RevocationInv asks of a slot holding q under revocation sets rv.   *)
Late(q, rv) ==
  /\ q.kind = "revoke" /\ q.pc \in PastMark => q.tok \in rv[q.at]
  /\ q.wasRevoked /\ q.pc \in Steps => q.tok \in rv[q.at]
  /\ q.wasRevoked /\ q.pc \in Steps /\ q.kind \in LateKinds => Held(q)
  /\ q.wasRevoked => ~(q.pc = "done" /\ q.answer = "ok" /\ q.kind \in LateKinds)

AckedRevoked == \A i \in Instances : acked[i] \subseteq revoked[i]

LEMMA RevocationBySlot ==
  RevocationInv <=> AckedRevoked /\ \A r \in Requests : Late(req[r], revoked)
  BY DEF RevocationInv, RevokedNotServed, Late, Held, LateKinds, AckedRevoked, Active, Served

LEMMA RevocationBySlotNext ==
  RevocationInv' <=> AckedRevoked' /\ \A r \in Requests : Late(req'[r], revoked')
  BY DEF RevocationInv, RevokedNotServed, Late, Held, LateKinds, AckedRevoked, Active, Served

(* Revocation sets that grow leave the other slots as they should be.      *)
LEMMA LateSlot ==
  ASSUME Typed, RevocationInv, NEW r \in Requests, NEW q,
         req' = [req EXCEPT ![r] = q], Late(q, revoked'),
         \A i \in Instances : revoked[i] \subseteq revoked'[i],
         AckedRevoked'
  PROVE  RevocationInv'
<1>1. ASSUME NEW x \in Requests
      PROVE  Late(req'[x], revoked')
  <2>1. CASE x = r
    BY <2>1 DEF Typed, TypeOK
  <2>2. CASE x # r
    <3>1. req'[x] = req[x] /\ Late(req[x], revoked)
      BY <2>2, RevocationBySlot DEF Typed, TypeOK
    <3>2. req[x].pc \in Steps => req[x].at \in Instances
      BY Known DEF HandlerOK
    <3>3. PastMark \subseteq Steps
      BY DEF PastMark, Steps
    <3> QED
      BY <3>1, <3>2, <3>3 DEF Late
  <2> QED
    BY <2>1, <2>2
<1> QED
  BY <1>1, RevocationBySlotNext

(* A step that leaves the revocation sets alone.                           *)
LEMMA LateQuiet ==
  ASSUME Typed, RevocationInv, NEW r \in Requests, NEW q,
         req' = [req EXCEPT ![r] = q], Late(q, revoked),
         UNCHANGED <<revoked, acked>>
  PROVE  RevocationInv'
  BY LateSlot, RevocationBySlot DEF AckedRevoked

(* An answer that is not the service asked for is always in order.         *)
LEMMA LateRespond ==
  ASSUME Typed, RevocationInv, NEW r \in Requests, NEW a, Respond(r, a),
         a = "ok" => ~req[r].wasRevoked \/ req[r].kind \notin LateKinds,
         UNCHANGED <<revoked, acked>>
  PROVE  RevocationInv'
<1> DEFINE q == [Idle EXCEPT !.pc = "done", !.answer = a, !.kind = req[r].kind,
                             !.wasRevoked = req[r].wasRevoked,
                             !.wasDead = req[r].wasDead]
<1>1. /\ q.pc = "done" /\ q.answer = a /\ q.kind = req[r].kind
      /\ q.wasRevoked = req[r].wasRevoked
  BY DEF Idle
<1>2. req' = [req EXCEPT ![r] = q]
  BY DEF Respond
<1> HIDE DEF q
<1>3. Late(q, revoked)
  BY <1>1 DEF Late, Steps, PastMark
<1> QED
  BY <1>2, <1>3, LateQuiet

(* Moving on to the next await is, for a token not revoked in time.        *)
LEMMA LateGoto ==
  ASSUME Typed, RevocationInv, NEW r \in Requests, req[r].pc \in Steps,
         NEW q \in Request, req' = [req EXCEPT ![r] = q],
         q.kind = req[r].kind, q.at = req[r].at, q.tok = req[r].tok,
         q.wasRevoked = req[r].wasRevoked, q.pc \in Steps,
         q.kind = "revoke" /\ q.pc \in PastMark => req[r].pc \in PastMark,
         q.wasRevoked /\ q.kind \in LateKinds => Held(q),
         UNCHANGED <<revoked, acked>>
  PROVE  RevocationInv'
<1>1. Late(req[r], revoked)
  BY RevocationBySlot
<1>2. Late(q, revoked)
  BY <1>1 DEF Late, Steps, PastMark
<1> QED
  BY <1>2, LateQuiet

(* A client can only come too late for a revocation that is in the set.    *)
LEMMA LateClient ==
  ASSUME Typed, RevocationInv, NEW r \in Requests, Client(r)
  PROVE  RevocationInv'
<1>1. ASSUME NEW i \in Instances, NEW tok \in issued \cup {Junk}, NEW live
      PROVE  /\ Presenting(i, tok, live).pc = "row"
             /\ Presenting(i, tok, live).at = i
             /\ Presenting(i, tok, live).tok = tok
             /\ Presenting(i, tok, live).wasRevoked => tok \in revoked[i]
  <2>1. acked[i] \subseteq revoked[i]
    BY RevocationBySlot DEF AckedRevoked
  <2> DEFINE w == tok \in acked[i]
             d == tok # Junk /\ tok.grant \notin live
  <2>2. Presenting(i, tok, live) = [Idle EXCEPT !.pc = "row", !.at = i, !.tok = tok,
                                          !.wasRevoked = w, !.wasDead = d]
    BY DEF Presenting
  <2>3. w => tok \in revoked[i]
    BY <2>1
  <2> HIDE DEF w, d
  <2> QED
    BY <2>2, <2>3 DEF Idle
<1>2. ASSUME NEW q, Arrive(r, q), q.pc = "row", q.wasRevoked => q.tok \in revoked[q.at]
      PROVE  RevocationInv'
  <2>1. Late(q, revoked)
    BY <1>2 DEF Late, Held, PastMark, Steps
  <2> QED
    BY <1>2, <2>1, LateQuiet DEF Arrive
<1>3. ASSUME NEW i \in Instances, NEW a \in Apps, NEW cred \in Credentials,
             NEW code \in Codes, ArriveCode(r, i, a, cred, code)
      PROVE  RevocationInv'
  BY <1>2, <1>3 DEF ArriveCode, Idle
<1>4. ASSUME NEW i \in Instances, NEW a \in Apps, NEW cred \in Credentials,
             NEW tok \in issued \cup {Junk}, ArriveRefresh(r, i, a, cred, tok)
      PROVE  RevocationInv'
  <2> DEFINE q0 == Presenting(i, tok, liveRt)
             q == [q0 EXCEPT !.kind = "refresh", !.app = a, !.cred = cred]
  <2>1. q0.pc = "row" /\ q0.at = i /\ q0.tok = tok /\ (q0.wasRevoked => tok \in revoked[i])
    BY <1>1
  <2>2. q.pc = q0.pc /\ q.at = q0.at /\ q.tok = q0.tok /\ q.wasRevoked = q0.wasRevoked
    BY DEF Presenting, Idle
  <2>3. Arrive(r, q)
    BY <1>4 DEF ArriveRefresh
  <2> HIDE DEF q0, q
  <2> QED
    BY <1>2, <2>1, <2>2, <2>3
<1>5. ASSUME NEW i \in Instances, NEW kind \in BearerKinds,
             NEW tok \in issued \cup {Junk}, ArriveBearer(r, i, kind, tok)
      PROVE  RevocationInv'
  <2> DEFINE q0 == Presenting(i, tok, liveAt)
             a == IF tok = Junk THEN None ELSE tok.app
             q == [q0 EXCEPT !.kind = kind, !.app = a]
  <2>1. q0.pc = "row" /\ q0.at = i /\ q0.tok = tok /\ (q0.wasRevoked => tok \in revoked[i])
    BY <1>1
  <2>2. q.pc = q0.pc /\ q.at = q0.at /\ q.tok = q0.tok /\ q.wasRevoked = q0.wasRevoked
    BY DEF Presenting, Idle
  <2>3. Arrive(r, q)
    BY <1>5 DEF ArriveBearer
  <2> HIDE DEF q0, q
  <2> QED
    BY <1>2, <2>1, <2>2, <2>3
<1>6. CASE Finish(r)
  <2>1. Late(Idle, revoked)
    BY DEF Late, Idle, Steps, PastMark
  <2> QED
    BY <1>6, <2>1, LateQuiet DEF Finish
<1> QED
  BY <1>3, <1>4, <1>5, <1>6 DEF Client

(* Where the slot is, and what it carries on to the next await.            *)
LEMMA MoveOn ==
  ASSUME Typed, RevocationInv, NEW r \in Requests, req[r].pc \in Steps,
         NEW step \in Steps, Goto(r, step),
         req[r].kind = "revoke" /\ step \in PastMark => req[r].pc \in PastMark,
         req[r].wasRevoked /\ req[r].kind \in LateKinds
           => step = "check" \/ (step = "unwrap" /\ req[r].tok.app # req[r].app),
         UNCHANGED <<revoked, acked>>
  PROVE  RevocationInv'
<1> DEFINE q == [req[r] EXCEPT !.pc = step]
<1>1. req[r] \in Request
  BY Known
<1>2. q \in Request
  BY <1>1 DEF Request
<1>3. /\ q.kind = req[r].kind /\ q.at = req[r].at /\ q.tok = req[r].tok
      /\ q.wasRevoked = req[r].wasRevoked /\ q.pc = step /\ q.app = req[r].app
  BY <1>1 DEF Request
<1>4. req' = [req EXCEPT ![r] = q]
  BY DEF Goto
<1>5. q.wasRevoked /\ q.kind \in LateKinds => Held(q)
  BY <1>3 DEF Held
<1> HIDE DEF q
<1> QED
  BY <1>2, <1>3, <1>4, <1>5, LateGoto

(* Past its check, a handler serves a request that was in time.            *)
LEMMA InTime ==
  ASSUME Typed, RevocationInv, NEW r \in Requests, req[r].pc \in Steps, ~Held(req[r]),
         req[r].kind \in LateKinds
  PROVE  ~req[r].wasRevoked
  BY RevocationBySlot DEF Late

(* The handlers keep late requests from being served.                      *)
LEMMA LateHandle ==
  ASSUME Typed, RevocationInv, NEW r \in Requests, Handle(r)
  PROVE  RevocationInv'
<1> USE Known
<1>0. req[r].pc \in Steps => req[r].kind \in Kinds
  BY DEF HandlerOK
<1>a. ASSUME NEW kind, Rejection(kind) = "ok"
      PROVE  kind \notin LateKinds
  BY <1>a DEF Rejection, LateKinds, TokenKinds, ReadKinds
<1>1. CASE RejectMalformed(r)
  BY <1>1, <1>a, LateRespond DEF RejectMalformed
<1>2. CASE ReadRowForToken(r)
  <2> DEFINE row == apps[req[r].app]
  <2>1. ASSUME NEW a \in {"invalid_client", "app_not_verified", "invalid_grant"}, Respond(r, a)
        PROVE  RevocationInv'
    BY <1>2, <2>1, LateRespond DEF ReadRowForToken
  <2>2. ASSUME NEW step \in {"exchange", "check"}, NEW v \in Versions,
               step = "exchange" => req[r].kind = "code",
               req' = [req EXCEPT ![r] = [req[r] EXCEPT !.pc = step, !.version = v]]
        PROVE  RevocationInv'
    <3> DEFINE q == [req[r] EXCEPT !.pc = step, !.version = v]
    <3>1. req[r].pc \in Steps /\ req[r].kind # "revoke"
      BY <1>2 DEF ReadRowForToken, Steps, TokenKinds
    <3>2. /\ q.kind = req[r].kind /\ q.at = req[r].at /\ q.tok = req[r].tok
          /\ q.wasRevoked = req[r].wasRevoked /\ q.pc = step
      BY DEF Request
    <3>3. q \in Request
      BY DEF Request, Steps
    <3>4. req' = [req EXCEPT ![r] = q] /\ step \in Steps
      BY <2>2 DEF Steps
    <3>5. q.wasRevoked /\ q.kind \in LateKinds => Held(q)
      BY <2>2, <3>2 DEF LateKinds, Held
    <3> HIDE DEF q
    <3> QED
      BY <1>2, <3>1, <3>2, <3>3, <3>4, <3>5, LateGoto DEF ReadRowForToken
  <2>3. req[r].kind \in TokenKinds /\ req[r].pc = "row" /\ req[r].app \in Apps
    BY <1>2 DEF ReadRowForToken, HandlerOK, Steps
  <2>4. row.version \in Versions
    BY <2>3 DEF Typed, TypeOK, AppRow
  <2>5. req[r].kind = "refresh" /\ req[r].tok # Junk => req[r].tok.version \in Versions
    <3>1. req[r].kind = "refresh" /\ req[r].tok # Junk => req[r].tok \in Token
      BY <2>3 DEF HandlerOK, Steps
    <3> QED
      BY <3>1 DEF Token
  <2>6. CASE req' = [req EXCEPT ![r].pc = "exchange", ![r].version = row.version]
             /\ req[r].kind = "code"
    <3>1. req' = [req EXCEPT ![r] = [req[r] EXCEPT !.pc = "exchange", !.version = row.version]]
      BY <2>6
    <3> QED
      BY <2>2, <2>4, <2>6, <3>1
  <2>7. CASE /\ req' = [req EXCEPT ![r].pc = "check", ![r].version = req[r].tok.version]
             /\ req[r].kind = "refresh" /\ req[r].tok # Junk
    <3>1. req' = [req EXCEPT ![r] = [req[r] EXCEPT !.pc = "check",
                                                   !.version = req[r].tok.version]]
      BY <2>7
    <3> QED
      BY <2>2, <2>5, <2>7, <3>1
  <2> QED
    BY <1>2, <2>1, <2>6, <2>7 DEF ReadRowForToken
<1>3. CASE ReadRowForBearer(r)
  <2>1. ASSUME Goto(r, "check")
        PROVE  RevocationInv'
    BY <1>3, <2>1, MoveOn DEF ReadRowForBearer, Steps, PastMark
  <2>2. ASSUME Goto(r, "unwrap"), req[r].kind = "revoke"
        PROVE  RevocationInv'
    BY <1>3, <2>2, MoveOn DEF ReadRowForBearer, Steps, PastMark, LateKinds
  <2>3. ASSUME Respond(r, Rejection(req[r].kind)) \/ Respond(r, "not_found")
        PROVE  RevocationInv'
    BY <1>3, <1>a, <2>3, LateRespond DEF ReadRowForBearer
  <2> QED
    BY <1>3, <2>1, <2>2, <2>3 DEF ReadRowForBearer
<1>4. CASE CheckRevoked(r)
  <2>1. CASE IsRevoked(req[r].at, req[r].app, req[r].tok)
    BY <1>4, <1>a, <2>1, LateRespond DEF CheckRevoked
  <2>2. CASE ~IsRevoked(req[r].at, req[r].app, req[r].tok)
    <3>1. req[r].wasRevoked => req[r].tok.app # req[r].app
      BY <1>4, <2>2, RevocationBySlot DEF CheckRevoked, IsRevoked, Late, Steps
    <3> QED
      BY <1>4, <2>2, <3>1, MoveOn DEF CheckRevoked, Steps, PastMark
  <2> QED
    BY <2>1, <2>2
<1>5. CASE Unwrap(r)
  <2>1. ASSUME Respond(r, Rejection(req[r].kind))
        PROVE  RevocationInv'
    BY <1>5, <1>a, <2>1, LateRespond DEF Unwrap
  <2>2. ASSUME Goto(r, AfterUnwrap(req[r].kind)), req[r].tok.app = req[r].app
        PROVE  RevocationInv'
    <3> DEFINE step == AfterUnwrap(req[r].kind)
    <3>1. step \in Steps /\ (req[r].kind = "revoke" => step = "mark")
      BY DEF AfterUnwrap, Steps, ReadKinds
    <3>2. req[r].kind \in LateKinds => ~req[r].wasRevoked
      BY <1>5, <2>2, InTime DEF Unwrap, Steps, Held
    <3>3. Goto(r, step)
      BY <2>2
    <3> HIDE DEF step
    <3> QED
      BY <1>5, <3>1, <3>2, <3>3, MoveOn DEF Unwrap, Steps, PastMark
  <2> QED
    BY <1>5, <2>1, <2>2 DEF Unwrap, Opens
<1>6. CASE MarkRevoked(r)
  <2> DEFINE q == [req[r] EXCEPT !.pc = "remove"]
  <2>1. /\ req[r].kind = "revoke" /\ req[r].at \in Instances
    BY <1>6 DEF MarkRevoked, HandlerOK, Steps, Kinds, TokenKinds, BearerKinds, ReadKinds
  <2>2. /\ revoked' = [revoked EXCEPT ![req[r].at] = @ \cup {req[r].tok}]
        /\ revoked \in [Instances -> SUBSET Token]
    BY <1>6 DEF MarkRevoked, Typed, TypeOK
  <2>3. req[r].tok \in revoked'[req[r].at]
    BY <2>1, <2>2
  <2>4. Late(q, revoked')
    BY <2>1, <2>3 DEF Late, Request, LateKinds
  <2>5. \A i \in Instances : revoked[i] \subseteq revoked'[i]
    BY <2>1, <2>2
  <2>6. AckedRevoked'
    BY <1>6, <2>5, RevocationBySlot DEF AckedRevoked, MarkRevoked
  <2>7. req' = [req EXCEPT ![r] = q]
    BY <1>6 DEF MarkRevoked, Goto
  <2> HIDE DEF q
  <2> QED
    BY <2>4, <2>5, <2>6, <2>7, LateSlot
<1>7. CASE AccessRemove(r)
  <2>1. req[r].kind = "revoke"
    BY <1>7 DEF AccessRemove, HandlerOK, Steps, Kinds, TokenKinds, BearerKinds, ReadKinds
  <2> QED
    BY <1>7, <2>1, MoveOn DEF AccessRemove, Steps, PastMark, LateKinds
<1>8. CASE Exchange(r) \/ LoginMe(r)
  <2>1. req[r].pc \in {"exchange", "login"} /\ req[r].kind # "revoke"
    BY <1>8 DEF Exchange, LoginMe, HandlerOK, Steps
  <2>2. req[r].kind \in LateKinds => ~req[r].wasRevoked
    BY <2>1, InTime DEF Steps, Held
  <2>3. ASSUME NEW step \in Steps, NEW g \in Grants \cup {None}, NEW u \in Users \cup {None},
               req' = [req EXCEPT ![r] = [req[r] EXCEPT !.pc = step, !.grant = g, !.user = u]]
        PROVE  RevocationInv'
    <3> DEFINE q == [req[r] EXCEPT !.pc = step, !.grant = g, !.user = u]
    <3>1. /\ q.kind = req[r].kind /\ q.at = req[r].at /\ q.tok = req[r].tok
          /\ q.wasRevoked = req[r].wasRevoked /\ q.pc = step
      BY DEF Request
    <3>2. q \in Request
      BY DEF Request
    <3>3. req' = [req EXCEPT ![r] = q]
      BY <2>3
    <3> HIDE DEF q
    <3> QED
      BY <1>8, <2>1, <2>2, <3>1, <3>2, <3>3, LateGoto DEF Exchange, LoginMe, Steps
  <2>4. CASE Exchange(r)
    <3>1. PICK g \in Grants : \/ req' = [req EXCEPT ![r].pc = "login", ![r].grant = g]
                              \/ Respond(r, "upstream_error")
      BY <2>4 DEF Exchange
    <3>2. CASE Respond(r, "upstream_error")
      BY <2>4, <3>2, LateRespond DEF Exchange
    <3>3. CASE req' = [req EXCEPT ![r].pc = "login", ![r].grant = g]
      <4>1. req' = [req EXCEPT ![r] = [req[r] EXCEPT !.pc = "login", !.grant = g,
                                                     !.user = req[r].user]]
        BY <3>3 DEF Request
      <4>2. req[r].user \in Users \cup {None} /\ "login" \in Steps
        BY DEF Request, Steps
      <4> QED
        BY <2>3, <4>1, <4>2
    <3> QED
      BY <3>1, <3>2, <3>3
  <2>5. CASE LoginMe(r)
    <3> DEFINE step == IF req[r].kind = "userinfo" THEN "audit" ELSE "seal"
    <3>1. PICK s \in sessions : req' = [req EXCEPT ![r].user = s.user, ![r].pc = step]
      BY <2>5 DEF LoginMe
    <3>2. step \in Steps /\ s.user \in Users \cup {None}
      BY DEF Typed, TypeOK, Steps
    <3> HIDE DEF step
    <3>3. req' = [req EXCEPT ![r] = [req[r] EXCEPT !.pc = step, !.grant = req[r].grant,
                                                   !.user = s.user]]
      BY <3>1 DEF Request
    <3>4. req[r].grant \in Grants \cup {None}
      BY DEF Request
    <3> QED
      BY <2>3, <3>2, <3>3, <3>4
  <2> QED
    BY <1>8, <2>4, <2>5
<1>9. CASE ExchangeFails(r) \/ LoginMeFails(r) \/ StorageFails(r)
  BY <1>9, LateRespond DEF ExchangeFails, LoginMeFails, StorageFails
<1>10. CASE Seal(r)
  <2>1. req[r].kind # "revoke" /\ (req[r].kind \in LateKinds => ~req[r].wasRevoked)
    BY <1>10, InTime DEF Seal, HandlerOK, Steps, Held
  <2>2. ASSUME Goto(r, "audit")
        PROVE  RevocationInv'
    BY <1>10, <2>1, <2>2, MoveOn DEF Seal, Steps
  <2>3. ASSUME Respond(r, "server_error")
        PROVE  RevocationInv'
    BY <1>10, <2>3, LateRespond DEF Seal
  <2> QED
    BY <1>10, <2>2, <2>3 DEF Seal
<1>11. CASE AppendAudit(r)
  <2>1. req[r].kind \in LateKinds => ~req[r].wasRevoked
    BY <1>11, InTime DEF AppendAudit, Steps, Held
  <2> QED
    BY <1>11, <2>1, MoveOn DEF AppendAudit, Steps, PastMark
<1>12. CASE Reply(r)
  <2> DEFINE q == [Idle EXCEPT !.pc = "done", !.answer = "ok", !.kind = req[r].kind,
                               !.wasRevoked = req[r].wasRevoked,
                               !.wasDead = req[r].wasDead]
  <2>1. req[r].pc = "reply" /\ req[r].at \in Instances
    BY <1>12 DEF Reply, HandlerOK, Steps
  <2>2. req[r].kind \in LateKinds => ~req[r].wasRevoked
    BY <2>1, InTime DEF Steps, Held
  <2>3. q.pc = "done" /\ q.kind = req[r].kind /\ q.wasRevoked = req[r].wasRevoked
    BY DEF Idle
  <2>4. req' = [req EXCEPT ![r] = q] /\ revoked' = revoked
    BY <1>12 DEF Reply, Respond
  <2> HIDE DEF q
  <2>5. Late(q, revoked')
    BY <2>2, <2>3 DEF Late, PastMark, Steps
  <2>6. req[r].kind = "revoke" => req[r].tok \in revoked[req[r].at]
    BY <2>1, RevocationBySlot DEF Late, PastMark
  <2>7. AckedRevoked'
    <3>1. ASSUME NEW i \in Instances
          PROVE  acked'[i] \subseteq acked[i] \cup
                   (IF req[r].kind = "revoke" /\ i = req[r].at THEN {req[r].tok} ELSE {})
      BY <1>12, <2>1 DEF Reply, Typed, TypeOK
    <3> QED
      BY <2>4, <2>6, <3>1, RevocationBySlot DEF AckedRevoked
  <2> QED
    BY <2>4, <2>5, <2>7, LateSlot
<1> QED
  BY <1>1, <1>2, <1>3, <1>4, <1>5, <1>6, <1>7, <1>8, <1>9, <1>10, <1>11, <1>12 DEF Handle

(* A restart drops the revocations of the process and every request that   *)
(* relied on them; nothing else touches either.                            *)
LEMMA LateOthers ==
  ASSUME Typed, RevocationInv, Others
  PROVE  RevocationInv'
<1>1. ASSUME UNCHANGED <<revoked, acked, req>>
      PROVE  RevocationInv'
  BY <1>1, RevocationBySlot, RevocationBySlotNext DEF AckedRevoked
<1>2. ASSUME NEW i \in Instances, Restart(i)
      PROVE  RevocationInv'
  <2>1. ASSUME NEW r \in Requests
        PROVE  Late(req'[r], revoked')
    <3>1. CASE req[r].at = i
      <4>1. req'[r] = Idle
        BY <1>2, <3>1 DEF Restart
      <4> QED
        BY <4>1 DEF Late, Idle, Steps, PastMark
    <3>2. CASE req[r].at # i
      <4>1. req'[r] = req[r] /\ Late(req[r], revoked)
        BY <1>2, <3>2, RevocationBySlot DEF Restart
      <4>2. req[r].pc \in Steps => revoked'[req[r].at] = revoked[req[r].at]
        BY <1>2, <3>2, Known DEF Restart, HandlerOK, Typed, TypeOK
      <4>3. PastMark \subseteq Steps
        BY DEF PastMark, Steps
      <4> QED
        BY <4>1, <4>2, <4>3 DEF Late
    <3> QED
      BY <3>1, <3>2
  <2>2. AckedRevoked'
    BY <1>2, RevocationBySlot DEF Restart, AckedRevoked, Typed, TypeOK
  <2> QED
    BY <2>1, <2>2, RevocationBySlotNext
<1> QED
  BY <1>1, <1>2 DEF Others, DeleteApp, ToggleRawTokens, ChangeAccepted, MigrateApp,
                    ChangeKeys, ExpireAccess

(* A request that reaches a process after it answered the revocation of    *)
(* its token is never served by it, for any number of concurrent requests, *)
(* processes and crashes.                                                  *)
THEOREM RevokedNeverServed == Spec => []RevokedNotServed
<1>1. Init => RevocationInv
  BY DEF Init, RevocationInv, RevokedNotServed, Idle, Served, Active, Steps, PastMark
<1>2. Typed /\ RevocationInv /\ [Next]_vars => RevocationInv'
  <2> SUFFICES ASSUME Typed, RevocationInv, [Next]_vars PROVE RevocationInv'
    OBVIOUS
  <2>1. CASE UNCHANGED vars
    BY <2>1, RevocationBySlot, RevocationBySlotNext DEF vars, AckedRevoked
  <2> QED
    BY <2>1, LateClient, LateHandle, LateOthers DEF Next
<1>3. RevocationInv => RevokedNotServed
  BY DEF RevocationInv
<1> QED
  BY <1>1, <1>2, <1>3, AlwaysTyped, PTL DEF Spec


-----------------------------------------------------------------------------
(* What sealed tokens stand for: the session at Toss, the audit row, and   *)
(* what becomes of them when the session ends.                             *)

TossKinds == {"refresh", "userinfo"}      \* served only through a call to Toss

(* What LedgerInv asks of a slot holding q.                                *)
Sound(q, ss, sent, au, at, rt) ==
  /\ Backed(q, ss, sent, au, at, rt)
  /\ q.wasDead => ~(q.pc = "done" /\ q.answer = "ok" /\ q.kind \in TossKinds)

Functional(ss) == \A s1, s2 \in ss : s1.grant = s2.grant => s1 = s2

LEMMA LedgerBySlot ==
  LedgerInv <=> /\ Functional(sessions) /\ SealedAsGranted /\ IssuedIsAudited
                /\ \A r \in Requests : Sound(req[r], sessions, issued, audit, liveAt, liveRt)
  BY DEF LedgerInv, Functional, Sound, DeadSessionNotServed, Served, TossKinds

LEMMA LedgerBySlotNext ==
  LedgerInv' <=> /\ Functional(sessions') /\ SealedAsGranted' /\ IssuedIsAudited'
                 /\ \A r \in Requests :
                      Sound(req'[r], sessions', issued', audit', liveAt', liveRt')
  BY DEF LedgerInv, Functional, Sound, DeadSessionNotServed, Served, TossKinds

-----------------------------------------------------------------------------
(* Frames.                                                                 *)

Granted(g) == \E s \in sessions : s.grant = g

(* Nothing that is said of a slot is disturbed when sessions, tokens and   *)
(* audit rows are added and only new token sets come alive.                *)
LEMMA SoundStays ==
  ASSUME Typed, LedgerInv, NEW q, Sound(q, sessions, issued, audit, liveAt, liveRt),
         sessions \subseteq sessions', issued \subseteq issued', audit \subseteq audit',
         \A g : Granted(g) /\ g \in liveAt' => g \in liveAt,
         \A g : Granted(g) /\ g \in liveRt' => g \in liveRt
  PROVE  Sound(q, sessions', issued', audit', liveAt', liveRt')
<1>1. ASSUME q.wasDead, q.pc \in Steps, q.kind \in TossKinds
      PROVE  /\ q.tok # Junk
             /\ q.tok.grant \notin (IF q.kind = "refresh" THEN liveRt' ELSE liveAt')
  <2>1. q.tok # Junk /\ q.tok.grant \notin (IF q.kind = "refresh" THEN liveRt ELSE liveAt)
    BY <1>1 DEF Sound, Backed, TossKinds
  <2>2. q.tok \in issued
    BY <1>1, <2>1 DEF Sound, Backed, TossKinds
  <2>3. Granted(q.tok.grant)
    BY <2>2 DEF LedgerInv, SealedAsGranted, Granted
  <2> QED
    BY <2>1, <2>3
<1> QED
  BY <1>1 DEF Sound, Backed, TossKinds

(* One slot changes.                                                       *)
LEMMA LedgerSlot ==
  ASSUME Typed, LedgerInv, NEW r \in Requests, NEW q, req' = [req EXCEPT ![r] = q],
         Sound(q, sessions', issued', audit', liveAt', liveRt'),
         sessions \subseteq sessions', Functional(sessions'), audit \subseteq audit',
         \A g : Granted(g) /\ g \in liveAt' => g \in liveAt,
         \A g : Granted(g) /\ g \in liveRt' => g \in liveRt,
         issued \subseteq issued',
         \A t \in issued' \ issued :
           /\ [grant |-> t.grant, app |-> t.app, user |-> t.user] \in sessions'
           /\ \E e \in audit' : e.action \in TokenKinds /\ e.app = t.app /\ e.grant = t.grant
  PROVE  LedgerInv'
<1>1. ASSUME NEW x \in Requests
      PROVE  Sound(req'[x], sessions', issued', audit', liveAt', liveRt')
  <2>1. CASE x = r
    BY <2>1 DEF Typed, TypeOK
  <2>2. CASE x # r
    <3>1. req'[x] = req[x] /\ Sound(req[x], sessions, issued, audit, liveAt, liveRt)
      BY <2>2, LedgerBySlot DEF Typed, TypeOK
    <3> QED
      BY <3>1, SoundStays
  <2> QED
    BY <2>1, <2>2
<1>2. SealedAsGranted'
  BY DEF LedgerInv, SealedAsGranted
<1>3. IssuedIsAudited'
  BY DEF LedgerInv, IssuedIsAudited
<1> QED
  BY <1>1, <1>2, <1>3, LedgerBySlotNext

(* One slot changes, and Toss at most forgets.                             *)
LEMMA LedgerQuiet ==
  ASSUME Typed, LedgerInv, NEW r \in Requests, NEW q, req' = [req EXCEPT ![r] = q],
         Sound(q, sessions, issued, audit', liveAt', liveRt'),
         UNCHANGED <<sessions, issued>>, audit \subseteq audit',
         liveAt' \subseteq liveAt, liveRt' \subseteq liveRt
  PROVE  LedgerInv'
<1>1. Functional(sessions)
  BY LedgerBySlot
<1> QED
  BY <1>1, LedgerSlot

(* An answer that is not service through Toss, or to a request in time.    *)
LEMMA LedgerRespond ==
  ASSUME Typed, LedgerInv, NEW r \in Requests, NEW a, Respond(r, a),
         a = "ok" => ~req[r].wasDead \/ req[r].kind \notin TossKinds,
         UNCHANGED <<sessions, issued, audit, liveAt, liveRt>>
  PROVE  LedgerInv'
<1> DEFINE q == [Idle EXCEPT !.pc = "done", !.answer = a, !.kind = req[r].kind,
                             !.wasRevoked = req[r].wasRevoked,
                             !.wasDead = req[r].wasDead]
<1>1. /\ q.pc = "done" /\ q.answer = a /\ q.kind = req[r].kind
      /\ q.wasDead = req[r].wasDead
  BY DEF Idle
<1>2. req' = [req EXCEPT ![r] = q]
  BY DEF Respond
<1> HIDE DEF q
<1>3. Sound(q, sessions, issued, audit, liveAt, liveRt)
  BY <1>1 DEF Sound, Backed, Steps
<1> QED
  BY <1>2, <1>3, LedgerQuiet

(* A handler moves on; its locals stay.                                    *)
LEMMA LedgerGoto ==
  ASSUME Typed, LedgerInv, NEW r \in Requests, req[r].pc \in Steps,
         NEW step \in Steps, Goto(r, step),
         req[r].kind = "refresh" /\ step \notin {"row", "check", "unwrap"} =>
           req[r].tok.app = req[r].app,
         req[r].kind \in TokenKinds /\ step \in {"login", "seal", "audit", "reply"} =>
           \E s \in sessions : s.grant = req[r].grant /\ s.app = req[r].app
                               /\ s.user = req[r].user,
         req[r].kind \in TokenKinds /\ step = "reply" =>
           \E e \in audit' : e.action \in TokenKinds /\ e.app = req[r].app
                             /\ e.grant = req[r].grant,
         req[r].wasDead /\ req[r].kind \in TossKinds =>
           step \in {"row", "check", "unwrap"}
                    \cup {IF req[r].kind = "refresh" THEN "exchange" ELSE "login"},
         UNCHANGED <<sessions, issued>>, audit \subseteq audit',
         liveAt' \subseteq liveAt, liveRt' \subseteq liveRt
  PROVE  LedgerInv'
<1> DEFINE q == [req[r] EXCEPT !.pc = step]
<1>1. req[r] \in Request
  BY Known
<1>2. /\ q.kind = req[r].kind /\ q.tok = req[r].tok /\ q.app = req[r].app
      /\ q.grant = req[r].grant /\ q.user = req[r].user
      /\ q.wasDead = req[r].wasDead /\ q.pc = step
  BY <1>1 DEF Request
<1>3. req' = [req EXCEPT ![r] = q]
  BY DEF Goto
<1>4. Sound(req[r], sessions, issued, audit, liveAt, liveRt)
  BY LedgerBySlot
<1> HIDE DEF q
<1>5. q.pc \in Steps /\ q.pc # "done"
  BY <1>2 DEF Steps
<1>6. q.pc \in Steps /\ q.kind # "code" /\ q.tok # Junk => q.tok \in issued
  BY <1>2, <1>4 DEF Sound, Backed
<1>7. q.wasDead /\ q.pc \in Steps /\ q.kind \in TossKinds =>
        /\ q.tok # Junk /\ q.tok.grant \notin (IF q.kind = "refresh" THEN liveRt' ELSE liveAt')
        /\ q.pc \in {"row", "check", "unwrap"}
                    \cup {IF q.kind = "refresh" THEN "exchange" ELSE "login"}
  BY <1>2, <1>4 DEF Sound, Backed, TossKinds
<1>8. Sound(q, sessions, issued, audit', liveAt', liveRt')
  BY <1>2, <1>5, <1>6, <1>7 DEF Sound, Backed, TossKinds
<1> QED
  BY <1>3, <1>8, LedgerQuiet

-----------------------------------------------------------------------------
(* The steps of a request.                                                 *)

(* A client presents what it was sent, so it is backed.                    *)
LEMMA LedgerClient ==
  ASSUME Typed, LedgerInv, NEW r \in Requests, Client(r)
  PROVE  LedgerInv'
<1>1. ASSUME NEW i \in Instances, NEW tok \in issued \cup {Junk}, NEW live
      PROVE  /\ Presenting(i, tok, live).pc = "row"
             /\ Presenting(i, tok, live).tok = tok
             /\ Presenting(i, tok, live).wasDead => tok # Junk /\ tok.grant \notin live
  <2> DEFINE w == tok \in acked[i]
             d == tok # Junk /\ tok.grant \notin live
  <2>1. Presenting(i, tok, live) = [Idle EXCEPT !.pc = "row", !.at = i, !.tok = tok,
                                                !.wasRevoked = w, !.wasDead = d]
    BY DEF Presenting
  <2>2. d => tok # Junk /\ tok.grant \notin live
    OBVIOUS
  <2> HIDE DEF w, d
  <2> QED
    BY <2>1, <2>2 DEF Idle
<1>2. ASSUME NEW q, Arrive(r, q), q.pc = "row",
             q.kind # "code" /\ q.tok # Junk => q.tok \in issued,
             q.wasDead /\ q.kind \in TossKinds =>
               q.tok # Junk /\ q.tok.grant \notin (IF q.kind = "refresh" THEN liveRt ELSE liveAt)
      PROVE  LedgerInv'
  <2>1. Sound(q, sessions, issued, audit, liveAt, liveRt)
    BY <1>2 DEF Sound, Backed, TossKinds
  <2> QED
    BY <1>2, <2>1, LedgerQuiet DEF Arrive, storage, toss
<1>3. ASSUME NEW i \in Instances, NEW a \in Apps, NEW cred \in Credentials,
             NEW code \in Codes, ArriveCode(r, i, a, cred, code)
      PROVE  LedgerInv'
  BY <1>2, <1>3 DEF ArriveCode, Idle, TossKinds
<1>4. ASSUME NEW i \in Instances, NEW a \in Apps, NEW cred \in Credentials,
             NEW tok \in issued \cup {Junk}, ArriveRefresh(r, i, a, cred, tok)
      PROVE  LedgerInv'
  <2> DEFINE q0 == Presenting(i, tok, liveRt)
             q == [q0 EXCEPT !.kind = "refresh", !.app = a, !.cred = cred]
  <2>1. /\ q0.pc = "row" /\ q0.tok = tok
        /\ q0.wasDead => tok # Junk /\ tok.grant \notin liveRt
    BY <1>1
  <2>2. q.pc = q0.pc /\ q.tok = q0.tok /\ q.wasDead = q0.wasDead /\ q.kind = "refresh"
    BY DEF Presenting, Idle
  <2>3. Arrive(r, q)
    BY <1>4 DEF ArriveRefresh
  <2> HIDE DEF q0, q
  <2> QED
    BY <1>2, <2>1, <2>2, <2>3
<1>5. ASSUME NEW i \in Instances, NEW kind \in BearerKinds,
             NEW tok \in issued \cup {Junk}, ArriveBearer(r, i, kind, tok)
      PROVE  LedgerInv'
  <2> DEFINE q0 == Presenting(i, tok, liveAt)
             a == IF tok = Junk THEN None ELSE tok.app
             q == [q0 EXCEPT !.kind = kind, !.app = a]
  <2>1. /\ q0.pc = "row" /\ q0.tok = tok
        /\ q0.wasDead => tok # Junk /\ tok.grant \notin liveAt
    BY <1>1
  <2>2. q.pc = q0.pc /\ q.tok = q0.tok /\ q.wasDead = q0.wasDead /\ q.kind = kind
    BY DEF Presenting, Idle
  <2>3. Arrive(r, q) /\ kind # "refresh"
    BY <1>5 DEF ArriveBearer, BearerKinds, ReadKinds
  <2> HIDE DEF q0, q
  <2> QED
    BY <1>2, <2>1, <2>2, <2>3
<1>6. CASE Finish(r)
  <2>1. Sound(Idle, sessions, issued, audit, liveAt, liveRt)
    BY DEF Sound, Backed, Idle, Steps
  <2> QED
    BY <1>6, <2>1, LedgerQuiet DEF Finish, storage, toss
<1> QED
  BY <1>3, <1>4, <1>5, <1>6 DEF Client

(* Past the call to Toss, a request through Toss was in time.              *)
LEMMA Alive ==
  ASSUME Typed, LedgerInv, NEW r \in Requests, req[r].kind \in TossKinds,
         req[r].pc \in {"seal", "audit", "reply"}
                       \cup {IF req[r].kind = "refresh" THEN "login" ELSE "exchange"}
  PROVE  ~req[r].wasDead
  BY LedgerBySlot DEF Sound, Backed, Steps, TossKinds

LEMMA LedgerRow ==
  ASSUME Typed, LedgerInv, NEW r \in Requests,
         RejectMalformed(r) \/ ReadRowForToken(r) \/ ReadRowForBearer(r)
  PROVE  LedgerInv'
<1> USE Known
<1>0. ASSUME NEW kind, Rejection(kind) = "ok"
      PROVE  kind \notin TossKinds
  BY <1>0 DEF Rejection, TossKinds, TokenKinds, ReadKinds
<1>1. CASE RejectMalformed(r)
  BY <1>0, <1>1, LedgerRespond DEF RejectMalformed, storage, toss
<1>2. CASE ReadRowForToken(r)
  <2> DEFINE row == apps[req[r].app]
  <2>1. ASSUME NEW a \in {"invalid_client", "app_not_verified", "invalid_grant"}, Respond(r, a)
        PROVE  LedgerInv'
    BY <1>2, <2>1, LedgerRespond DEF ReadRowForToken, storage, toss
  <2>2. ASSUME NEW step \in {"exchange", "check"}, NEW v,
               step = "exchange" => req[r].kind = "code",
               req' = [req EXCEPT ![r] = [req[r] EXCEPT !.pc = step, !.version = v]]
        PROVE  LedgerInv'
    <3> DEFINE q == [req[r] EXCEPT !.pc = step, !.version = v]
    <3>1. /\ q.kind = req[r].kind /\ q.tok = req[r].tok /\ q.app = req[r].app
          /\ q.wasDead = req[r].wasDead /\ q.pc = step
      BY DEF Request
    <3>2. req' = [req EXCEPT ![r] = q]
      BY <2>2
    <3> HIDE DEF q
    <3>3. Sound(req[r], sessions, issued, audit, liveAt, liveRt) /\ req[r].pc = "row"
      BY <1>2, LedgerBySlot DEF ReadRowForToken
    <3>4. Sound(q, sessions, issued, audit, liveAt, liveRt)
      BY <2>2, <3>1, <3>3 DEF Sound, Backed, Steps, TossKinds
    <3> QED
      BY <1>2, <3>2, <3>4, LedgerQuiet DEF ReadRowForToken, storage, toss
  <2>3. CASE req' = [req EXCEPT ![r].pc = "exchange", ![r].version = row.version]
             /\ req[r].kind = "code"
    <3>1. req' = [req EXCEPT ![r] = [req[r] EXCEPT !.pc = "exchange", !.version = row.version]]
      BY <2>3
    <3> QED
      BY <2>2, <2>3, <3>1
  <2>4. CASE req' = [req EXCEPT ![r].pc = "check", ![r].version = req[r].tok.version]
    <3>1. req' = [req EXCEPT ![r] = [req[r] EXCEPT !.pc = "check",
                                                   !.version = req[r].tok.version]]
      BY <2>4
    <3> QED
      BY <2>2, <3>1
  <2> QED
    BY <1>2, <2>1, <2>3, <2>4 DEF ReadRowForToken
<1>3. CASE ReadRowForBearer(r)
  <2>1. ASSUME NEW step \in {"check", "unwrap"}, Goto(r, step)
        PROVE  LedgerInv'
    BY <1>3, <2>1, LedgerGoto DEF ReadRowForBearer, Steps, storage, toss
  <2>2. ASSUME Respond(r, Rejection(req[r].kind)) \/ Respond(r, "not_found")
        PROVE  LedgerInv'
    BY <1>0, <1>3, <2>2, LedgerRespond DEF ReadRowForBearer, storage, toss
  <2> QED
    BY <1>3, <2>1, <2>2 DEF ReadRowForBearer
<1> QED
  BY <1>1, <1>2, <1>3

LEMMA LedgerCheck ==
  ASSUME Typed, LedgerInv, NEW r \in Requests, CheckRevoked(r) \/ Unwrap(r)
  PROVE  LedgerInv'
<1> USE Known
<1>1. ASSUME Respond(r, Rejection(req[r].kind))
      PROVE  LedgerInv'
  <2>1. Rejection(req[r].kind) = "ok" => req[r].kind \notin TossKinds
    BY DEF Rejection, TossKinds, TokenKinds, ReadKinds
  <2> QED
    BY <1>1, <2>1, LedgerRespond DEF CheckRevoked, Unwrap, storage, toss
<1>2. CASE CheckRevoked(r)
  <2>1. ASSUME Goto(r, "unwrap")
        PROVE  LedgerInv'
    BY <1>2, <2>1, LedgerGoto DEF CheckRevoked, Steps, storage, toss
  <2> QED
    BY <1>1, <1>2, <2>1 DEF CheckRevoked
<1>3. CASE Unwrap(r)
  <2>1. ASSUME Goto(r, AfterUnwrap(req[r].kind)), req[r].tok.app = req[r].app
        PROVE  LedgerInv'
    <3> DEFINE step == AfterUnwrap(req[r].kind)
    <3>1. /\ step \in Steps
          /\ req[r].kind = "refresh" => step = "exchange"
          /\ req[r].kind = "userinfo" => step = "login"
      BY DEF AfterUnwrap, Steps, ReadKinds
    <3>2. Goto(r, step)
      BY <2>1
    <3>3. req[r].pc = "unwrap" /\ req[r].kind # "code"
      BY <1>3 DEF Unwrap, HandlerOK, Steps
    <3> HIDE DEF step
    <3> QED
      BY <1>3, <2>1, <3>1, <3>2, <3>3, LedgerGoto DEF Unwrap, Steps, TokenKinds, TossKinds, storage, toss
  <2> QED
    BY <1>1, <1>3, <2>1 DEF Unwrap, Opens
<1> QED
  BY <1>2, <1>3

LEMMA LedgerRevoke ==
  ASSUME Typed, LedgerInv, NEW r \in Requests, MarkRevoked(r) \/ AccessRemove(r)
  PROVE  LedgerInv'
<1> USE Known
<1>1. req[r].kind = "revoke" /\ req[r].pc \in {"mark", "remove"}
  BY DEF MarkRevoked, AccessRemove, HandlerOK, Steps, Kinds, TokenKinds, BearerKinds, ReadKinds
<1>2. CASE MarkRevoked(r)
  BY <1>1, <1>2, LedgerGoto DEF MarkRevoked, Steps, TokenKinds, TossKinds, storage, toss
<1>3. CASE AccessRemove(r)
  <2>1. liveAt' \subseteq liveAt /\ liveRt' \subseteq liveRt
    BY <1>3 DEF AccessRemove
  <2> QED
    BY <1>1, <1>3, <2>1, LedgerGoto DEF AccessRemove, Steps, TokenKinds, TossKinds, storage
<1> QED
  BY <1>2, <1>3

(* The token set Toss hands out belongs to the app that asked.             *)
LEMMA LedgerExchange ==
  ASSUME Typed, LedgerInv, NEW r \in Requests, Exchange(r)
  PROVE  LedgerInv'
<1> USE Known
<1>1. PICK g \in Grants :
        /\ \A s \in sessions : s.grant # g
        /\ RedeemCode(r, g) \/ RedeemRefreshToken(r, g)
        /\ \/ req' = [req EXCEPT ![r].pc = "login", ![r].grant = g]
           \/ Respond(r, "upstream_error")
  BY DEF Exchange
<1>2. Sound(req[r], sessions, issued, audit, liveAt, liveRt) /\ Functional(sessions)
  BY LedgerBySlot
<1>3. req[r].pc = "exchange" /\ UNCHANGED <<issued, audit>>
  BY DEF Exchange, storage
<1>4. PICK n \in [grant : {g}, app : {req[r].app}, user : Users] :
        sessions' = sessions \cup {n}
  <2>1. CASE RedeemCode(r, g)
    <3>1. req[r].code \in [app : Apps, user : Users, seq : Nat]
      BY <2>1, CodesAssumption DEF RedeemCode, Typed, TypeOK
    <3> QED
      BY <2>1, <3>1 DEF RedeemCode
  <2>2. CASE RedeemRefreshToken(r, g)
    <3>1. PICK s \in sessions : s.grant = req[r].tok.grant
                                /\ sessions' = sessions \cup {[s EXCEPT !.grant = g]}
      BY <2>2 DEF RedeemRefreshToken
    <3>2. req[r].tok \in Token /\ req[r].tok # Junk /\ req[r].tok.app = req[r].app
      BY <1>2, <1>3, <2>2, NoneAssumption DEF RedeemRefreshToken, HandlerOK, Steps, Sound, Backed
    <3>3. req[r].tok \in issued
      BY <1>2, <1>3, <2>2, <3>2 DEF RedeemRefreshToken, Sound, Backed, Steps
    <3>4. [grant |-> req[r].tok.grant, app |-> req[r].app, user |-> req[r].tok.user] \in sessions
      BY <3>2, <3>3 DEF LedgerInv, SealedAsGranted
    <3>5. s = [grant |-> req[r].tok.grant, app |-> req[r].app, user |-> req[r].tok.user]
      BY <1>2, <3>1, <3>4 DEF Functional
    <3>6. [s EXCEPT !.grant = g] = [grant |-> g, app |-> req[r].app, user |-> req[r].tok.user]
      BY <3>5
    <3>7. req[r].tok.user \in Users
      BY <3>2 DEF Token
    <3> QED
      BY <3>1, <3>6, <3>7
  <2> QED
    BY <1>1, <2>1, <2>2
<1>5. sessions \subseteq sessions' /\ Functional(sessions')
  BY <1>1, <1>2, <1>4 DEF Functional
<1>6. ~Granted(g) /\ liveAt' \subseteq liveAt \cup {g} /\ liveRt' \subseteq liveRt \cup {g}
  BY <1>1 DEF Granted, RedeemCode, RedeemRefreshToken
<1>7. ASSUME NEW q, req' = [req EXCEPT ![r] = q],
             Sound(q, sessions', issued, audit, liveAt', liveRt')
      PROVE  LedgerInv'
  BY <1>3, <1>5, <1>6, <1>7, LedgerSlot
<1>8. CASE Respond(r, "upstream_error")
  <2> DEFINE q == [Idle EXCEPT !.pc = "done", !.answer = "upstream_error", !.kind = req[r].kind,
                               !.wasRevoked = req[r].wasRevoked,
                               !.wasDead = req[r].wasDead]
  <2>1. q.pc = "done" /\ q.answer = "upstream_error"
    BY DEF Idle
  <2>2. req' = [req EXCEPT ![r] = q]
    BY <1>8 DEF Respond
  <2> HIDE DEF q
  <2>3. Sound(q, sessions', issued, audit, liveAt', liveRt')
    BY <2>1 DEF Sound, Backed, Steps
  <2> QED
    BY <1>7, <2>2, <2>3
<1>9. CASE req' = [req EXCEPT ![r].pc = "login", ![r].grant = g]
  <2> DEFINE q == [req[r] EXCEPT !.pc = "login", !.grant = g]
  <2>1. /\ q.pc = "login" /\ q.grant = g /\ q.kind = req[r].kind /\ q.tok = req[r].tok
        /\ q.app = req[r].app /\ q.wasDead = req[r].wasDead
    BY DEF Request
  <2>2. req' = [req EXCEPT ![r] = q]
    BY <1>9
  <2>3. req[r].kind \in TokenKinds /\ req[r].kind # "userinfo"
    BY <1>1 DEF RedeemCode, RedeemRefreshToken, TokenKinds
  <2>4. req[r].kind = "refresh" => ~req[r].wasDead
    BY <1>1, <1>2, <1>3 DEF RedeemCode, RedeemRefreshToken, Sound, Backed, Steps
  <2> HIDE DEF q
  <2>5. \E s \in sessions' : s.grant = q.grant /\ s.app = q.app
    BY <1>4, <2>1
  <2>6. q.kind # "code" /\ q.tok # Junk => q.tok \in issued
    BY <1>2, <1>3, <2>1 DEF Sound, Backed, Steps
  <2>7. q.kind = "refresh" => q.tok.app = q.app
    BY <1>2, <1>3, <2>1 DEF Sound, Backed, Steps
  <2>8. Sound(q, sessions', issued, audit, liveAt', liveRt')
    BY <2>1, <2>3, <2>4, <2>5, <2>6, <2>7 DEF Sound, Backed, TossKinds
  <2> QED
    BY <1>7, <2>2, <2>8
<1> QED
  BY <1>1, <1>8, <1>9

(* login-me answers for the session it is asked about, while that lives.   *)
LEMMA LedgerLogin ==
  ASSUME Typed, LedgerInv, NEW r \in Requests, LoginMe(r)
  PROVE  LedgerInv'
<1> USE Known
<1> DEFINE step == IF req[r].kind = "userinfo" THEN "audit" ELSE "seal"
<1>1. PICK s \in sessions : /\ s.grant = LoginGrant(r)
                            /\ req' = [req EXCEPT ![r].user = s.user, ![r].pc = step]
  BY DEF LoginMe
<1>2. Sound(req[r], sessions, issued, audit, liveAt, liveRt) /\ Functional(sessions)
  BY LedgerBySlot
<1> DEFINE q == [req[r] EXCEPT !.user = s.user, !.pc = step]
<1>3. /\ q.pc = step /\ q.grant = req[r].grant /\ q.kind = req[r].kind /\ q.tok = req[r].tok
      /\ q.app = req[r].app /\ q.wasDead = req[r].wasDead /\ q.user = s.user
  BY DEF Request
<1>4. req' = [req EXCEPT ![r] = q]
  BY <1>1
<1>5. step \in {"audit", "seal"} /\ (step = "audit" <=> req[r].kind = "userinfo")
  OBVIOUS
<1> HIDE DEF q, step
<1>6. req[r].pc = "login" /\ LoginGrant(r) \in liveAt /\ UNCHANGED <<sessions, issued, audit, liveAt, liveRt>>
  BY DEF LoginMe, storage, toss
<1>7. req[r].kind \in TossKinds => ~req[r].wasDead
  <2>1. CASE req[r].kind = "userinfo"
    BY <1>2, <1>6, <2>1 DEF LoginGrant, Sound, Backed, Steps
  <2>2. CASE req[r].kind = "refresh"
    BY <1>2, <1>6, <2>2 DEF Sound, Backed, Steps
  <2> QED
    BY <2>1, <2>2 DEF TossKinds
<1>8. req[r].kind \in TokenKinds => s.grant = req[r].grant /\ s.app = req[r].app
  <2> SUFFICES ASSUME req[r].kind \in TokenKinds PROVE s.grant = req[r].grant /\ s.app = req[r].app
    OBVIOUS
  <2>1. s.grant = req[r].grant
    BY <1>1 DEF LoginGrant, TokenKinds
  <2>2. PICK t \in sessions : t.grant = req[r].grant /\ t.app = req[r].app
    BY <1>2, <1>6 DEF Sound, Backed
  <2> QED
    BY <1>2, <2>1, <2>2 DEF Functional
<1>9. q.kind # "code" /\ q.tok # Junk => q.tok \in issued
  BY <1>2, <1>3, <1>6 DEF Sound, Backed, Steps
<1>10. q.kind = "refresh" => q.tok.app = q.app
  BY <1>2, <1>3, <1>6 DEF Sound, Backed, Steps
<1>11. q.kind \in TokenKinds => \E x \in sessions : x.grant = q.grant /\ x.app = q.app /\ x.user = q.user
  BY <1>3, <1>8
<1>12. q.pc \in {"audit", "seal"} /\ q.pc # "reply"
  BY <1>3, <1>5
<1>13. q.kind \in TossKinds => ~q.wasDead
  BY <1>3, <1>7
<1>14. Sound(q, sessions, issued, audit, liveAt, liveRt)
  BY <1>9, <1>10, <1>11, <1>12, <1>13 DEF Sound, Backed, TossKinds
<1> QED
  BY <1>4, <1>6, <1>14, LedgerQuiet

(* What sealing and the audit row need is carried along.                   *)
LEMMA LedgerSeal ==
  ASSUME Typed, LedgerInv, NEW r \in Requests, Seal(r) \/ AppendAudit(r)
  PROVE  LedgerInv'
<1> USE Known
<1>1. Sound(req[r], sessions, issued, audit, liveAt, liveRt)
  BY LedgerBySlot
<1>2. req[r].pc \in {"seal", "audit"} /\ req[r].pc \in Steps
  BY DEF Seal, AppendAudit, Steps
<1>3. /\ req[r].kind \in TossKinds => ~req[r].wasDead
      /\ req[r].kind = "refresh" => req[r].tok.app = req[r].app
      /\ req[r].kind \in TokenKinds =>
           \E s \in sessions : s.grant = req[r].grant /\ s.app = req[r].app
                               /\ s.user = req[r].user
  BY <1>1, <1>2, Alive DEF Sound, Backed, TossKinds
<1>4. CASE Seal(r)
  <2>1. ASSUME Goto(r, "audit")
        PROVE  LedgerInv'
    BY <1>2, <1>3, <1>4, <2>1, LedgerGoto DEF Seal, Steps, storage, toss
  <2>2. ASSUME Respond(r, "server_error")
        PROVE  LedgerInv'
    BY <1>4, <2>2, LedgerRespond DEF Seal, storage, toss
  <2> QED
    BY <1>4, <2>1, <2>2 DEF Seal
<1>5. CASE AppendAudit(r)
  <2>1. req[r].kind \in TokenKinds =>
          \E e \in audit' : e.action \in TokenKinds /\ e.app = req[r].app
                            /\ e.grant = req[r].grant
    <3> DEFINE e == [action |-> req[r].kind, app |-> req[r].app, grant |-> Subject(r)]
    <3>1. e \in audit'
      BY <1>5 DEF AppendAudit
    <3>2. req[r].kind \in TokenKinds => e.action \in TokenKinds /\ e.grant = req[r].grant
      BY DEF Subject
    <3>3. e.app = req[r].app
      OBVIOUS
    <3> QED
      BY <3>1, <3>2, <3>3
  <2>2. audit \subseteq audit' /\ "reply" \in Steps
    BY <1>5 DEF AppendAudit, Steps
  <2> QED
    BY <1>2, <1>3, <1>5, <2>1, <2>2, LedgerGoto DEF AppendAudit, toss
<1> QED
  BY <1>4, <1>5

(* The tokens sent are sealed for the session and were audited.            *)
LEMMA LedgerReply ==
  ASSUME Typed, LedgerInv, NEW r \in Requests, Reply(r)
  PROVE  LedgerInv'
<1> USE Known
<1> DEFINE q == [Idle EXCEPT !.pc = "done", !.answer = "ok", !.kind = req[r].kind,
                             !.wasRevoked = req[r].wasRevoked,
                             !.wasDead = req[r].wasDead]
<1>1. Sound(req[r], sessions, issued, audit, liveAt, liveRt) /\ Functional(sessions)
  BY LedgerBySlot
<1>2. q.pc = "done" /\ q.kind = req[r].kind /\ q.wasDead = req[r].wasDead
  BY DEF Idle
<1>3. req' = [req EXCEPT ![r] = q] /\ req[r].pc = "reply"
      /\ UNCHANGED <<sessions, audit, liveAt, liveRt>>
  BY DEF Reply, Respond, storage, toss
<1> HIDE DEF q
<1>4. req[r].kind \in TossKinds => ~req[r].wasDead
  BY <1>3, Alive
<1>5. Sound(q, sessions', issued', audit', liveAt', liveRt')
  BY <1>2, <1>4 DEF Sound, Backed, Steps
<1>6. issued \subseteq issued'
  BY DEF Reply
<1>7. ASSUME NEW t \in issued' \ issued
      PROVE  /\ [grant |-> t.grant, app |-> t.app, user |-> t.user] \in sessions'
             /\ \E e \in audit' : e.action \in TokenKinds /\ e.app = t.app /\ e.grant = t.grant
  <2>1. /\ req[r].kind \in TokenKinds
        /\ t \in {Sealed(r, "access"), Sealed(r, "refresh")}
    BY <1>7 DEF Reply
  <2>2. t.grant = req[r].grant /\ t.app = req[r].app /\ t.user = req[r].user
    BY <2>1 DEF Sealed
  <2>3. PICK s \in sessions : s.grant = req[r].grant /\ s.app = req[r].app
                              /\ s.user = req[r].user
    BY <1>1, <1>3, <2>1 DEF Sound, Backed
  <2>4. s = [grant |-> t.grant, app |-> t.app, user |-> t.user]
    BY <2>2, <2>3 DEF Typed, TypeOK
  <2>5. \E e \in audit : e.action \in TokenKinds /\ e.app = t.app /\ e.grant = t.grant
    BY <1>1, <1>3, <2>1, <2>2 DEF Sound, Backed
  <2> QED
    BY <1>3, <2>3, <2>4, <2>5
<1> QED
  BY <1>1, <1>3, <1>5, <1>6, <1>7, LedgerSlot

LEMMA LedgerFails ==
  ASSUME Typed, LedgerInv, NEW r \in Requests,
         ExchangeFails(r) \/ LoginMeFails(r) \/ StorageFails(r)
  PROVE  LedgerInv'
  BY LedgerRespond DEF ExchangeFails, LoginMeFails, StorageFails, storage, toss

(* Operators and crashes touch none of it; an access token that runs out   *)
(* at Toss only makes more requests late.                                  *)
LEMMA LedgerOthers ==
  ASSUME Typed, LedgerInv, Others
  PROVE  LedgerInv'
<1>1. ASSUME UNCHANGED <<sessions, issued, audit, liveRt>>, liveAt' \subseteq liveAt,
             \A r \in Requests : req'[r] \in {req[r], Idle}
      PROVE  LedgerInv'
  <2>1. Sound(Idle, sessions, issued, audit, liveAt, liveRt)
    BY DEF Sound, Backed, Idle, Steps
  <2>2. ASSUME NEW r \in Requests
        PROVE  Sound(req'[r], sessions', issued', audit', liveAt', liveRt')
    <3>1. Sound(req'[r], sessions, issued, audit, liveAt, liveRt)
      BY <1>1, <2>1, LedgerBySlot
    <3> QED
      BY <1>1, <3>1, SoundStays
  <2>3. SealedAsGranted' /\ IssuedIsAudited' /\ Functional(sessions')
    BY <1>1, LedgerBySlot DEF SealedAsGranted, IssuedIsAudited
  <2> QED
    BY <2>2, <2>3, LedgerBySlotNext
<1>2. UNCHANGED <<sessions, issued, audit, liveRt>> /\ liveAt' \subseteq liveAt
  BY DEF Others, DeleteApp, ToggleRawTokens, ChangeAccepted, MigrateApp, ChangeKeys,
         ExpireAccess, Restart, storage, toss
<1>3. \A r \in Requests : req'[r] \in {req[r], Idle}
  BY DEF Others, DeleteApp, ToggleRawTokens, ChangeAccepted, MigrateApp, ChangeKeys,
         ExpireAccess, Restart
<1> QED
  BY <1>1, <1>2, <1>3

LEMMA LedgerStep == Typed /\ LedgerInv /\ [Next]_vars => LedgerInv'
<1> SUFFICES ASSUME Typed, LedgerInv, [Next]_vars PROVE LedgerInv'
  OBVIOUS
<1>1. CASE UNCHANGED vars
  BY <1>1, LedgerBySlot, LedgerBySlotNext DEF vars, SealedAsGranted, IssuedIsAudited
<1>2. ASSUME NEW r \in Requests, Handle(r)
      PROVE  LedgerInv'
  BY <1>2, LedgerRow, LedgerCheck, LedgerRevoke, LedgerExchange, LedgerLogin, LedgerSeal,
     LedgerReply, LedgerFails DEF Handle
<1> QED
  BY <1>1, <1>2, LedgerClient, LedgerOthers DEF Next

LEMMA AlwaysLedger == Spec => []LedgerInv
<1>1. Init => LedgerInv
  <2> SUFFICES ASSUME Init PROVE LedgerInv
    OBVIOUS
  <2>1. Sound(Idle, sessions, issued, audit, liveAt, liveRt)
    BY DEF Sound, Backed, Idle, Steps
  <2> QED
    BY <2>1, LedgerBySlot DEF Init, Functional, SealedAsGranted, IssuedIsAudited
<1> QED
  BY <1>1, LedgerStep, AlwaysTyped, PTL DEF Spec

(* Every token a client holds seals a session that Toss granted to the app *)
(* and the user named in it, after any chain of refreshes.                 *)
THEOREM SealsAreGrants == Spec => []SealedAsGranted
  BY AlwaysLedger, PTL DEF LedgerInv

(* Every token a client holds has its issue in the audit table, whichever  *)
(* step of whichever request failed.                                       *)
THEOREM IssuesAreAudited == Spec => []IssuedIsAudited
  BY AlwaysLedger, PTL DEF LedgerInv

(* Nothing is served through Toss for a session it had dropped before the  *)
(* request arrived.                                                        *)
THEOREM DeadNeverServed == Spec => []DeadSessionNotServed
  BY AlwaysLedger, PTL DEF LedgerInv

=============================================================================
