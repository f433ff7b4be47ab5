--------------------------- MODULE OidcEndpoints ---------------------------
(***************************************************************************)
(* The OIDC request handlers of the bridge: POST /oidc/token (both         *)
(* grants), GET /oidc/userinfo, GET /oidc/raw-tokens and POST /oidc/revoke *)
(* (src/oidc/{token,userinfo,raw-tokens,revoke}-route.ts,                  *)
(* token-service.ts, revocation-store.ts), running concurrently on one or  *)
(* more server processes against one storage and one upstream, Toss.       *)
(*                                                                         *)
(* A handler is a chain of awaits.  Each action below is the code between  *)
(* two of them that touch something shared: the app row, the revocation    *)
(* set of the process, the master keys, Toss, the audit table.  Between    *)
(* any two actions of one request every other request, an administrator    *)
(* or a crash may act.                                                     *)
(*                                                                         *)
(* A sealed token is the record of what is sealed in it.  It can only be   *)
(* opened by the holder of the key of its version, so clients present      *)
(* tokens they were issued, or Junk, which stands for every string that    *)
(* does not parse.                                                         *)
(***************************************************************************)
EXTENDS Naturals, FiniteSets

CONSTANTS
  Apps,          \* ids of the rows of the apps table
  Users,         \* Toss user keys
  Credentials,   \* client secrets and browser origins
  Versions,      \* master key (sealing key) versions
  Grants,        \* names of the token sets Toss hands out, one AT/RT pair each
  Codes,         \* authorization codes Toss gave to mini-apps
  Instances,     \* server processes
  Requests,      \* concurrent request slots
  Asked,         \* bound: the kinds of request clients send
  Disturbances,  \* bound: what operators and crashes may do
  Junk,          \* a token string that does not parse
  None           \* a field that does not apply

ASSUME CodesAssumption == Codes \subseteq [app : Apps, user : Users, seq : Nat]
ASSUME VersionsAssumption == Versions \subseteq Nat

Token == [type : {"access", "refresh"}, app : Apps, user : Users,
          version : Versions, grant : Grants]

ASSUME BoundsAssumption ==
  /\ Asked \subseteq {"code", "refresh", "userinfo", "raw", "revoke"}
  /\ Disturbances \subseteq {"delete", "raw", "accepts", "migrate", "keys", "restart",
                     "expire"}

ASSUME NoneAssumption ==
  /\ None \notin Apps /\ None \notin Users /\ None \notin Credentials
  /\ None \notin Versions /\ None \notin Grants /\ None \notin Codes
  /\ None \notin Instances /\ None \notin Token /\ None # Junk
  /\ Junk \notin Token

VARIABLES
  apps,      \* apps table: the columns the handlers read
  keys,      \* versions whose bytes the master key provider returns
  revoked,   \* per process: the in-memory revocation Set
  audit,     \* audit table
  codes,     \* at Toss: codes not redeemed yet
  sessions,  \* at Toss: whom each granted token set belongs to
  liveAt,    \* at Toss: token sets whose access token is accepted
  liveRt,    \* at Toss: token sets whose refresh token is accepted
  issued,    \* sealed tokens clients have been sent
  acked,     \* history: tokens whose revocation was answered, per process
  req        \* the requests in flight

storage == <<apps, audit>>
toss == <<codes, sessions, liveAt, liveRt>>
vars == <<apps, keys, revoked, audit, codes, sessions, liveAt, liveRt,
          issued, acked, req>>

-----------------------------------------------------------------------------
(* Requests.                                                               *)

TokenKinds == {"code", "refresh"}        \* POST /oidc/token
ReadKinds == {"userinfo", "raw"}         \* bearer routes
BearerKinds == ReadKinds \cup {"revoke"}
Kinds == TokenKinds \cup BearerKinds

Answers == {"ok", "invalid_client", "app_not_verified", "invalid_grant",
            "invalid_token", "not_found", "upstream_error", "server_error"}

(* Where a handler is: the await it is about to perform.                   *)
Steps == {"row", "check", "unwrap", "mark", "remove", "exchange", "login",
          "seal", "audit", "reply"}

Request ==
  [pc : {"idle", "done"} \cup Steps,
   kind : Kinds \cup {None},
   at : Instances \cup {None},
   app : Apps \cup {None},           \* client_id, or the app named in the token
   cred : Credentials \cup {None},
   code : Codes \cup {None},
   tok : Token \cup {Junk, None},    \* the sealed token presented
   version : Versions \cup {None},   \* sealing version the response will use
   grant : Grants \cup {None},       \* token set obtained from Toss
   user : Users \cup {None},         \* subject returned by login-me
   answer : Answers \cup {None},
   wasRevoked : BOOLEAN,   \* history: tok's revocation was answered before arrival
   wasDead : BOOLEAN]      \* history: Toss no longer took what is sealed in tok

Idle == [pc |-> "idle", kind |-> None, at |-> None, app |-> None, cred |-> None,
         code |-> None, tok |-> None, version |-> None, grant |-> None,
         user |-> None, answer |-> None, wasRevoked |-> FALSE, wasDead |-> FALSE]

Active(r) == req[r].pc \in Steps

AppRow == [present : BOOLEAN, verified : BOOLEAN, raw : BOOLEAN,
           version : Versions, accepts : SUBSET Credentials]

AuditEntry == [action : Kinds, app : Apps, grant : Grants]

Goto(r, step) == req' = [req EXCEPT ![r].pc = step]

(* The handler returns: its locals are gone, the answer is on its way.     *)
Respond(r, a) ==
  req' = [req EXCEPT ![r] = [Idle EXCEPT !.pc = "done", !.answer = a, !.kind = req[r].kind,
                                         !.wasRevoked = req[r].wasRevoked,
                                         !.wasDead = req[r].wasDead]]

(* What each route answers to a token it does not accept.                  *)
Rejection(kind) == CASE kind \in TokenKinds -> "invalid_grant"
                     [] kind \in ReadKinds -> "invalid_token"
                     [] OTHER -> "ok"            \* revoke: always 200

-----------------------------------------------------------------------------
(* Arrival.  A client sends what it holds: a code, or a token it has been  *)
(* sent, or Junk.                                                          *)

Init ==
  /\ apps \in [Apps -> {row \in AppRow : row.present /\ ~row.raw /\ row.accepts # {}}]
  /\ keys = Versions
  /\ revoked = [i \in Instances |-> {}]
  /\ audit = {}
  /\ codes = Codes
  /\ sessions = {} /\ liveAt = {} /\ liveRt = {}
  /\ issued = {}
  /\ acked = [i \in Instances |-> {}]
  /\ req = [r \in Requests |-> Idle]

Arrive(r, fields) ==
  /\ req[r].pc = "idle" /\ fields.kind \in Asked
  /\ req' = [req EXCEPT ![r] = fields]
  /\ UNCHANGED <<storage, keys, revoked, toss, issued, acked>>

ArriveCode(r, i, a, cred, code) ==
  Arrive(r, [Idle EXCEPT !.pc = "row", !.kind = "code", !.at = i, !.app = a,
                         !.cred = cred, !.code = code])

Presenting(i, tok, live) ==
  [Idle EXCEPT !.pc = "row", !.at = i, !.tok = tok,
               !.wasRevoked = tok \in acked[i],
               !.wasDead = tok # Junk /\ tok.grant \notin live]

ArriveRefresh(r, i, a, cred, tok) ==
  Arrive(r, [Presenting(i, tok, liveRt) EXCEPT !.kind = "refresh", !.app = a, !.cred = cred])

(* The bearer routes and /oidc/revoke take the app from the token.         *)
ArriveBearer(r, i, kind, tok) ==
  Arrive(r, [Presenting(i, tok, liveAt) EXCEPT !.kind = kind,
                                               !.app = IF tok = Junk THEN None ELSE tok.app])

-----------------------------------------------------------------------------
(* The handlers.                                                           *)

(* No bearer, or one that does not parse: answered before anything is read. *)
RejectMalformed(r) ==
  /\ req[r].pc = "row" /\ req[r].kind \in BearerKinds /\ req[r].tok = Junk
  /\ Respond(r, Rejection(req[r].kind))
  /\ UNCHANGED <<storage, keys, revoked, toss, issued, acked>>

(* resolveClientAuth, then the secret or the origin; a request that offers *)
(* none, or two, presents a credential no row accepts.                     *)
Authenticates(cred, row) == cred \in row.accepts

(* getAppByClientId / getApp, and every check made on the row they return. *)
(* The handler keeps the row: none of these checks is made again below.    *)
(* (The mTLS client may have to read the row again; when that fails so     *)
(* does the call to Toss.)                                                 *)
ReadRowForToken(r) ==
  LET row == apps[req[r].app] IN
  /\ req[r].pc = "row" /\ req[r].kind \in TokenKinds
  /\ \/ /\ ~row.present
        /\ Respond(r, "invalid_client")
     \/ /\ row.present /\ ~row.verified
        /\ Respond(r, "app_not_verified")
     \/ /\ row.present /\ row.verified /\ ~Authenticates(req[r].cred, row)
        /\ Respond(r, "invalid_client")
     \/ /\ row.present /\ row.verified /\ Authenticates(req[r].cred, row)
        /\ \/ /\ req[r].kind = "code"
              /\ req' = [req EXCEPT ![r].pc = "exchange", ![r].version = row.version]
           \/ /\ req[r].kind = "refresh" /\ req[r].tok = Junk
              /\ Respond(r, "invalid_grant")
           \/ /\ req[r].kind = "refresh" /\ req[r].tok # Junk
              /\ req' = [req EXCEPT ![r].pc = "check", ![r].version = req[r].tok.version]
  /\ UNCHANGED <<storage, keys, revoked, toss, issued, acked>>

ReadRowForBearerNoRaw(r) ==        \* mutant: rawTokensEnabled is not looked at
  LET row == apps[req[r].app] IN
  /\ req[r].pc = "row" /\ req[r].kind \in BearerKinds /\ req[r].tok # Junk
  /\ IF ~row.present THEN Respond(r, Rejection(req[r].kind))
     ELSE IF req[r].kind \in ReadKinds THEN Goto(r, "check") ELSE Goto(r, "unwrap")
  /\ UNCHANGED <<storage, keys, revoked, toss, issued, acked>>

ReadRowForBearer(r) ==
  LET row == apps[req[r].app] IN
  /\ req[r].pc = "row" /\ req[r].kind \in BearerKinds /\ req[r].tok # Junk
  /\ \/ /\ ~row.present
        /\ Respond(r, Rejection(req[r].kind))
     \/ /\ row.present /\ req[r].kind = "raw" /\ ~row.raw
        /\ Respond(r, "not_found")
     \/ /\ row.present /\ req[r].kind \in ReadKinds
        /\ req[r].kind = "raw" => row.raw
        /\ Goto(r, "check")
     \/ /\ row.present /\ req[r].kind = "revoke"
        /\ Goto(r, "unwrap")
  /\ UNCHANGED <<storage, keys, revoked, toss, issued, acked>>

(* revocationStore.isRevoked: the exact token, under the app it was revoked *)
(* for, in this process's set.                                             *)
IsRevoked(i, a, tok) == tok.app = a /\ tok \in revoked[i]

CheckRevokedSkipsRefresh(r) ==     \* mutant: only the bearer routes look
  /\ req[r].pc = "check"
  /\ IF req[r].kind \in ReadKinds /\ IsRevoked(req[r].at, req[r].app, req[r].tok)
     THEN Respond(r, Rejection(req[r].kind))
     ELSE Goto(r, "unwrap")
  /\ UNCHANGED <<storage, keys, revoked, toss, issued, acked>>

CheckRevoked(r) ==
  /\ req[r].pc = "check"
  /\ IF IsRevoked(req[r].at, req[r].app, req[r].tok)
     THEN Respond(r, Rejection(req[r].kind))
     ELSE Goto(r, "unwrap")
  /\ UNCHANGED <<storage, keys, revoked, toss, issued, acked>>

(* resolveAppSealingKey with the token's version, then unwrapSealedToken.  *)
Accepts(kind) == CASE kind = "refresh" -> {"refresh"}
                   [] kind \in ReadKinds -> {"access"}
                   [] OTHER -> {"access", "refresh"}

OpensForAnyApp(tok, a, types) ==   \* mutant: expectedAppId is not compared
  tok.version \in keys /\ tok.type \in types

Opens(tok, a, types) == tok.version \in keys /\ tok.app = a /\ tok.type \in types

AfterUnwrapNoMark(kind) ==         \* mutant: /oidc/revoke relies on Toss alone
  CASE kind = "refresh" -> "exchange" [] kind = "userinfo" -> "login"
    [] kind = "raw" -> "audit" [] OTHER -> "remove"

AfterUnwrap(kind) == CASE kind = "refresh" -> "exchange"
                       [] kind = "userinfo" -> "login"
                       [] kind = "raw" -> "audit"
                       [] OTHER -> "mark"

Unwrap(r) ==
  /\ req[r].pc = "unwrap"
  /\ IF Opens(req[r].tok, req[r].app, Accepts(req[r].kind))
     THEN Goto(r, AfterUnwrap(req[r].kind))
     ELSE Respond(r, Rejection(req[r].kind))
  /\ UNCHANGED <<storage, keys, revoked, toss, issued, acked>>

(* revocationStore.revoke                                                  *)
MarkRevoked(r) ==
  /\ req[r].pc = "mark"
  /\ revoked' = [revoked EXCEPT ![req[r].at] = @ \cup {req[r].tok}]
  /\ Goto(r, "remove")
  /\ UNCHANGED <<storage, keys, toss, issued, acked>>

(* tossAdapter.accessRemove, for access and refresh tokens alike; whether  *)
(* it failed, before or after its effect, changes only the audit row.      *)
SessionsOf(a, u) == {s.grant : s \in {x \in sessions : x.app = a /\ x.user = u}}

AccessRemove(r) ==
  LET gone == SessionsOf(req[r].tok.app, req[r].tok.user) IN
  /\ req[r].pc = "remove"
  /\ \/ liveAt' = liveAt \ gone /\ liveRt' = liveRt \ gone
     \/ UNCHANGED <<liveAt, liveRt>>
  /\ Goto(r, "audit")
  /\ UNCHANGED <<storage, keys, revoked, codes, sessions, issued, acked>>

(* generateToken and refreshToken at Toss, which hands out token set g.  A *)
(* code is good once; whether the tokens that were exchanged stay alive    *)
(* after a refresh is Toss's choice.                                       *)
RedeemCode(r, g) ==
  LET code == req[r].code IN
  /\ req[r].kind = "code" /\ code \in codes /\ code.app = req[r].app
  /\ codes' = codes \ {code}
  /\ sessions' = sessions \cup {[grant |-> g, app |-> code.app, user |-> code.user]}
  /\ liveAt' = liveAt \cup {g} /\ liveRt' = liveRt \cup {g}

RedeemRefreshToken(r, g) ==
  LET old == req[r].tok.grant IN
  /\ req[r].kind = "refresh" /\ old \in liveRt
  /\ \E s \in sessions : s.grant = old /\ sessions' = sessions \cup {[s EXCEPT !.grant = g]}
  /\ \E deadRt, deadAt \in SUBSET {old} :
       /\ liveRt' = (liveRt \ deadRt) \cup {g}
       /\ liveAt' = (liveAt \ deadAt) \cup {g}
  /\ UNCHANGED codes

(* Toss acts, and its answer arrives or is lost.                           *)
Exchange(r) ==
  /\ req[r].pc = "exchange"
  /\ \E g \in Grants :
       /\ \A s \in sessions : s.grant # g
       /\ RedeemCode(r, g) \/ RedeemRefreshToken(r, g)
       /\ \/ req' = [req EXCEPT ![r].pc = "login", ![r].grant = g]
          \/ Respond(r, "upstream_error")
  /\ UNCHANGED <<storage, keys, revoked, issued, acked>>

(* Toss refuses, or cannot be reached (no mTLS material included).         *)
ExchangeFailsSoft(r) ==            \* mutant: a refused refresh re-seals the old set
  /\ req[r].pc = "exchange"
  /\ IF req[r].kind = "refresh"
     THEN req' = [req EXCEPT ![r].pc = "seal", ![r].grant = req[r].tok.grant,
                             ![r].user = req[r].tok.user]
     ELSE Respond(r, "invalid_grant")
  /\ UNCHANGED <<storage, keys, revoked, toss, issued, acked>>

ExchangeFails(r) ==
  /\ req[r].pc = "exchange"
  /\ \E a \in {"invalid_grant", "upstream_error"} : Respond(r, a)
  /\ UNCHANGED <<storage, keys, revoked, toss, issued, acked>>

(* loginMe with the new access token, or with the one sealed in the token. *)
LoginGrant(r) == IF req[r].kind = "userinfo" THEN req[r].tok.grant ELSE req[r].grant

LoginMe(r) ==
  /\ req[r].pc = "login"
  /\ LoginGrant(r) \in liveAt
  /\ \E s \in sessions :
       /\ s.grant = LoginGrant(r)
       /\ req' = [req EXCEPT ![r].user = s.user,
                             ![r].pc = IF req[r].kind = "userinfo" THEN "audit" ELSE "seal"]
  /\ UNCHANGED <<storage, keys, revoked, toss, issued, acked>>

LoginMeFails(r) ==
  /\ req[r].pc = "login"
  /\ Respond(r, "upstream_error")
  /\ UNCHANGED <<storage, keys, revoked, toss, issued, acked>>

(* finalize: both tokens are sealed under the request's version, which     *)
(* must fit the version byte and have its key.                             *)
MaxVersionByte == 255

SealUnaudited(r) ==                \* mutant: responds without appending the audit row
  /\ req[r].pc = "seal"
  /\ IF req[r].version \in keys /\ req[r].version \in 1..MaxVersionByte
     THEN Goto(r, "reply")
     ELSE Respond(r, "server_error")
  /\ UNCHANGED <<storage, keys, revoked, toss, issued, acked>>

SealWaits(r) ==                    \* mutant: retries until the key can be had
  /\ req[r].pc = "seal"
  /\ req[r].version \in keys /\ req[r].version \in 1..MaxVersionByte
  /\ Goto(r, "audit")
  /\ UNCHANGED <<storage, keys, revoked, toss, issued, acked>>

Seal(r) ==
  /\ req[r].pc = "seal"
  /\ IF req[r].version \in keys /\ req[r].version \in 1..MaxVersionByte
     THEN Goto(r, "audit")
     ELSE Respond(r, "server_error")
  /\ UNCHANGED <<storage, keys, revoked, toss, issued, acked>>

Sealed(r, type) == [type |-> type, app |-> req[r].app, user |-> req[r].user,
                    version |-> req[r].version, grant |-> req[r].grant]

(* appendAudit, then the response.                                         *)
SubjectFromToss(r) == req[r].grant  \* mutant: a read names no grant

Subject(r) == IF req[r].kind \in TokenKinds THEN req[r].grant ELSE req[r].tok.grant

AppendAudit(r) ==
  /\ req[r].pc = "audit"
  /\ audit' = audit \cup {[action |-> req[r].kind, app |-> req[r].app,
                           grant |-> Subject(r)]}
  /\ Goto(r, "reply")
  /\ UNCHANGED <<apps, keys, revoked, toss, issued, acked>>

Reply(r) ==
  /\ req[r].pc = "reply"
  /\ Respond(r, "ok")
  /\ issued' = IF req[r].kind \in TokenKinds
               THEN issued \cup {Sealed(r, "access"), Sealed(r, "refresh")}
               ELSE issued
  /\ acked' = IF req[r].kind = "revoke"
              THEN [acked EXCEPT ![req[r].at] = @ \cup {req[r].tok}]
              ELSE acked
  /\ UNCHANGED <<storage, keys, revoked, toss>>

(* A storage call throws: the row read escapes the handler, an audit       *)
(* append ends in toOAuthError or escapes; the client sees a 500.          *)
StorageFails(r) ==
  /\ req[r].pc \in {"row", "audit"}
  /\ ~(req[r].pc = "row" /\ req[r].kind \in BearerKinds /\ req[r].tok = Junk)
  /\ Respond(r, "server_error")
  /\ UNCHANGED <<storage, keys, revoked, toss, issued, acked>>

(* The client has read the answer; the slot is free.                       *)
Finish(r) ==
  /\ req[r].pc = "done"
  /\ req' = [req EXCEPT ![r] = Idle]
  /\ UNCHANGED <<storage, keys, revoked, toss, issued, acked>>

-----------------------------------------------------------------------------
(* Everybody else.                                                         *)

(* Admin REST: DELETE /admin/apps/:id, raw-tokens toggle, and the changes  *)
(* of what the app accepts (rotate-secret, allowed_origins).  No code sets *)
(* ownership_status after creation.                                        *)
DeleteApp(a) ==
  /\ "delete" \in Disturbances /\ apps[a].present
  /\ apps' = [apps EXCEPT ![a].present = FALSE]
  /\ UNCHANGED <<audit, keys, revoked, toss, issued, acked, req>>

ToggleRawTokens(a) ==
  /\ "raw" \in Disturbances /\ apps[a].present
  /\ apps' = [apps EXCEPT ![a].raw = ~@]
  /\ UNCHANGED <<audit, keys, revoked, toss, issued, acked, req>>

ChangeAccepted(a, accepted) ==
  /\ "accepts" \in Disturbances /\ apps[a].present
  /\ apps' = [apps EXCEPT ![a].accepts = accepted]
  /\ UNCHANGED <<audit, keys, revoked, toss, issued, acked, req>>

(* The operator, by hand: moves an app to another master key version, adds *)
(* or removes key material.                                                *)
MigrateApp(a, v) ==
  /\ "migrate" \in Disturbances /\ apps[a].present
  /\ apps' = [apps EXCEPT ![a].version = v]
  /\ UNCHANGED <<audit, keys, revoked, toss, issued, acked, req>>

ChangeKeys(v) ==
  /\ "keys" \in Disturbances
  /\ keys' = IF v \in keys THEN keys \ {v} ELSE keys \cup {v}
  /\ UNCHANGED <<storage, revoked, toss, issued, acked, req>>

(* At Toss, an access token runs out; its refresh token does not.          *)
ExpireAccess(g) ==
  /\ "expire" \in Disturbances
  /\ liveAt' = liveAt \ {g}
  /\ UNCHANGED <<storage, keys, revoked, codes, sessions, liveRt, issued, acked, req>>

(* A process dies and comes back: its requests and its revocation set are  *)
(* gone, what it did to storage and Toss is not.                           *)
Restart(i) ==
  /\ "restart" \in Disturbances
  /\ revoked' = [revoked EXCEPT ![i] = {}]
  /\ acked' = [acked EXCEPT ![i] = {}]
  /\ req' = [r \in Requests |-> IF req[r].at = i THEN Idle ELSE req[r]]
  /\ UNCHANGED <<storage, keys, toss, issued>>

-----------------------------------------------------------------------------

Client(r) ==
  \/ \E i \in Instances, a \in Apps, cred \in Credentials :
       \/ \E code \in Codes : ArriveCode(r, i, a, cred, code)
       \/ \E tok \in issued \cup {Junk} : ArriveRefresh(r, i, a, cred, tok)
  \/ \E i \in Instances, kind \in BearerKinds, tok \in issued \cup {Junk} :
       ArriveBearer(r, i, kind, tok)
  \/ Finish(r)

Handle(r) ==
  \/ RejectMalformed(r) \/ ReadRowForToken(r) \/ ReadRowForBearer(r)
  \/ CheckRevoked(r) \/ Unwrap(r) \/ MarkRevoked(r) \/ AccessRemove(r)
  \/ Exchange(r) \/ ExchangeFails(r) \/ LoginMe(r) \/ LoginMeFails(r)
  \/ Seal(r) \/ AppendAudit(r) \/ Reply(r) \/ StorageFails(r)

Others ==
  \/ \E a \in Apps :
       \/ DeleteApp(a) \/ ToggleRawTokens(a)
       \/ \E accepted \in SUBSET Credentials : ChangeAccepted(a, accepted)
       \/ \E v \in Versions : MigrateApp(a, v)
  \/ \E v \in Versions : ChangeKeys(v)
  \/ \E g \in liveAt : ExpireAccess(g)
  \/ \E i \in Instances : Restart(i)

Next == (\E r \in Requests : Client(r) \/ Handle(r)) \/ Others

Spec == Init /\ [][Next]_vars

(* Storage and Toss answer or fail every call (fetch has undici's header   *)
(* and body timeouts), so a handler is never stuck at an await.            *)
FairSpec == Spec /\ \A r \in Requests : WF_vars(Handle(r))

-----------------------------------------------------------------------------
(* Properties.                                                             *)

TypeOK ==
  /\ apps \in [Apps -> AppRow]
  /\ keys \in SUBSET Versions
  /\ revoked \in [Instances -> SUBSET Token]
  /\ audit \in SUBSET AuditEntry
  /\ codes \in SUBSET Codes
  /\ sessions \in SUBSET [grant : Grants, app : Apps, user : Users]
  /\ liveAt \in SUBSET Grants /\ liveRt \in SUBSET Grants
  /\ issued \in SUBSET Token
  /\ acked \in [Instances -> SUBSET Token]
  /\ req \in [Requests -> Request]

(* The locals a handler has filled in by the time it reaches each await,   *)
(* and the awaits it passes through at all.                                *)
HandlerOK(q) ==
  q.pc \in Steps =>
    /\ q.kind \in Kinds /\ q.at \in Instances
    /\ q.kind = "code" => q.pc \in {"row", "exchange", "login", "seal", "audit", "reply"}
    /\ q.kind = "refresh" => q.pc \in {"row", "check", "unwrap", "exchange", "login",
                                       "seal", "audit", "reply"}
    /\ q.kind = "userinfo" => q.pc \in {"row", "check", "unwrap", "login", "audit", "reply"}
    /\ q.kind = "raw" => q.pc \in {"row", "check", "unwrap", "audit", "reply"}
    /\ q.kind = "revoke" => q.pc \in {"row", "unwrap", "mark", "remove", "audit", "reply"}
    /\ q.kind = "code" => q.code \in Codes
    /\ q.kind # "code" => q.tok \in Token \cup {Junk}
    /\ q.kind # "code" /\ q.pc # "row" => q.tok \in Token
    /\ q.kind \in TokenKinds => q.app \in Apps
    /\ q.kind \in BearerKinds /\ q.tok # Junk => q.app \in Apps
    /\ q.kind \in TokenKinds /\ q.pc # "row" => q.version \in Versions
    /\ q.kind \in TokenKinds /\ q.pc \in {"login", "seal", "audit", "reply"} => q.grant \in Grants
    /\ q.kind \in TokenKinds /\ q.pc \in {"seal", "audit", "reply"} => q.user \in Users

HandlerInv == \A r \in Requests : HandlerOK(req[r])

Served(r, kinds) == req[r].pc = "done" /\ req[r].answer = "ok" /\ req[r].kind \in kinds

(* Once a client has its 200 for a revocation, no request that reaches the *)
(* same process afterwards is served with that token, whatever was in      *)
(* flight (revoke-route.ts marks before it calls Toss and answers; the     *)
(* other routes look before they act).                                     *)
RevokedNotServed ==
  \A r \in Requests : req[r].wasRevoked => ~Served(r, {"refresh", "userinfo", "raw"})

(* Why: a token whose revocation has been answered is in the process's set, *)
(* where it stays while the process lives, and a request that came too     *)
(* late for it is still ahead of the check (or of the unwrapping, under    *)
(* another app's name) or has been turned down.                            *)
PastMark == {"remove", "audit", "reply"}

RevocationInv ==
  /\ \A i \in Instances : acked[i] \subseteq revoked[i]
  /\ \A r \in Requests :
       /\ req[r].kind = "revoke" /\ req[r].pc \in PastMark
            => req[r].tok \in revoked[req[r].at]
       /\ req[r].wasRevoked /\ Active(r) => req[r].tok \in revoked[req[r].at]
       /\ req[r].wasRevoked /\ Active(r) /\ req[r].kind \in {"refresh", "userinfo", "raw"}
            => \/ req[r].pc \in {"row", "check"}
               \/ req[r].pc = "unwrap" /\ req[r].tok.app # req[r].app
  /\ RevokedNotServed

(* Toss stays the authority: when it no longer took the access (refresh)   *)
(* token sealed in a token at the time the request arrived, the request    *)
(* yields no claims (no new tokens), even though the seal still opens.     *)
DeadSessionNotServed ==
  \A r \in Requests : req[r].wasDead => ~Served(r, {"refresh", "userinfo"})

(* What is sealed in a token a client holds is a session Toss granted to   *)
(* that very app and user: no grant crosses apps or subjects, although     *)
(* refresh never compares the old subject with login-me's.                 *)
SealedAsGranted ==
  \A t \in issued : [grant |-> t.grant, app |-> t.app, user |-> t.user] \in sessions

(* No client holds tokens whose issue is not in the audit table, whichever *)
(* step failed or crashed (token-route.ts appends before it responds).     *)
IssuedIsAudited ==
  \A t \in issued : \E e \in audit :
    e.action \in TokenKinds /\ e.app = t.app /\ e.grant = t.grant

(* Why those three hold: a slot holding q is backed by the sessions ss, the *)
(* issued tokens sent, the audit rows au and the live tokens at and rt.    *)
Backed(q, ss, sent, au, at, rt) ==
  /\ q.pc \in Steps /\ q.kind # "code" /\ q.tok # Junk => q.tok \in sent
  /\ q.pc \in Steps \ {"row", "check", "unwrap"} /\ q.kind = "refresh" => q.tok.app = q.app
  /\ q.pc \in {"login", "seal", "audit", "reply"} /\ q.kind \in TokenKinds =>
       \E s \in ss : s.grant = q.grant /\ s.app = q.app /\ (q.pc # "login" => s.user = q.user)
  /\ q.pc = "reply" /\ q.kind \in TokenKinds =>
       \E e \in au : e.action \in TokenKinds /\ e.app = q.app /\ e.grant = q.grant
  /\ q.wasDead /\ q.pc \in Steps /\ q.kind \in {"refresh", "userinfo"} =>
       /\ q.tok # Junk /\ q.tok.grant \notin (IF q.kind = "refresh" THEN rt ELSE at)
       /\ q.pc \in {"row", "check", "unwrap"}
                   \cup {IF q.kind = "refresh" THEN "exchange" ELSE "login"}

LedgerInv ==
  /\ \A s1, s2 \in sessions : s1.grant = s2.grant => s1 = s2
  /\ \A r \in Requests : Backed(req[r], sessions, issued, audit, liveAt, liveRt)
  /\ SealedAsGranted /\ IssuedIsAudited /\ DeadSessionNotServed

(* Every request is answered, or its process died: no order of failures    *)
(* leaves a handler waiting.                                               *)
EveryRequestEnds == \A r \in Requests : Active(r) ~> ~Active(r)

=============================================================================
