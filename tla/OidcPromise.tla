----------------------------- MODULE OidcPromise ----------------------------
(***************************************************************************)
(* What the OIDC endpoints promise about authorisation: although a handler *)
(* reads the app row, then the revocation set, then talks to Toss, with    *)
(* anything happening in between, a request that is served was entitled to *)
(* be served at ONE instant while it was open.                             *)
(*                                                                         *)
(* The promise knows nothing of Toss, of keys or of the steps of a         *)
(* handler; those can only turn a request down.                            *)
(***************************************************************************)
CONSTANTS Apps, Credentials, Instances, Requests, Answers, Rows, Asks, None

VARIABLES
  registry,   \* the apps table
  revoked,    \* per process: revoked tokens
  phase,      \* of each request: "idle", "open", "closed"
  ask,        \* what an open request asks
  may,        \* it was entitled at some instant since it was opened
  said        \* the answer to a closed request

pvars == <<registry, revoked, phase, ask, may, said>>

Init ==
  /\ registry \in [Apps -> Rows]
  /\ revoked = [i \in Instances |-> {}]
  /\ phase = [r \in Requests |-> "idle"]
  /\ ask = [r \in Requests |-> None]
  /\ may = [r \in Requests |-> FALSE]
  /\ said = [r \in Requests |-> None]

(* The rules of authorisation, on the registry and revocations of now.     *)
Entitled(q) ==
  /\ q.app \in Apps /\ registry[q.app].present
  /\ q.kind \in {"code", "refresh"} =>
       registry[q.app].verified /\ q.cred \in registry[q.app].accepts
  /\ q.kind = "raw" => registry[q.app].raw
  /\ q.kind \in {"refresh", "userinfo", "raw"} => q.tok \notin revoked[q.at]

Open(r) ==
  /\ phase[r] = "idle"
  /\ \E q \in Asks : ask' = [ask EXCEPT ![r] = q]
  /\ phase' = [phase EXCEPT ![r] = "open"]
  /\ UNCHANGED <<registry, revoked, may, said>>

Consider(r) ==
  /\ phase[r] = "open" /\ Entitled(ask[r])
  /\ may' = [may EXCEPT ![r] = TRUE]
  /\ UNCHANGED <<registry, revoked, phase, ask, said>>

Close(r, a) ==
  /\ phase[r] = "open"
  /\ a = "ok" => may[r] \/ ask[r].kind = "revoke"     \* a revocation always gets its 200
  /\ phase' = [phase EXCEPT ![r] = "closed"]
  /\ ask' = [ask EXCEPT ![r] = None]
  /\ may' = [may EXCEPT ![r] = FALSE]
  /\ said' = [said EXCEPT ![r] = a]
  /\ UNCHANGED <<registry, revoked>>

Leave(r) ==
  /\ phase[r] = "closed"
  /\ phase' = [phase EXCEPT ![r] = "idle"]
  /\ said' = [said EXCEPT ![r] = None]
  /\ UNCHANGED <<registry, revoked, ask, may>>

(* A revocation is caused by a request for it, and may cost other open     *)
(* requests their chance.                                                  *)
Revoke(r) ==
  /\ phase[r] = "open" /\ ask[r].kind = "revoke" /\ may[r]
  /\ revoked' = [revoked EXCEPT ![ask[r].at] = @ \cup {ask[r].tok}]
  /\ may' \in [Requests -> BOOLEAN]
  /\ \A x \in Requests : may'[x] => may[x]
  /\ UNCHANGED <<registry, phase, ask, said>>

(* Operators change rows, but a deleted app stays deleted and nothing      *)
(* changes whether ownership is verified.                                  *)
Administer ==
  /\ registry' \in [Apps -> Rows]
  /\ \A a \in Apps :
       /\ registry'[a].present => registry[a].present
       /\ registry'[a].verified = registry[a].verified
  /\ UNCHANGED <<revoked, phase, ask, may, said>>

Crash(i) ==
  LET lost(r) == phase[r] = "open" /\ ask[r].at = i IN
  /\ revoked' = [revoked EXCEPT ![i] = {}]
  /\ phase' = [r \in Requests |-> IF lost(r) THEN "idle" ELSE phase[r]]
  /\ ask' = [r \in Requests |-> IF lost(r) THEN None ELSE ask[r]]
  /\ may' = [r \in Requests |-> IF lost(r) THEN FALSE ELSE may[r]]
  /\ UNCHANGED <<registry, said>>

Next ==
  \/ \E r \in Requests :
       Open(r) \/ Consider(r) \/ Leave(r) \/ Revoke(r) \/ \E a \in Answers : Close(r, a)
  \/ Administer
  \/ \E i \in Instances : Crash(i)

Spec == Init /\ [][Next]_pvars

=============================================================================
