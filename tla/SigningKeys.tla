---------------------------- MODULE SigningKeys ----------------------------
(***************************************************************************)
(* The keys that sign ID tokens: read from the environment when a process  *)
(* starts (config.ts, oidc/signing-keys.ts), listed by                     *)
(* /.well-known/jwks.json, used by mintIdToken; and the rotation of        *)
(* docs/RUNBOOK.md, in which the processes are restarted one by one while  *)
(* relying parties keep a JWKS for as long as its max-age allows.          *)
(*                                                                         *)
(* On Workers every request builds the registry again: a process that      *)
(* restarts before each request.                                           *)
(***************************************************************************)
EXTENDS Integers

CONSTANTS
    Processes, Consumers,   \* relying parties
    Users,                  \* each keeps the last ID token it got
    Kids,                   \* OIDC_SIGNING_KEY_<KID>_PEM
    Pems,
    Unreadable,             \* PEMs importKey throws on
    FirstKid, FirstPem,     \* how the installation started
    Ttl,                    \* ID_TOKEN_TTL_SECONDS
    MaxAge,                 \* of a JWKS in a consumer's cache
    PublishWait,            \* RUNBOOK step 4: 6 hours
    RetireWait,             \* RUNBOOK step 6: 24 hours
    LastInstant,            \* bound of the model on time
    None

\* The waits of the RUNBOOK cover the defaults (one hour each).  Nothing in the
\* code compares a configured ID_TOKEN_TTL_SECONDS with them.
ASSUME TimeAssumption ==
    /\ {Ttl, MaxAge, PublishWait, RetireWait, LastInstant} \subseteq Nat
    /\ Ttl <= RetireWait
    /\ MaxAge <= PublishWait

ASSUME KeyAssumption ==
    /\ FirstKid \in Kids
    /\ FirstPem \in Pems \ Unreadable
    /\ Processes # {}

VARIABLES
    now,
    env,        \* what a process that starts now is given
    former,     \* env before its last change
    behind,     \* running processes that have not restarted since
    noted,      \* when the operator saw that none was behind
    registry,   \* SigningKeyRegistry of each process, None if it is down
    token,      \* the ID token of each user
    cache,      \* the JWKS of each consumer
    dropped     \* history: since when the operator knows a PEM to be gone

vars == <<now, env, former, behind, noted, registry, token, cache, dropped>>

Times == 0..LastInstant

Slots == [Kids -> Pems \cup {None}]

Env == [active : Kids, slots : Slots]

Registry == [active : Kids, slots : [Kids -> (Pems \ Unreadable) \cup {None}]]

Token == [kid : Kids, pem : Pems, exp : Nat]

Jwks == [keys : Slots, at : Nat]

ASSUME NoneAssumption ==
    None \notin Pems /\ None \notin Nat /\ None \notin Env /\ None \notin Token /\ None \notin Jwks

FirstEnv == [active |-> FirstKid,
             slots  |-> [k \in Kids |-> IF k = FirstKid THEN FirstPem ELSE None]]

Init ==
    /\ now = 0
    /\ env = FirstEnv /\ former = FirstEnv
    /\ behind = {} /\ noted = 0
    /\ registry = [p \in Processes |-> FirstEnv]
    /\ token = [u \in Users |-> None]
    /\ cache = [c \in Consumers |-> None]
    /\ dropped = [x \in Pems |-> None]

Running == {p \in Processes : registry[p] # None}

-----------------------------------------------------------------------------
(* The bridge. *)

ActiveStarts(e) == e.slots[e.active] \notin Unreadable \cup {None}

\* loadOidcConfig, and the import of every PEM, not of the active one alone.
Starts(e) ==
    /\ e.slots[e.active] # None
    /\ \A k \in Kids : e.slots[k] \notin Unreadable

LoadedOver(p) ==
    IF registry[p] = None THEN env
    ELSE [env EXCEPT !.slots =
             [k \in Kids |-> IF @[k] = None THEN registry[p].slots[k] ELSE @[k]]]

\* createSigningKeyRegistry: nothing is kept from before.
Loaded(p) == env

Restart(p) ==
    /\ registry' = [registry EXCEPT ![p] = IF Starts(env) THEN Loaded(p) ELSE None]
    /\ behind' = behind \ {p}
    /\ UNCHANGED <<now, env, former, noted, token, cache, dropped>>

Stop(p) ==
    /\ registry' = [registry EXCEPT ![p] = None]
    /\ behind' = behind \ {p}
    /\ UNCHANGED <<now, env, former, noted, token, cache, dropped>>

\* mintIdToken: its time is that of the request.
Minted(r) == [kid |-> r.active, pem |-> r.slots[r.active], exp |-> now + Ttl]

Mint(p, u) ==
    /\ p \in Running
    /\ token' = [token EXCEPT ![u] = Minted(registry[p])]
    /\ UNCHANGED <<now, env, former, behind, noted, registry, cache, dropped>>

SigningOnly(r) == [k \in Kids |-> IF k = r.active THEN r.slots[k] ELSE None]

\* jwks(): every loaded key.
Listed(r) == r.slots

\* A consumer asks for the JWKS; whichever process answers.
Fetch(c, p) ==
    /\ p \in Running
    /\ cache' = [cache EXCEPT ![c] = [keys |-> Listed(registry[p]), at |-> now]]
    /\ UNCHANGED <<now, env, former, behind, noted, registry, token, dropped>>

-----------------------------------------------------------------------------
(* The operator, who changes one thing at a time. *)

Change(e) ==
    /\ env' = e
    /\ former' = env
    /\ behind' = Running
    /\ noted' = None

Waited(t) == noted # None /\ noted + t <= now

\* Steps 1 and 2: a new key in a free slot.
Publish(k, x) ==
    /\ noted # None
    /\ env.slots[k] = None
    /\ Change([env EXCEPT !.slots[k] = x])
    /\ dropped' = [dropped EXCEPT ![x] = None]
    /\ UNCHANGED <<now, registry, token, cache>>

\* Step 5.  The kid may be mistyped.
Activate(k) ==
    /\ Waited(PublishWait)
    /\ k # env.active
    /\ Change([env EXCEPT !.active = k])
    /\ UNCHANGED <<now, registry, token, cache, dropped>>

\* Step 6: the old key is taken out.
Retire(k) ==
    /\ Waited(RetireWait)
    /\ k # env.active /\ env.slots[k] # None
    /\ Change([env EXCEPT !.slots[k] = None])
    /\ UNCHANGED <<now, registry, token, cache, dropped>>

\* A rollout that goes wrong is taken back.
Revert ==
    /\ noted = None
    /\ Change(former)
    /\ UNCHANGED <<now, registry, token, cache, dropped>>

\* Steps 3, 5 and 6: every process has been restarted and answers.
Note ==
    /\ noted = None
    /\ behind = {} /\ Running = Processes
    /\ noted' = now
    /\ dropped' = [x \in Pems |->
          IF \E k \in Kids : env.slots[k] = x THEN None
          ELSE IF dropped[x] = None THEN now ELSE dropped[x]]
    /\ UNCHANGED <<now, env, former, behind, registry, token, cache>>

Tick ==
    /\ now < LastInstant
    /\ now' = now + 1
    /\ UNCHANGED <<env, former, behind, noted, registry, token, cache, dropped>>

Next ==
    \/ \E p \in Processes :
          \/ Restart(p) \/ Stop(p)
          \/ \E u \in Users : Mint(p, u)
          \/ \E c \in Consumers : Fetch(c, p)
    \/ \E k \in Kids :
          \/ \E x \in Pems : Publish(k, x)
          \/ Activate(k) \/ Retire(k)
    \/ Revert \/ Note \/ Tick

Spec == Init /\ [][Next]_vars

-----------------------------------------------------------------------------
(* Properties. *)

\* Every variable has its type; no process runs with a PEM it could not import
\* or with nothing to sign with.
TypeOK ==
    /\ now \in Times
    /\ env \in Env /\ former \in Env
    /\ behind \subseteq Running
    /\ noted \in Times \cup {None}
    /\ registry \in [Processes -> Registry \cup {None}]
    /\ \A p \in Running : registry[p].slots[registry[p].active] # None
    /\ token \in [Users -> Token \cup {None}]
    /\ cache \in [Consumers -> Jwks \cup {None}]
    /\ dropped \in [Pems -> Times \cup {None}]

Fresh(c) == cache[c] # None /\ now < cache[c].at + MaxAge

Verifies(t, keys) == keys[t.kid] = t.pem

\* Through any number of rotations, slots that are used again, rollouts taken
\* back and restarts in any order, an ID token verifies until it expires: with
\* the JWKS a consumer still has and with the one any process would give it.
IdTokensVerify ==
    \A u \in Users : token[u] # None /\ now < token[u].exp =>
        /\ \A c \in Consumers : Fresh(c) => Verifies(token[u], cache[c].keys)
        /\ \A p \in Running : Verifies(token[u], Listed(registry[p]))

\* A dropped key dies: a max-age after every process restarted without it, no
\* consumer verifies with it any more.
DroppedKeyDies ==
    \A x \in Pems, c \in Consumers :
        dropped[x] # None /\ dropped[x] + MaxAge <= now /\ Fresh(c)
            => \A k \in Kids : cache[c].keys[k] # x
=============================================================================
