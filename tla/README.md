# oidc-bridge: formal models

TLA+ models of the oidc-bridge (`src/`), checked with TLC on small instances,
and theorems about them checked with TLAPS for every instance.

## The system

oidc-bridge is an HTTP service (Node, or Cloudflare Workers) between mini-apps
and Toss. A mini-app exchanges an authorization code for tokens at the bridge;
the bridge exchanges it at Toss over mTLS, *seals* the Toss tokens (AES-GCM,
under a key derived per app from a versioned master key) into the opaque
`ait_...` strings the client keeps, and unseals them whenever the client comes
back. It keeps no session of its own for those tokens.

| Component | Source | State | Operations |
| --- | --- | --- | --- |
| OIDC endpoints | `src/oidc/*-route.ts`, `token-service.ts` | none but the locals of a handler across its awaits | `POST /oidc/token` (code, refresh), `GET /oidc/userinfo`, `GET /oidc/raw-tokens`, `POST /oidc/revoke` |
| Revocation store | `src/oidc/revocation-store.ts` | a `Set` of digests, per process (per request on Workers) | `revoke`, `isRevoked` |
| Sealed tokens | `src/oidc/sealed-token.ts`, `src/apps/encryption.ts` | none | wrap, unwrap, peek |
| Toss adapter | `src/toss/*`, `src/runtime/node-mtls.ts` | mTLS client cache; at Toss: codes, sessions, live tokens | `generateToken`, `refreshToken`, `loginMe`, `accessRemove` |
| Apps, workspaces, API tokens | `src/apps/*` | rows in storage | admin REST: create, list, get, update, delete, rotate secret, raw-tokens toggle; API token create, delete, verify |
| Admin sessions | `src/sessions/*`, `src/admin/*` | rows in storage | login, logout, validate, purge |
| Master keys | `src/master-keys/*` | TTL cache, provider (env, files, Workers secret) | `getKeyBytes`, `listVersions`, rotation by hand |
| Signing keys | `src/oidc/signing-keys.ts`, `id-token.ts`, `jwks-route.ts` | registry, fixed at start | sign, publish JWKS |
| Rate limiter | `src/middleware/rate-limit*.ts` | two maps of sliding-window buckets | admit, sweep |
| Storage | `src/storage/*` | SQLite, PostgreSQL, D1 | single-row CRUD, purge |
| CLI | `cli/*` | files and rows | bootstrap, app, user, doctor |
| Runtimes | `src/runtime/*`, `src/app.ts` | wiring | start, shutdown |
| Status, config, logging | `src/status/*`, `src/config.ts`, ... | last probe result | read-only |

How they interact: every request passes the rate limiter and one handler. A
handler reads the app row from storage *once*, then awaits, in this order, the
revocation store, the master-key provider, Toss, and storage again for the audit
row. Between two awaits of one request everything else may run: other requests
of the same process, other processes, the admin REST, an operator changing keys
by hand, a crash. Requests share storage and Toss with all other processes, and
the revocation set with those of their own process only.

What is hard, and what would make it correct:

* **Endpoints** - the row and the revocation verdict are stale by the time they
  are used. *A served request was entitled to be served at one instant; a
  revocation that was answered binds every later request; a session that Toss
  has ended yields nothing; a grant never crosses apps or users; tokens a client
  holds were audited; every request is answered.*
- **Admin service** - handlers check ownership on one read and write on another;
  `rotateSecret` writes back what it read before a bcrypt. *No secret handed out
  is silently dead; no one changes what is not theirs.*
- **Master keys, rotation** - a cache that outlives the provider's content, row
  versions changed by hand while rows stay encrypted under the old one. *A
  version that live tokens need is never gone; a retired one stops working within
  the TTL.*
- **Rate limiter** - window arithmetic, two keys per request. *Bounded admissions
  in any window; a key that is quiet is admitted again.*
- **Sessions** - a login straddles bcrypt while passwords change, expiry meets
  the purge of a starting process, a logout meets other processes. *A session
  goes to one who had the password; a live cookie has its session; a logout that
  was answered is final.*
- **Bootstrap, doctor, start** - a crash between a file and a row, two runs at
  once, a doctor with rules of its own. *One founder per database; what was
  printed works; an app's key is not overwritten; green starts.*
- **Signing keys** - processes restart one by one while relying parties cache
  the JWKS and slots are used again. *An unexpired ID token verifies; a dropped
  key dies.*

`PROJECT.json` lists the components with their status and the hazards, each with
its line and the properties that watch it.

## The modules

| Module | What it is |
| --- | --- |
| `OidcEndpoints` | the four handlers, concurrent requests on several processes, with storage, master keys, Toss, operators and crashes around them; the properties |
| `OidcPromise` | abstract specification: a request is entitled, or not, at an instant |
| `OidcRefinement` | the mapping under which `OidcEndpoints` implements `OidcPromise` |
| `OidcProofs` | proofs of type correctness, of the effect of a revocation, about sessions, issued tokens and the audit table |
| `OidcRefinementProofs` | proof that `OidcEndpoints` implements `OidcPromise` |
| `AdminService` | the admin REST: workspaces, apps, secrets, API tokens, audit rows, concurrent requests over storage with its constraints; the properties |
| `Registry` | abstract specification: what an admin request changes, it changes at one instant |
| `AdminRefinement` | the mapping under which `AdminService` implements `Registry` |
| `AdminServiceProofs` | proofs about `AdminService`, refinement of `Registry` included |
| `MCAdminService` | small instances for TLC, used by `Admin*.cfg` |
| `RateLimit` | the sliding-window limiter and the middleware with its two keys; the properties |
| `SlidingLaw` | abstract specification: every admission remembered, one rule |
| `RateLimitProofs` | proofs about `RateLimit`, refinement of `SlidingLaw` included |
| `MCRateLimit` | small instances for TLC, used by `RateLimit*.cfg` |
| `MCOidcEndpoints` | small instances for TLC, used by all `Oidc*.cfg` |
| `MasterKeys` | providers, TTL cache, active version, the columns and mTLS clients of apps, an operator who rotates keys by hand; the properties |
| `MasterKeysProofs` | proofs about `MasterKeys` |
| `MCMasterKeys` | small instances for TLC, used by `MasterKeys*.cfg` |
| `AdminSessions` | login, logout, validation, the purge at a start, `user create` and `set-password`; the properties |
| `AdminSessionsProofs` | proofs about `AdminSessions` |
| `MCAdminSessions` | a small instance for TLC, used by `AdminSessions.cfg` |
| `Startup` | operators only: what the doctor says of an environment and whether the server starts with it |
| `Installation` | bootstrap step by step with crashes, doctor, server and its app, over `Startup`; the properties |
| `InstallationProofs` | proofs about `Installation` |
| `MCInstallation` | a small instance for TLC, used by `Installation.cfg` |
| `SigningKeys` | registry, ID tokens, JWKS in caches and the rotation of the RUNBOOK; the properties |
| `SigningKeysProofs` | proofs about `SigningKeys` |
| `MCSigningKeys` | a small instance for TLC, used by `SigningKeys.cfg` |

### OidcEndpoints

One record of `req` is one request: its `pc` names the await the handler is
about to perform, its fields are the handler's locals. Every action is the code
between two awaits that touch something shared:

| Action | Code |
| --- | --- |
| `ArriveCode`, `ArriveRefresh`, `ArriveBearer` | a client sends a code, or a sealed token it was sent (or `Junk`) |
| `RejectMalformed` | bearer and revoke routes, a string that does not parse: answered before any read |
| `ReadRowForToken` | `getAppByClientId` and all that is decided on the row: known, verified, `resolveClientAuth`, secret or origin, for a refresh also `peekSealedTokenVersion` |
| `ReadRowForBearer` | `getApp`, and for raw tokens `rawTokensEnabled` |
| `CheckRevoked` | `isRevoked`, on the set of this process (refresh, userinfo, raw) |
| `Unwrap` | key of the token's version, app and type bound in the seal |
| `MarkRevoked`, `AccessRemove` | the two effects of `/oidc/revoke`, in that order |
| `Exchange`, `ExchangeFails` | `generateToken` or `refreshToken` at Toss; Toss may act and its answer be lost |
| `LoginMe`, `LoginMeFails` | `loginMe`, with the new access token or with the sealed one |
| `Seal` | `finalize`: key, version byte, both wraps |
| `AppendAudit`, `Reply` | the audit row, then the 200 |
| `StorageFails` | a storage call throws, before or after the effects at Toss |
| `DeleteApp`, `ToggleRawTokens`, `ChangeAccepted` | what the admin REST does to a row (`accepts` stands for secret hashes and allowed origins) |
| `MigrateApp`, `ChangeKeys` | operator by hand |
| `ExpireAccess`, `Restart` | an access token runs out at Toss; a process dies and returns |

Toss is external: `codes`, `sessions`, `liveAt`, `liveRt` are as much of it as
the code relies on - a code is good once, a refresh token only while Toss keeps
it, a session can be ended. Whether the old tokens survive a refresh is left
open. Toss's answers are taken to be well formed. `issued`, `acked`,
`wasRevoked` and `wasDead` are history: what clients have been sent, which
revocations have been answered, and what was already true when a request
arrived. `acked` is per process life, as the revocation set is.

Abstractions: a sealed token is the record inside it (its bytes and the AEAD are
assumed perfect); a secret and an origin are both a member of `Credentials`;
bodies that fail the schema are one stateless answer and are left out on the
token route; the ID token in the response carries no state and is left out; the
mTLS client cache can only turn a call to Toss into a failure, which
`ExchangeFails` and `LoginMeFails` allow anyway.

### OidcPromise and the refinement

`OidcPromise` knows only the registry, the revocation sets and open requests.
`Entitled` is the rule of authorisation on the state of *now*; `Consider` notes
that a request was entitled at some instant; only a request so noted may be
closed with `ok`. The handler checks the row first and the revocation set
later, so the mapping (`Cleared`) has to name an instant at which both held: it
takes the row read, and withdraws it if the token is revoked before the check -
`Revoke` of the abstract specification may cost other requests their chance.
That this works depends on revocation sets only growing while a request lives
and on the check coming after the row read.

### RateLimit and SlidingLaw

`RateLimit` has the two `SlidingWindow`s of each process: a bucket or nothing
per key, and the number of `admit` calls since the last sweep (`opCount`, kept
modulo the sweep period). `Request(i, ip, app)` is the middleware: `Admit` for
the address, and if it admits, `Admit` for the app; each one sweeps first
(`Kept`), then creates the bucket or brings it to this window (`Rolled`), then
weighs (`Admits`). Any addresses and apps may come; which of the two the
headers and the body yield is the request's choice, `"unknown"` being one of
the values. `Restart` empties the maps. Time is the pair `(win, into)`, that is
`t = win * Width + into`; `Tick` jumps to any later instant. Weights are
multiplied by `Width`, which makes them exact integers. Fidelity ends at two
places: the code computes with doubles, and `Date.now` may be set back, which
resets a bucket (a hazard no property can cover).

`SlidingLaw` has no buckets, no roll-over and no sweep: it remembers what was
admitted per key and window, and its rule is the doc comment of `SlidingWindow`.
`LawKept` says that `RateLimit` implements it: laziness changes no verdict. The
law itself is a fixed-weight approximation; what it guarantees is `NeverAhead`
(the weighted count never reaches limit + 1, at any instant) and
`QuietKeyIsHeard`. The latter starts just after the window's first instant: a
limit filled exactly at the start of a window still weighs its full amount one
window later, so a client that waits the 60 s of `retry-after` to the
millisecond is refused once more.

### AdminService

One record of `req` is one admin request; its `pc` is the storage call the
handler is about to make.

| Action | Code |
| --- | --- |
| `Send` | a client sends any operation, with any API token it was ever given, about any id it may know |
| `CheckToken` | `adminAuth` and `apiTokens.verify`: token and user found, scope `admin` |
| `ReadApp`, `ReadWorkspace` | the two reads of `getOwnedApp`, the one read of `getOwnedWorkspace`; an empty patch is answered here |
| `ReadTokens` | `listApiTokensByUser` before a deletion |
| `CreateWorkspace` ... `DeleteToken` | the write of the operation, with the constraints of the schema: cascade, foreign key, unique index, the row limit of SQLite, an update of a missing row throws |
| `AppendAudit` | the audit row; the answer follows with nothing in between |
| `Fail` | any call throws, or the process dies |

Every write may also be done while its call throws (`Wrote`). bcrypt and the key
provider touch nothing shared and are part of the step that follows; their
failure is `Fail`. `RotateSecret` writes back the hashes that `ReadApp` saw,
`[...slice(-1), hash]`, on the row as it is now; `UpdateApp` and
`ToggleRawTokens` patch columns of the row as it is now.

History variables: `born` (random ids are never used twice), `handed` and `held`
(what clients were told), `gone` (deletions that were answered) and `secretLog`:
for each secret its app, how many rotations of that app were written since, and
whether another rotation of the app overlapped its own. `SettledSecretWorks` is
what the two-place window is for: a secret that was handed out by an undisturbed
rotation, or with the app, survives one more rotation, answered or lost. With an
overlap it may not (one of the two rotations loses its secret at once), which is
the price of the read-check-write.

Abstractions: a hash is the secret it accepts, scopes are the Boolean "has
`admin`", title and origins are one field, the encrypted columns, client id and
ownership status take no part after creation. Left out: operations that only
read, `lastUsedAt` (`touch` on a missing row updates nothing), deletion of users
(no code does it). A storage call is atomic: for `createApp` on SQLite, which
counts and then inserts, that is true within a Node process (better-sqlite3 is
synchronous) and not across processes.

### Registry and the refinement

`Registry` has one table of rows with an owner, fields and secrets; an app goes
with its workspace. It has no reads and no checks: a creation, change, rotation
or removal is one step that may be taken only while the row belongs to the user
it is done for, changes one field of one row, and closes the request. What may
be older than this instant is said by two steps of their own: `Admit` (the token
was an admin's and names the user) and `Consider` (which secret a rotation will
keep). So a rotation may keep a secret that another one has since replaced: that
is the overlap that `secretLog` counts, and the only update that can be lost.

`AdminRefinement` shows the tables of `AdminService` as rows (an app's owner is
that of its workspace), a request between `Send` and its write as a question, and
one that waits for its audit row as an entry due. A write that happened although
its call threw is an effect without an entry. The reads of ownership are
invisible steps, which is the claim: nothing the checks saw needs to be
remembered. `SnapshotRow`, a patch that saves back the row it read, breaks it.

### MasterKeys

A process has the memory of its kind: `"file"` and `"env"` are servers with the
cache of `cache.ts`, `"workers"` and `"cli"` ask their provider every time. One
record of `call` is one `getKeyBytes` and what is done with the bytes.

| Action | Code |
| --- | --- |
| `BeginCreate`, `BeginCreateOffline`, `BeginOpen` | `POST .../apps` of a server under the version it computed at its start, `app create --db-path` of the CLI, a token whose version byte names the key |
| `BeginConnect`, `ReadRow`, `AskForRow` | the first call to Toss for an app: its row, then the key of the row's version |
| `CacheKey` | `getKeyBytes` after its await: the entry is written, its expiry counted from the time `t` read before (`Asking`, `Hit`, `Provided` are what comes before the await) |
| `CreateApp`, `Connect`, `Leave` | the columns are encrypted and the row inserted; they are decrypted and the mTLS client kept; or the call fails |
| `AddMasterKey`, `RetireMasterKey`, `DeleteApp` | rows |
| `PutKey`, `RemoveKey`, `MigrateRow` | the operator's hand on key files, variables and `apps.sealing_key_version` |
| `Restart` | a process reads its environment and `activeMasterKeyVersion()` again, its cache and its clients are gone |

`deriveSealingKey` is a pair (bytes, app), a column the key it is encrypted
under and its AAD. `upToDate` and `removal` are history: which servers started
since a version was retired, and whether its key was taken away with care
(`Careful`: every server started again, no row names the version, no run of the
CLI under way). `Bytes` are never used twice, as they are random.

`RemovedKeyDies` is about overlapping calls: an entry written late carries the
expiry of an early clock, and may overwrite a newer entry; it still cannot make
the bytes live longer than a TTL after their removal. `NoAppStranded` ties the
version a server computed once at its start to rows that are written later.

### AdminSessions

| Action | Code |
| --- | --- |
| `Login`, `LookUp`, `Refuse`/`Accept`, `InsertSession`, `SetSessionCookie` | `POST /admin/login`: the request, the hash is read, bcrypt (for unknown emails and users without a hash against `DUMMY_HASH`), id and clock are drawn, the row, the answer at the browser |
| `Logout`, `DeleteSession`, `ClearSessionCookie` | `POST /admin/logout`: what the browser still sends, the row, `Max-Age=0` |
| `Validate`, `ReadSession`, `CheckExpiry` | `SessionService.validate`, the row before the clock; offered by the service, no route calls it yet |
| `End` | a storage call fails, the answer is lost, or was given |
| `Restart`, `Purge` | `runStartupTasks`: the clock is read, then the storage purges; only then the process listens |
| `CreateUser`, `SetPassword`, `WritePassword` | the CLI; bcrypt lies between the last two |

A hash is the password it was made from. The cookie's `Expires` is cut down to a
`Second` of several instants. `had` (passwords the user had while a login was
open), `used`, `ending`, `out` (ids drawn, in a logout that arrived, in one that
was answered) are history.

### Startup and Installation

`Startup` reduces the environment to the cases the doctor or the server tell
apart and transcribes both their rules. `Installation` puts it to work: `Begin`
to `PrintSummary` are the steps of `runBootstrap` with the checks and unique
indexes they meet, `Crash` may come before any of them (nothing is rolled back),
two runs may overlap; `DoctorOpens` (which creates a database) and
`DoctorReads`; `Boot`, `Stop` and `CreateApp` are the server; `StartOver` is the
operator following SELF_HOSTING ("delete both"). `raced` is history: directories
that two runs found empty at once, where the second `writeFileSync` does
overwrite `v1.key`. `AppKeepsKey` says that this is the only way.

`GreenStarts` names what the doctor does not look at: other PEMs than the active
one, and the parsed numbers. A *yellow* doctor vouches for nothing: with a
trailing slash in the issuer, or with `gcpsm`, the server refuses to start.

### SigningKeys

`Restart` is `loadOidcConfig` and `createSigningKeyRegistry` with the
environment of the moment (`env`); `Mint` is `mintIdToken`, `Fetch` the JWKS
route answered by any process, kept by a relying party for `MaxAge`. `Publish`,
`Activate`, `Retire`, `Revert` and `Note` are the operator with the RUNBOOK: one
change at a time, every process restarted (`behind`), a wait counted from the
look that all are up (`noted`). Mistakes are allowed: a PEM that cannot be read,
a mistyped kid, the same PEM in two slots, rollouts taken back half way. A slot
may be used again for another key, so the kid of an old token may come to name a
new PEM; the waits are what keeps that harmless.

## The runs

Instances are named in each cfg. For the endpoints one or two processes' worth of requests suffice
because handlers interact only pairwise (a request and the revocation, deletion
or restart that overtakes it); two token sets (`g1`, `g2`) are what a refresh
needs, two apps what a crossing needs. `Asked` and `Disturbances` choose which
kinds of request and which disturbances a run has, so that each question is
asked of an instance that can be explored completely; no run bounds the depth.
`Grants` and `Requests` are symmetric where no liveness is checked.

| Run | Instance | Checks |
| --- | --- | --- |
| `race` | 2 requests; code, refresh, revoke; 2 grants | `RevokedNotServed`, `DeadSessionNotServed` |
| `promise` | 2 requests; code, raw, revoke; raw toggle, deletion, expiry at Toss, restarts | `TypeOK`, `RevokedNotServed`, `PromiseKept` |
| `apps` | 1 request at a time; 2 apps, 2 users, 2 grants, 2 key versions; deletion, credentials, migration, restarts | `SealedAsGranted`, `IssuedIsAudited` |
| `liveness` | 2 requests; code, userinfo, revoke; keys come and go | `EveryRequestEnds` |
| `rate_limit` | 1 process, 2 addresses with limit 2, 2 apps with limit 3, 4 windows of 3 ticks, a sweep every 2nd call | `TypeOK`, `NeverAhead`, `QuietKeyIsHeard`, `LawKept` |
| `admin_rows` | 2 requests, 2 owners, 1 workspace, 1 app; every operation on them but rotations | `NoOrphan`, `DeletedStaysGone`, `OnlyOwnersWrite`, `RegistryKept` |
| `admin_secrets` | 2 requests, 1 owner, 2 tokens, 1 app, 3 secrets; create, rotate, token create and delete | `TypeOK`, `SettledSecretWorks`, `ConfirmedIsAudited`, `DeletedTokenRefused`, `RegistryKept` |
| `master_keys` | a server on key files and the CLI, 2 calls (one of them only opens tokens), 1 app, 2 versions, 2 contents, TTL 1 | `TypeOK`, `RemovedKeyDies`, `NoAppStranded` |
| `sessions` | 2 processes with a request each, 1 browser, 1 user, 2 passwords (one the dummy's), 2 ids, 1 run of set-password; lifetime 2, a second of 2 instants, 3 instants | `TypeOK`, `SessionProven`, `HeldSessionWorks`, `LoggedOutStaysOut` |
| `installation` | 2 runs of bootstrap, 2 directories, 2 databases, 2 emails, every environment at most one setting away from three that work | `TypeOK`, `OneFounder`, `SummaryWorks`, `AppKeepsKey`, `GreenStarts` |
| `signing_keys` | 2 processes, 1 relying party, 1 user, 2 slots, 3 PEMs of which one is unreadable; lifetime, max-age and both waits 2, 8 instants | `TypeOK`, `IdTokensVerify`, `DroppedKeyDies` |

For the admin service two requests are the race (the check of one, the write of
the other), three secrets are two rotations of one app, enough to overlap, to
lose one and to need the older place; every id is used once, as `newId` gives
them out. `Offered` chooses the operations of a run. That `OnlyOwnersWrite`
and `DeletedStaysGone` hold of tokens too is left to the theorems.

Four windows are what it takes to fill one, leave a gap of one, two or three,
and come back; a sweep on every second call falls on each of the two limiters'
keys at every age of a bucket. `LastWindow` is the one bound on time.

A server and the CLI are all the kinds of process a stranded app needs (one
caches its active version, the other reads it each time); the second call of
`master_keys` is there to fill the cache under the first, and `LastInstant` 1
with a TTL of 1 reaches the boundary at which an entry expires. The theorem has
no such bounds.

In `sessions` the two requests sit on two processes, as any pair that races in
one process also may on two; two ids are a session and the one that replaces it
in the browser. A session of instant 0 meets its cookie's end, its row's end and
a purge at instant 2, where the time ends; the cookie of a session of instant 1 is
rounded down to the same instant, while its row is still good. In
`installation` every order of two overlapping runs is in the instance, and each
environment variable is wrong once in each of the three bases. In `signing_keys`
7 steps of time are what it takes for both slots to change hands.

One run, `migrated_rows`, shows a document and the code disagree: SELF_HOSTING
tells an operator who rotates to migrate `apps.sealing_key_version`, but an
app's mTLS columns stay encrypted under a key derived from the old version
(`node.ts:79`), so a migrated app can no longer be connected
(`MigratedAppConnects` is violated).

Met while modelling, and not given a run of their own:

* RUNBOOK:115 calls revoking an access token a local-only mark; `accessRemove`
  is called for every token, so the Toss session ends (`revoke-route.ts:95`;
  its own comment explains why).
* design:339: the next time an app's tokens roll, the new key version is used; a
  refresh reseals under the presented token's version (`token-route.ts:144`).
* design:588: a master key provider that is unavailable is a 500; it is caught
  with the unwrapping errors and answered as a bad token (`token-route.ts:138`).
* design:613: limiter counters live in a shared store; each process has its own
  (`rate-limit-route.ts:38`), and RUNBOOK says so. On Workers the limiter is
  built per request (`workers.ts:125`).
* RUNBOOK:80: a rotation of the secret keeps old hashes active; only the last
  one is kept beside the new one (`service.ts:236`).
* SELF_HOSTING:141: a yellow doctor is not fatal; a slashed issuer and `gcpsm`
  are yellow, and the server throws on both.
* Two overlapping runs of bootstrap pass the `existsSync` check together, and
  the second overwrites `v1.key` (`bootstrap.ts:34`, `:56`).
* `createApp` of SQLite counts, then inserts: the server and the CLI together
  can exceed the limit of one app (`sqlite.ts:157`).
* The waits of the RUNBOOK cover the default lifetime of an ID token; nothing
  compares a configured `ID_TOKEN_TTL_SECONDS` with them.

**Fairness.** `FairSpec` has weak fairness of `Handle(r)`, the next step of the
handler of each request, and of nothing else: clients need not come, operators
need not repair. It is what the event loop gives as long as each awaited call
settles: storage calls settle or throw, `fetch` has undici's header and body
timeouts, bcrypt and WebCrypto end.

Every property of a passing run has a mutant in `PROJECT.json`: a definition of
the model replaced by a plausible bug (an operator defined just before it), with
which the same run reports the property violated.

## What is proved

For any sets of apps, users, versions, grants, codes, processes and requests,
under the assumptions named in `OidcEndpoints` (codes name an app and a user,
versions are naturals, `None` and `Junk` are in no other set):

* `TypeCorrect` (`OidcProofs`): `Spec => []TypeOK`. `TypeOK` alone is not
  inductive: sealing needs the subject and version to be known at that await, the
  audit row needs the app of the presented token. `HandlerInv` says which locals
  are filled in at which await, and `Typed == TypeOK /\ HandlerInv` is inductive.
* `RevokedNeverServed` (`OidcProofs`): `Spec => []RevokedNotServed`. The
  induction needs `RevocationInv`: an answered revocation is in the process's
  set; so is one whose handler has passed its mark; a request that came too late
  for it is still ahead of the check, or failed it, or is about to fail to
  unwrap. It is stated slot by slot (`Late`), and holds across a restart because
  the restart drops the requests that relied on the lost set.
* `SealsAreGrants`, `IssuesAreAudited`, `DeadNeverServed` (`OidcProofs`):
  the invariants `SealedAsGranted`, `IssuedIsAudited`, `DeadSessionNotServed`,
  from one inductive invariant, `LedgerInv`. A slot is `Backed` when what its
  locals say is on record: a presented token was issued, a grant obtained is a
  session of that app (and, after login-me, of that user), an audit row precedes
  the reply, and a request that came with a dead Toss token has not got past the
  call that will refuse it. The records only grow, except the live sets at Toss,
  where a dead grant stays dead because an exchange hands out fresh names.
* `PromiseHolds` (`OidcRefinementProofs`): `Spec => PromiseKept`, the step
  simulation under the mapping of `OidcRefinement`. Each action is one step of
  `OidcPromise` or invisible to it; the row read maps to `Consider` when it lets
  the request go on with an unrevoked token, the mark to `Revoke`, any answer to
  `Close`. It rests on `Typed` and on `CleanInv` (a slot that runs no handler
  belongs to no process and carries no answer unless it is done).

For any limits, window width, sweep period, keys and processes (`RateLimit`
assumes only that limits, width and period are positive):

* `LimiterTypeCorrect`, `LimitsHold`, `LawHolds`, `QuietKeysAreHeard`
  (`RateLimitProofs`): every property of the `rate_limit` run. They rest on
  `FaithfulInv`: a bucket holds the counts of its own window and of the one
  before, nothing was admitted after its window, and a missing bucket means
  nothing was admitted in this window or the last. That is why a stale bucket
  may be swept and a gap may reset (`StaleIsFaithful`, `RolledIsFaithful`), and
  why the verdict is the law's (`AdmitsByLaw`). `LimitsHold` adds that weight
  only falls as time passes (`WeightFalls`) and that an admission adds one
  `Width` to a weight below the limit (`CountNotAhead`). `QuietKeysAreHeard`
  needs `BoundedInv` as well: no window of a key holds more than its limit.

For any users, ids, secrets and number of requests at once (`AdminService`
assumes that the kinds of id are disjoint, that `None` is apart, and a token per
user to begin with):

* `ServiceTypeCorrect`, `NoOrphans`, `DeletedStayGone`, `OwnersAlwaysWrite`,
  `DeletedTokensRefused`, `SettledSecretsWork`, `ConfirmedAreAudited`
  (`AdminServiceProofs`). The
  inductive invariant is `ServiceInv`: what the locals of a handler are at each
  step (`Formed`), and what it found out that is *still* true if the row is there
  (`Grounded`): owners of workspaces and workspaces of apps never change and ids
  are never used again, so an ownership check cannot turn wrong, only void. That
  is one lemma (`SlotEvolves`) over the relation `Evolves`, which every action is
  shown to be in. `SecretInv` says which place a secret has: an undisturbed one
  is the newest, in the row and in what every rotation under way has read, until
  the next is written; then it is the other one. `AuditInv` is what
  `ConfirmedAreAudited` adds: of one app at most one creation is on its way to
  its audit row, and it hands out the first secret unless a rotation is on record
  already.

* `RegistryHolds` (`AdminServiceProofs`): `Spec => RegistryKept`, one lemma per
  handler step, in this order: how a table change looks as rows
  (`OneRowChanges`, `RowsNext`), how a slot change looks as a question or an
  entry (`SlotBars`, `QuestionShape`), the steps before the write, the writes.
  It rests on `ServiceInv`: `Grounded` makes the row the user's at the write
  (`MineAtWrite`), `NoOrphan` gives every app an owner, and a secret that is
  logged was never used. It assumes besides that `None` is no row, question or
  entry (`ApartAssumption`).

For any processes, kinds of process, apps, versions, contents, calls and TTL
(`MasterKeys` assumes a positive TTL, versions above zero, a first key, and
`None` apart):

* `MasterKeysTypeCorrect`, `RemovedKeysDie`, `NoAppsStranded`
  (`MasterKeysProofs`). For `RemovedKeyDies` the invariant is `FreshInv`: bytes
  in a cache or on their way there were still provided at the time their expiry
  is counted from. For `NoAppStranded` it says where a version can still come
  from: rows, processes that hold it as active, calls that fetched its bytes; a
  careful removal finds all three empty, and they stay empty because a retired
  version is never chosen again.

For any processes, browsers, users, passwords, ids, requests, lifetime and
cookie granularity (`AdminSessions` assumes that the dummy's password is one,
`Unset` none, and `None` apart):

* `SessionsTypeCorrect`, `SessionsProven`, `HeldSessionsWork`,
  `LoggedOutStaysOutAlways` (`AdminSessionsProofs`), from one invariant, `IInv`.
  `Fits` says of each request, at each of its awaits, what it may rely on: the
  hash it read is a password it saw; its id is its own, in no cookie and in no
  logout; its row is there as long as it is not past. `Known` and `Backed` say
  it of the tables: ids come from logins, those of an answered logout have no
  row, a live cookie has a row that outlives it. Purges are harmless because
  their instant is past (`CutoffsPast`) and cookies are cut down, never up
  (`CookieNotLonger`). Most actions are one lemma, `SlotStep`: a request goes on
  while the tables stay.

For any processes, relying parties, users, slots, PEMs and times whose waits
cover lifetime and max-age (`TimeAssumption` of `SigningKeys`: the RUNBOOK's
waits against the defaults; `KeyAssumption`: the first key is readable and there
is a process):

* `SigningKeysTypeCorrect`, `IdTokensAlwaysVerify`, `DroppedKeysDie`
  (`SigningKeysProofs`). During a rollout processes run `env` or `former`
  (`Rollout`); what one of the two signs with, the other lists, and so does
  every JWKS that is still fresh (`SignersListed`); hence every live token is
  listed everywhere (`LiveListed`). `OldTokens` bounds the age of tokens under
  another kid than the active one, `Settled` that of a JWKS which lacks the
  published key; the waits make both harmless at `Activate` and `Retire`.

For any runs, commands, directories, databases, emails and environments
(`Installation` assumes that commands and environments are well formed and that
`None` is apart):

* `InstallationTypeCorrect`, `OneFounderAlways`, `SummariesWork`,
  `AppsKeepTheirKey`, `GreenAlwaysStarts` (`InstallationProofs`), from one
  invariant, `IInv`. `DoneBy` says what a run has done by the step it is at and
  that it is still done: nobody undoes it except `StartOver`, which waits until
  nothing runs. `OneHeir` says that of the runs on one database at most one got
  past the key row or made anything, `KeyUndisturbed` that where no two runs
  raced for the key file a key that is there is nobody's to write any more,
  `Vouched` that what the doctor and a start say depends on the environment
  alone. Even `TypeOK` needs `DoneBy`: an app is sealed with the key file of
  its directory, which has to be there by then.

Only model-checked: `EveryRequestEnds`, because liveness is out of the prover's
reach, and `MigratedAppConnects`, which is false. TLC confirmed the inductive
invariants before they were proved.

## Not modelled

The crypto ports and byte formats (assumed perfect); parsing of configuration
beyond whether a process starts with it; logging, tracing and the discovery
document (no state); status probes (read-only); SQL, row mapping and migrations;
routing of the apps of Hono; argument parsing and output of the CLI. On Workers
the revocation set is created per request, so the same-process guarantee says
nothing there; the entry point there mounts no admin REST.

## Plan

What is left, in order of importance:

1. The byte layout of a sealed token as an operator over short sequences, wrap
   and unwrap against a reference definition.
2. Storage calls of two processes on SQLite as several steps (`createApp`).
