------------------------- MODULE SigningKeysProofs -------------------------
(***************************************************************************)
(* Proofs about SigningKeys, for any processes, consumers, kids, PEMs and  *)
(* times that meet its assumptions.                                        *)
(*                                                                         *)
(* While a rollout is under way the processes run env or former.  What one *)
(* of the two signs with, the other lists, and so does every JWKS that is  *)
(* still fresh (SignersListed); from there every live token verifies with  *)
(* both (LiveListed).                                                      *)
(***************************************************************************)
EXTENDS SigningKeys, TLAPS

\* Who runs what.
Rollout ==
    /\ \A p \in Running : registry[p] \in {env, former}
    /\ \A p \in Running \ behind : registry[p] = env
    /\ noted # None => behind = {} /\ env.slots[env.active] # None

\* After the operator's look every younger JWKS is of env.
Settled ==
    noted # None => \A c \in Consumers :
        cache[c] # None /\ noted < cache[c].at => cache[c].keys = env.slots

\* The keys that may sign are listed everywhere.
SignersListed ==
    /\ noted = None =>
        /\ former.slots[env.active] = env.slots[env.active]
        /\ env.slots[former.active] = former.slots[former.active]
    /\ \A c \in Consumers : Fresh(c) =>
        /\ cache[c].keys[env.active] = env.slots[env.active]
        /\ noted = None => cache[c].keys[former.active] = former.slots[former.active]

Live(u) == token[u] # None /\ now < token[u].exp

\* The key of a live token is listed everywhere.
LiveListed ==
    \A u \in Users : Live(u) =>
        /\ env.slots[token[u].kid] = token[u].pem
        /\ noted = None => former.slots[token[u].kid] = token[u].pem
        /\ \A c \in Consumers : Fresh(c) => cache[c].keys[token[u].kid] = token[u].pem

\* Tokens under another kid than the active one are older than the look.
OldTokens ==
    \A u \in Users : token[u] # None =>
        /\ token[u].exp <= now + Ttl
        /\ noted # None /\ token[u].kid # env.active => token[u].exp <= noted + Ttl

\* A dropped PEM is in no environment that runs, and only in JWKS from before.
Dropped ==
    /\ \A x \in Pems : dropped[x] # None =>
        \A k \in Kids : env.slots[k] # x /\ (noted = None => former.slots[k] # x)
    /\ \A c \in Consumers : cache[c] # None =>
        /\ cache[c].at <= now
        /\ \A x \in Pems, k \in Kids :
              dropped[x] # None /\ cache[c].keys[k] = x => cache[c].at <= dropped[x]

IInv == TypeOK /\ Rollout /\ Settled /\ SignersListed /\ LiveListed /\ OldTokens /\ Dropped

-----------------------------------------------------------------------------
\* None is no instant.
LEMMA TimesAreInts == Times \subseteq Nat /\ None \notin Times
  BY NoneAssumption, TimeAssumption DEF Times

\* The environment the installation starts with.
LEMMA FirstEnvTyped ==
    /\ FirstEnv \in Env /\ FirstEnv \in Registry /\ FirstEnv # None
    /\ FirstEnv.slots[FirstEnv.active] # None
  BY KeyAssumption, NoneAssumption DEF FirstEnv, Env, Slots, Registry

\* The initial states satisfy the invariant.
LEMMA InitIInv == Init => IInv
  <1> SUFFICES ASSUME Init PROVE IInv
    OBVIOUS
  <1>1. now \in Nat /\ now \in Times /\ 0 # None
    BY TimesAreInts, NoneAssumption, TimeAssumption DEF Init, Times
  <1>2. TypeOK
    BY <1>1, FirstEnvTyped DEF Init, TypeOK, Running
  <1>3. Rollout
    BY FirstEnvTyped DEF Init, Rollout, Running
  <1>4. Settled /\ SignersListed /\ LiveListed /\ OldTokens /\ Dropped
    BY <1>1 DEF Init, Settled, SignersListed, LiveListed, OldTokens, Dropped, Fresh, Live
  <1>5. QED
    BY <1>2, <1>3, <1>4 DEF IInv

\* What the two properties need of a running process.
LEMMA RunningLists ==
    ASSUME IInv, NEW p \in Running
    PROVE  /\ registry[p] = env \/ (noted = None /\ registry[p] = former)
           /\ registry[p].slots[registry[p].active] # None
           /\ registry[p].active \in Kids
           /\ registry[p].slots[registry[p].active] \in Pems
           /\ registry[p] \in Registry
           /\ registry[p].slots \in Slots
  <1>1. registry[p] \in Registry /\ registry[p].slots[registry[p].active] # None
    BY DEF IInv, TypeOK, Running
  <1>2. CASE noted = None
    BY <1>1, <1>2 DEF IInv, Rollout, Registry, Slots
  <1>3. CASE noted # None
    BY <1>1, <1>3 DEF IInv, Rollout, Registry, Slots
  <1>4. QED
    BY <1>2, <1>3

\* A restart or a stop of a process.
LEMMA ProcessStep ==
    ASSUME IInv, NEW p \in Processes, NEW r \in Registry \cup {None},
           r = None \/ (r = env /\ r.slots[r.active] # None),
           registry' = [registry EXCEPT ![p] = r], behind' = behind \ {p},
           UNCHANGED <<now, env, former, noted, token, cache, dropped>>
    PROVE  IInv'
  <1>1. \A q \in Processes : registry'[q] = IF q = p THEN r ELSE registry[q]
    BY DEF IInv, TypeOK
  <1>2. Running' \subseteq Running \cup {p} /\ \A q \in Running' : q = p => r # None
    BY <1>1 DEF Running
  <1>3. TypeOK'
    <2>1. registry' \in [Processes -> Registry \cup {None}]
      BY DEF IInv, TypeOK
    <2>2. behind' \subseteq Running'
      BY <1>1 DEF IInv, TypeOK, Running
    <2>3. \A q \in Running' : registry'[q].slots[registry'[q].active] # None
      BY <1>1, <1>2 DEF IInv, TypeOK, Running
    <2>4. QED
      BY <2>1, <2>2, <2>3 DEF IInv, TypeOK
  <1>4. Rollout'
    BY <1>1, <1>2 DEF IInv, Rollout, Running
  <1>5. (Settled /\ SignersListed /\ LiveListed /\ OldTokens /\ Dropped)'
    BY DEF IInv, Settled, SignersListed, LiveListed, OldTokens, Dropped, Fresh, Live
  <1>6. QED
    BY <1>3, <1>4, <1>5 DEF IInv

\* A process takes up the environment of the moment.
LEMMA RestartIInv ==
    ASSUME IInv, NEW p \in Processes, Restart(p) PROVE IInv'
  <1>1. CASE Starts(env)
    <2>1. env \in Registry /\ env.slots[env.active] # None
      BY <1>1 DEF IInv, TypeOK, Starts, Env, Slots, Registry
    <2>2. QED
      BY <1>1, <2>1, ProcessStep DEF Restart, Loaded
  <1>2. CASE ~Starts(env)
    BY <1>2, ProcessStep DEF Restart
  <1>3. QED
    BY <1>1, <1>2

\* A process that stops signs and lists nothing.
LEMMA StopIInv ==
    ASSUME IInv, NEW p \in Processes, Stop(p) PROVE IInv'
  BY ProcessStep DEF Stop

\* A new token is signed with a key its process lists.
LEMMA MintIInv ==
    ASSUME IInv, NEW p \in Processes, NEW u \in Users, Mint(p, u) PROVE IInv'
  <1> DEFINE t == Minted(registry[p])
  <1>1. p \in Running
    BY DEF Mint
  <1>2. now \in Nat /\ Ttl \in Nat
    BY TimesAreInts, TimeAssumption DEF IInv, TypeOK
  <1>3. t \in Token /\ t.kid = registry[p].active /\ t.exp = now + Ttl
        /\ t.pem = registry[p].slots[registry[p].active] /\ t # None
    <2>1. t \in Token
      BY <1>1, <1>2, RunningLists DEF Minted, Token
    <2>2. QED
      BY <2>1, NoneAssumption DEF Minted
  <1>4. \A v \in Users : token'[v] = IF v = u THEN t ELSE token[v]
    BY DEF IInv, TypeOK, Mint
  <1> HIDE DEF t
  <1>5. TypeOK'
    <2>1. token' \in [Users -> Token \cup {None}]
      BY <1>3 DEF IInv, TypeOK, Mint, t
    <2>2. QED
      BY <2>1 DEF IInv, TypeOK, Mint, Running
  <1>6. (Rollout /\ Settled /\ SignersListed /\ Dropped)'
    BY DEF IInv, Mint, Rollout, Settled, SignersListed, Dropped, Fresh, Running
  <1>7. env.slots[t.kid] = t.pem /\ (noted = None => former.slots[t.kid] = t.pem)
        /\ (noted # None => t.kid = env.active)
    BY <1>1, <1>3, RunningLists DEF IInv, SignersListed
  <1>8. \A c \in Consumers : Fresh(c) => cache[c].keys[t.kid] = t.pem
    BY <1>1, <1>3, RunningLists DEF IInv, SignersListed
  <1>9. LiveListed'
    <2> SUFFICES ASSUME NEW v \in Users, Live(v)'
                 PROVE  /\ env.slots[token'[v].kid] = token'[v].pem
                        /\ noted = None => former.slots[token'[v].kid] = token'[v].pem
                        /\ \A c \in Consumers :
                              Fresh(c) => cache[c].keys[token'[v].kid] = token'[v].pem
      BY DEF LiveListed, Mint, Fresh
    <2>1. CASE v = u
      BY <2>1, <1>4, <1>7, <1>8
    <2>2. CASE v # u
      BY <2>2, <1>4 DEF IInv, LiveListed, Live, Mint
    <2>3. QED
      BY <2>1, <2>2
  <1>10. OldTokens'
    <2> SUFFICES ASSUME NEW v \in Users, token'[v] # None
                 PROVE  /\ token'[v].exp <= now + Ttl
                        /\ noted # None /\ token'[v].kid # env.active
                              => token'[v].exp <= noted + Ttl
      BY DEF OldTokens, Mint
    <2>1. CASE v = u
      BY <2>1, <1>2, <1>3, <1>4, <1>7
    <2>2. CASE v # u
      BY <2>2, <1>4 DEF IInv, OldTokens
    <2>3. QED
      BY <2>1, <2>2
  <1>11. QED
    BY <1>5, <1>6, <1>9, <1>10 DEF IInv

\* The JWKS the client keeps is its process's list of this instant.
LEMMA FetchIInv ==
    ASSUME IInv, NEW c \in Consumers, NEW p \in Processes, Fetch(c, p) PROVE IInv'
  <1> DEFINE r == registry[p]
             j == [keys |-> Listed(r), at |-> now]
  <1>1. p \in Running
    BY DEF Fetch
  <1>2. r = env \/ (noted = None /\ r = former)
    BY <1>1, RunningLists
  <1>3. now \in Nat
    BY TimesAreInts DEF IInv, TypeOK
  <1>4. j \in Jwks /\ j # None /\ j.keys = r.slots /\ j.at = now
    <2>1. j \in Jwks
      BY <1>1, <1>3, RunningLists DEF Listed, Jwks
    <2>2. QED
      BY <2>1, NoneAssumption DEF Listed
  <1>5. \A d \in Consumers : cache'[d] = IF d = c THEN j ELSE cache[d]
    BY DEF IInv, TypeOK, Fetch
  <1> HIDE DEF j
  <1>6. TypeOK'
    <2>1. cache' \in [Consumers -> Jwks \cup {None}]
      BY <1>4 DEF IInv, TypeOK, Fetch, j
    <2>2. QED
      BY <2>1 DEF IInv, TypeOK, Fetch, Running
  <1>7. (Rollout /\ OldTokens)'
    BY DEF IInv, Fetch, Rollout, OldTokens, Running
  <1>8. Settled'
    BY <1>2, <1>4, <1>5 DEF IInv, Settled, Fetch
  <1>9. \A d \in Consumers : Fresh(d)' => d = c \/ Fresh(d)
    BY <1>5 DEF Fresh, Fetch
  <1>10. SignersListed'
    <2>1. j.keys[env.active] = env.slots[env.active]
          /\ (noted = None => j.keys[former.active] = former.slots[former.active])
      BY <1>2, <1>4 DEF IInv, SignersListed
    <2>2. \A d \in Consumers : Fresh(d)' =>
             /\ cache'[d].keys[env.active] = env.slots[env.active]
             /\ noted = None => cache'[d].keys[former.active] = former.slots[former.active]
      BY <2>1, <1>5, <1>9 DEF IInv, SignersListed
    <2>3. QED
      BY <2>2 DEF IInv, SignersListed, Fetch
  <1>11. LiveListed'
    <2>1. \A u \in Users : Live(u) => j.keys[token[u].kid] = token[u].pem
      BY <1>2, <1>4 DEF IInv, LiveListed
    <2>2. \A u \in Users : Live(u) => \A d \in Consumers :
             Fresh(d)' => cache'[d].keys[token[u].kid] = token[u].pem
      BY <2>1, <1>5, <1>9 DEF IInv, LiveListed
    <2>3. QED
      BY <2>2 DEF IInv, LiveListed, Live, Fetch
  <1>12. Dropped'
    <2>1. \A x \in Pems, k \in Kids : dropped[x] # None => j.keys[k] # x
      BY <1>2, <1>4 DEF IInv, Dropped
    <2>2. \A d \in Consumers : cache'[d] # None =>
             /\ cache'[d].at <= now
             /\ \A x \in Pems, k \in Kids :
                   dropped[x] # None /\ cache'[d].keys[k] = x => cache'[d].at <= dropped[x]
      BY <2>1, <1>3, <1>4, <1>5 DEF IInv, Dropped
    <2>3. QED
      BY <2>2 DEF IInv, Dropped, Fetch
  <1>13. QED
    BY <1>6, <1>7, <1>8, <1>10, <1>11, <1>12 DEF IInv

\* A change of one thing, after the operator's look.
LEMMA ChangeIInv ==
    ASSUME IInv, NEW e \in Env, noted # None, Change(e),
           UNCHANGED <<now, registry, token, cache>>,
           dropped' \in [Pems -> Times \cup {None}],
           e.slots[env.active] = env.slots[env.active],
           e.slots[e.active] = env.slots[e.active],
           \A u \in Users : Live(u) => e.slots[token[u].kid] = token[u].pem,
           \A c \in Consumers : Fresh(c) => cache[c].keys[e.active] = e.slots[e.active],
           \A x \in Pems : dropped'[x] # None =>
              dropped[x] = dropped'[x] /\ \A k \in Kids : e.slots[k] # x
    PROVE  IInv'
  <1>1. env' = e /\ former' = env /\ behind' = Running /\ noted' = None
    BY DEF Change
  <1>2. TypeOK'
    BY <1>1 DEF IInv, TypeOK, Running
  <1>3. Rollout'
    <2>1. \A p \in Running : registry[p] = env
      BY DEF IInv, Rollout
    <2>2. QED
      BY <1>1, <2>1 DEF Rollout, Running
  <1>4. Settled'
    BY <1>1 DEF Settled
  <1>5. SignersListed'
    BY <1>1 DEF IInv, SignersListed, Fresh
  <1>6. LiveListed'
    BY <1>1 DEF IInv, LiveListed, Live, Fresh
  <1>7. OldTokens'
    BY <1>1 DEF IInv, OldTokens
  <1>8. Dropped'
    <2>1. \A x \in Pems : dropped'[x] # None =>
             \A k \in Kids : e.slots[k] # x /\ env.slots[k] # x
      BY DEF IInv, Dropped
    <2>2. \A c \in Consumers : cache[c] # None =>
             /\ cache[c].at <= now
             /\ \A x \in Pems, k \in Kids :
                   dropped'[x] # None /\ cache[c].keys[k] = x => cache[c].at <= dropped'[x]
      BY DEF IInv, Dropped
    <2>3. QED
      BY <1>1, <2>1, <2>2 DEF Dropped
  <1>9. QED
    BY <1>2, <1>3, <1>4, <1>5, <1>6, <1>7, <1>8 DEF IInv

\* The next key joins the environment; nothing leaves it.
LEMMA PublishIInv ==
    ASSUME IInv, NEW k \in Kids, NEW x \in Pems, Publish(k, x) PROVE IInv'
  <1> DEFINE e == [env EXCEPT !.slots[k] = x]
  <1>1. env \in Env /\ env.slots \in Slots /\ noted # None /\ env.slots[k] = None
    BY DEF IInv, TypeOK, Env, Publish
  <1>2. e \in Env /\ e.active = env.active
    BY <1>1 DEF Env, Slots
  <1>3. \A j \in Kids : e.slots[j] = IF j = k THEN x ELSE env.slots[j]
    BY <1>1 DEF Env, Slots
  <1>4. Change(e) /\ UNCHANGED <<now, registry, token, cache>>
    BY DEF Publish
  <1>5. env.active \in Kids /\ env.active # k
    BY <1>1 DEF IInv, Rollout, Env
  <1>6. dropped' \in [Pems -> Times \cup {None}]
        /\ \A y \in Pems : dropped'[y] = IF y = x THEN None ELSE dropped[y]
    BY DEF IInv, TypeOK, Publish
  <1> HIDE DEF e
  <1>7. \A u \in Users : Live(u) => e.slots[token[u].kid] = token[u].pem
    <2> SUFFICES ASSUME NEW u \in Users, Live(u)
                 PROVE  e.slots[token[u].kid] = token[u].pem
      OBVIOUS
    <2>1. token[u] \in Token /\ env.slots[token[u].kid] = token[u].pem
      BY DEF IInv, TypeOK, LiveListed, Live
    <2>2. token[u].kid \in Kids /\ token[u].pem # None
      BY <2>1, NoneAssumption DEF Token
    <2>3. QED
      BY <1>1, <1>3, <2>1, <2>2
  <1>8. \A c \in Consumers : Fresh(c) => cache[c].keys[e.active] = e.slots[e.active]
    BY <1>2, <1>3, <1>5 DEF IInv, SignersListed
  <1>9. \A y \in Pems : dropped'[y] # None =>
           dropped[y] = dropped'[y] /\ \A j \in Kids : e.slots[j] # y
    BY <1>3, <1>6 DEF IInv, Dropped
  <1>10. QED
    BY <1>1, <1>2, <1>3, <1>4, <1>5, <1>6, <1>7, <1>8, <1>9, ChangeIInv

\* When the wait is over, every fresh JWKS is younger than the look.
LEMMA WaitedForCaches ==
    ASSUME IInv, Waited(PublishWait), NEW c \in Consumers, Fresh(c)
    PROVE  cache[c].keys = env.slots
  <1>1. now \in Nat /\ noted \in Nat /\ noted # None /\ noted + PublishWait <= now
    BY TimesAreInts DEF IInv, TypeOK, Waited
  <1>2. cache[c] # None /\ cache[c].at \in Nat /\ now < cache[c].at + MaxAge
    BY DEF IInv, TypeOK, Fresh, Jwks
  <1>3. noted < cache[c].at
    BY <1>1, <1>2, TimeAssumption
  <1>4. QED
    BY <1>1, <1>2, <1>3 DEF IInv, Settled

\* Activation waits until no fresh JWKS lacks the next key.
LEMMA ActivateIInv ==
    ASSUME IInv, NEW k \in Kids, Activate(k) PROVE IInv'
  <1> DEFINE e == [env EXCEPT !.active = k]
  <1>1. env \in Env /\ noted # None /\ Waited(PublishWait)
    BY DEF IInv, TypeOK, Activate, Waited
  <1>2. e \in Env /\ e.active = k /\ e.slots = env.slots
    BY <1>1 DEF Env
  <1>3. Change(e) /\ UNCHANGED <<now, registry, token, cache, dropped>>
    BY DEF Activate
  <1> HIDE DEF e
  <1>4. \A u \in Users : Live(u) => e.slots[token[u].kid] = token[u].pem
    BY <1>2 DEF IInv, LiveListed
  <1>5. \A c \in Consumers : Fresh(c) => cache[c].keys[e.active] = e.slots[e.active]
    BY <1>1, <1>2, WaitedForCaches
  <1>6. dropped' \in [Pems -> Times \cup {None}]
        /\ \A x \in Pems : dropped'[x] # None =>
              dropped[x] = dropped'[x] /\ \A j \in Kids : e.slots[j] # x
    BY <1>2, <1>3 DEF IInv, TypeOK, Dropped
  <1>7. QED
    BY <1>1, <1>2, <1>3, <1>4, <1>5, <1>6, ChangeIInv

\* The key retired has outlived its tokens.
LEMMA RetireIInv ==
    ASSUME IInv, NEW k \in Kids, Retire(k) PROVE IInv'
  <1> DEFINE e == [env EXCEPT !.slots[k] = None]
  <1>1. env \in Env /\ env.slots \in Slots /\ k # env.active /\ env.active \in Kids
    BY DEF IInv, TypeOK, Env, Retire
  <1>2. now \in Nat /\ noted \in Nat /\ noted # None /\ noted + RetireWait <= now
    BY TimesAreInts DEF IInv, TypeOK, Retire, Waited
  <1>3. e \in Env /\ e.active = env.active
    BY <1>1 DEF Env, Slots
  <1>4. \A j \in Kids : e.slots[j] = IF j = k THEN None ELSE env.slots[j]
    BY <1>1 DEF Env, Slots
  <1>5. Change(e) /\ UNCHANGED <<now, registry, token, cache, dropped>>
    BY DEF Retire
  <1> HIDE DEF e
  <1>6. \A u \in Users : Live(u) => e.slots[token[u].kid] = token[u].pem
    <2> SUFFICES ASSUME NEW u \in Users, Live(u)
                 PROVE  e.slots[token[u].kid] = token[u].pem
      OBVIOUS
    <2>1. token[u].kid \in Kids /\ token[u].exp \in Nat /\ token[u] # None
          /\ now < token[u].exp
      BY DEF IInv, TypeOK, Live, Token
    <2>2. token[u].kid # k
      <3> SUFFICES ASSUME token[u].kid = k PROVE FALSE
        OBVIOUS
      <3>1. token[u].exp <= noted + Ttl
        BY <1>1, <1>2, <2>1 DEF IInv, OldTokens
      <3>2. QED
        BY <1>2, <2>1, <3>1, TimeAssumption
    <2>3. QED
      BY <1>4, <2>1, <2>2 DEF IInv, LiveListed
  <1>7. \A c \in Consumers : Fresh(c) => cache[c].keys[e.active] = e.slots[e.active]
    BY <1>1, <1>3, <1>4 DEF IInv, SignersListed
  <1>8. dropped' \in [Pems -> Times \cup {None}]
        /\ \A x \in Pems : dropped'[x] # None =>
              dropped[x] = dropped'[x] /\ \A j \in Kids : e.slots[j] # x
    BY <1>4, <1>5, NoneAssumption DEF IInv, TypeOK, Dropped
  <1>9. QED
    BY <1>1, <1>2, <1>3, <1>4, <1>5, <1>6, <1>7, <1>8, ChangeIInv

\* A rollback swaps environments that both list the keys in use.
LEMMA RevertIInv ==
    ASSUME IInv, Revert PROVE IInv'
  <1>1. /\ env' = former /\ former' = env /\ behind' = Running /\ noted' = None
        /\ noted = None /\ UNCHANGED <<now, registry, token, cache, dropped>>
    BY DEF Revert, Change
  <1>2. TypeOK'
    BY <1>1 DEF IInv, TypeOK, Running
  <1>3. Rollout'
    BY <1>1 DEF IInv, Rollout, Running
  <1>4. Settled' /\ OldTokens'
    BY <1>1 DEF IInv, Settled, OldTokens
  <1>5. SignersListed'
    BY <1>1 DEF IInv, SignersListed, Fresh
  <1>6. LiveListed'
    BY <1>1 DEF IInv, LiveListed, Live, Fresh
  <1>7. Dropped'
    BY <1>1 DEF IInv, Dropped
  <1>8. QED
    BY <1>2, <1>3, <1>4, <1>5, <1>6, <1>7 DEF IInv

\* The operator sees that every process has the environment.
LEMMA NoteIInv ==
    ASSUME IInv, Note PROVE IInv'
  <1>1. /\ noted = None /\ noted' = now /\ behind = {} /\ Running = Processes
        /\ UNCHANGED <<now, env, former, behind, registry, token, cache>>
    BY DEF Note
  <1>2. now \in Nat /\ now \in Times /\ now # None /\ Ttl \in Nat
    BY TimesAreInts, TimeAssumption, NoneAssumption DEF IInv, TypeOK
  <1>3. dropped' = [x \in Pems |->
          IF \E k \in Kids : env.slots[k] = x THEN None
          ELSE IF dropped[x] = None THEN now ELSE dropped[x]]
    BY DEF Note
  <1>4. TypeOK'
    <2>1. dropped' \in [Pems -> Times \cup {None}]
      BY <1>2, <1>3 DEF IInv, TypeOK
    <2>2. QED
      BY <1>1, <1>2, <2>1 DEF IInv, TypeOK, Running
  <1>5. Rollout'
    <2>1. PICK p \in Processes : TRUE
      BY KeyAssumption
    <2>2. registry[p] = env /\ registry[p].slots[registry[p].active] # None
      BY <1>1 DEF IInv, Rollout, TypeOK
    <2>3. QED
      BY <1>1, <2>2 DEF IInv, Rollout, Running
  <1>6. \A c \in Consumers : cache[c] # None => cache[c].at \in Nat /\ cache[c].at <= now
    BY DEF IInv, TypeOK, Dropped, Jwks
  <1>7. Settled'
    BY <1>1, <1>2, <1>6 DEF Settled
  <1>8. SignersListed'
    BY <1>1, <1>2 DEF IInv, SignersListed, Fresh
  <1>9. LiveListed'
    BY <1>1, <1>2 DEF IInv, LiveListed, Live, Fresh
  <1>10. OldTokens'
    BY <1>1, <1>2 DEF IInv, OldTokens
  <1>11. Dropped'
    <2>1. \A x \in Pems : dropped'[x] # None => \A k \in Kids : env.slots[k] # x
      BY <1>3
    <2>2. \A c \in Consumers : cache[c] # None =>
             \A x \in Pems, k \in Kids :
                   dropped'[x] # None /\ cache[c].keys[k] = x => cache[c].at <= dropped'[x]
      BY <1>3, <1>6 DEF IInv, Dropped
    <2>3. QED
      BY <1>1, <1>2, <1>6, <2>1, <2>2 DEF Dropped
  <1>12. QED
    BY <1>4, <1>5, <1>7, <1>8, <1>9, <1>10, <1>11 DEF IInv

\* Time passes: tokens and JWKS only grow older.
LEMMA TickIInv ==
    ASSUME IInv, Tick PROVE IInv'
  <1>1. now \in Nat /\ now' = now + 1 /\ now' \in Times
        /\ UNCHANGED <<env, former, behind, noted, registry, token, cache, dropped>>
    BY TimesAreInts, TimeAssumption DEF IInv, TypeOK, Tick, Times
  <1>2. TypeOK'
    BY <1>1 DEF IInv, TypeOK, Running
  <1>3. Rollout' /\ Settled'
    BY <1>1 DEF IInv, Rollout, Settled, Running
  <1>4. \A c \in Consumers : Fresh(c)' => Fresh(c)
    <2> SUFFICES ASSUME NEW c \in Consumers, Fresh(c)' PROVE Fresh(c)
      OBVIOUS
    <2>1. cache[c].at \in Nat
      BY <1>1 DEF IInv, TypeOK, Fresh, Jwks
    <2>2. QED
      BY <1>1, <2>1, TimeAssumption DEF Fresh
  <1>5. \A u \in Users : (Live(u)' => Live(u))
    <2> SUFFICES ASSUME NEW u \in Users, Live(u)' PROVE Live(u)
      OBVIOUS
    <2>1. token[u].exp \in Nat
      BY <1>1 DEF IInv, TypeOK, Live, Token
    <2>2. QED
      BY <1>1, <2>1 DEF Live
  <1>6. SignersListed'
    BY <1>1, <1>4 DEF IInv, SignersListed
  <1>7. LiveListed'
    BY <1>1, <1>4, <1>5 DEF IInv, LiveListed
  <1>8. OldTokens'
    <2> SUFFICES ASSUME NEW u \in Users, token[u] # None
                 PROVE  token[u].exp <= now + 1 + Ttl
      BY <1>1 DEF IInv, OldTokens
    <2>1. token[u].exp \in Nat /\ token[u].exp <= now + Ttl
      BY DEF IInv, TypeOK, OldTokens, Token
    <2>2. QED
      BY <1>1, <2>1, TimeAssumption
  <1>9. Dropped'
    <2>1. \A c \in Consumers : cache[c] # None => cache[c].at \in Nat /\ cache[c].at <= now
      BY DEF IInv, TypeOK, Dropped, Jwks
    <2>2. QED
      BY <1>1, <2>1 DEF IInv, Dropped
  <1>10. QED
    BY <1>2, <1>3, <1>6, <1>7, <1>8, <1>9 DEF IInv

\* Every step keeps the invariant.
LEMMA NextIInv == IInv /\ [Next]_vars => IInv'
  <1> SUFFICES ASSUME IInv, [Next]_vars PROVE IInv'
    OBVIOUS
  <1>1. CASE \E p \in Processes :
               \/ Restart(p) \/ Stop(p)
               \/ \E u \in Users : Mint(p, u)
               \/ \E c \in Consumers : Fetch(c, p)
    BY <1>1, RestartIInv, StopIInv, MintIInv, FetchIInv
  <1>2. CASE \E k \in Kids :
               \/ \E x \in Pems : Publish(k, x)
               \/ Activate(k) \/ Retire(k)
    BY <1>2, PublishIInv, ActivateIInv, RetireIInv
  <1>3. CASE Revert \/ Note \/ Tick
    BY <1>3, RevertIInv, NoteIInv, TickIInv
  <1>4. CASE UNCHANGED vars
    BY <1>4 DEF vars, IInv, TypeOK, Rollout, Settled, SignersListed, LiveListed, OldTokens,
                Dropped, Live, Fresh, Running
  <1>5. QED
    BY <1>1, <1>2, <1>3, <1>4 DEF Next

\* The invariant gives the first property: what a process lists is env or former.
LEMMA TokensFromIInv == IInv => IdTokensVerify
  <1> SUFFICES ASSUME IInv, NEW u \in Users, token[u] # None, now < token[u].exp
               PROVE  /\ \A c \in Consumers : Fresh(c) => Verifies(token[u], cache[c].keys)
                      /\ \A p \in Running : Verifies(token[u], Listed(registry[p]))
    BY DEF IdTokensVerify
  <1>1. Live(u)
    BY DEF Live
  <1>2. \A c \in Consumers : Fresh(c) => Verifies(token[u], cache[c].keys)
    BY <1>1 DEF IInv, LiveListed, Verifies
  <1>3. ASSUME NEW p \in Running PROVE Verifies(token[u], Listed(registry[p]))
    BY <1>1, RunningLists DEF IInv, LiveListed, Verifies, Listed
  <1>4. QED
    BY <1>2, <1>3

\* And the second: a fresh JWKS with a dropped key is older than its drop.
LEMMA DropFromIInv == IInv => DroppedKeyDies
  <1> SUFFICES ASSUME IInv, NEW x \in Pems, NEW c \in Consumers, NEW k \in Kids,
                      dropped[x] # None, dropped[x] + MaxAge <= now, Fresh(c),
                      cache[c].keys[k] = x
               PROVE  FALSE
    BY DEF DroppedKeyDies
  <1>1. dropped[x] \in Nat /\ now \in Nat
    BY TimesAreInts DEF IInv, TypeOK
  <1>2. cache[c].at \in Nat /\ cache[c].at <= dropped[x] /\ now < cache[c].at + MaxAge
    BY DEF IInv, TypeOK, Dropped, Fresh, Jwks
  <1>3. QED
    BY <1>1, <1>2, TimeAssumption

LEMMA SpecIInv == Spec => []IInv
  BY InitIInv, NextIInv, PTL DEF Spec

-----------------------------------------------------------------------------
\* Type correctness: whatever a rotation does, no process runs with a PEM it
\* could not import or without a key to sign with.
THEOREM SigningKeysTypeCorrect == Spec => []TypeOK
  <1>1. IInv => TypeOK
    BY DEF IInv
  <1>2. QED
    BY <1>1, SpecIInv, PTL

\* ID tokens verify until they expire, for any waits that cover the lifetimes of
\* tokens and JWKS, any slots, replicas and relying parties.
THEOREM IdTokensAlwaysVerify == Spec => []IdTokensVerify
  BY TokensFromIInv, SpecIInv, PTL

\* A key that every process restarted without is in no fresh JWKS a max-age later.
THEOREM DroppedKeysDie == Spec => []DroppedKeyDies
  BY DropFromIInv, SpecIInv, PTL
=============================================================================
