-------------------------- MODULE MasterKeysProofs --------------------------
(***************************************************************************)
(* Proofs about MasterKeys, for any processes, apps, versions, key bytes   *)
(* and number of calls: types, how long removed bytes live, and that a     *)
(* careful retirement strands no app.                                      *)
(***************************************************************************)
EXTENDS MasterKeys, TLAPS

-----------------------------------------------------------------------------
(* Types. *)

\* The active version is one of the table's active rows.
LEMMA ActiveIsActive ==
    ASSUME NEW rows \in [Versions -> {"none", "active", "retired"}]
    PROVE  /\ ActiveVersion(rows) \in Versions \cup {None}
           /\ ActiveVersion(rows) # None => rows[ActiveVersion(rows)] = "active"
<1> DEFINE top == Highest({v \in Versions : rows[v] = "active"})
<1>1. top \subseteq {v \in Versions : rows[v] = "active"}
  BY DEF Highest
<1>2. CASE top = {}
  BY <1>2 DEF ActiveVersion
<1>3. CASE top # {}
  <2>1. PICK v : v \in top
    BY <1>3
  <2>2. ActiveVersion(rows) \in top
    BY <1>3, <2>1 DEF ActiveVersion
  <2> QED BY <1>1, <2>2
<1> QED BY <1>2, <1>3

\* A process starts with its type, nothing cached and no client.
LEMMA StartedType ==
    ASSUME TypeOK, NEW i \in Instances
    PROVE  /\ Started(i) \in Process
           /\ \A v \in Versions : Started(i).cache[v] = None
           /\ Started(i).env \in [Versions -> Bytes \cup {None}]
           /\ \A v \in Versions : Started(i).env[v] \in {None, content[v]}
           /\ Started(i).active \in Versions \cup {None}
           /\ Started(i).active # None => table[Started(i).active] = "active"
  BY ActiveIsActive DEF Started, Process, TypeOK

\* What a provider yields is nothing, or bytes.
LEMMA ProvidedType ==
    ASSUME TypeOK, NEW i \in Instances, NEW v \in Versions
    PROVE  Provided(i, v) \in Bytes \cup {None}
  BY KindAssumption DEF TypeOK, Provided, ReadsFiles, ReadFile, ReadEnv, ReadWorkersEnv, Process

\* A call that has asked is dropped, or has its bytes and the time it asked.
LEMMA AskingType ==
    ASSUME TypeOK, NEW q \in Call, q.version # None,
           q.purpose = "connect" => q.columns # None
    PROVE  \/ Asking(q) = None
           \/ /\ Asking(q) \in Call
              /\ Equipped(Asking(q))
              /\ Asking(q).pc \in {"set", "use"}
              /\ Asking(q).t = now
              /\ Asking(q).bytes # None
              /\ Asking(q).purpose = q.purpose
              /\ Asking(q).inst = q.inst
              /\ Asking(q).app = q.app
              /\ Asking(q).version = q.version
              /\ Asking(q).columns = q.columns
<1> DEFINE i == q.inst  v == q.version
<1>1. i \in Instances /\ v \in Versions /\ now \in Nat
  BY TimeAssumption DEF Call, TypeOK, Times
<1>2. CASE Hit(i, v)
  <2>1. proc[i].cache[v] \in Entry
    BY <1>1, <1>2 DEF Hit, TypeOK, Process
  <2> DEFINE b == proc[i].cache[v].bytes
  <2>2. b \in Bytes /\ b # None
    BY <2>1, NoneAssumption DEF Entry
  <2>3. Asking(q) = [q EXCEPT !.pc = "use", !.t = now, !.bytes = b]
    BY <1>2 DEF Asking
  <2> HIDE DEF b
  <2> QED BY <1>1, <2>2, <2>3 DEF Call, Equipped
<1>3. CASE ~Hit(i, v) /\ Provided(i, v) = None
  BY <1>3 DEF Asking
<1>4. CASE ~Hit(i, v) /\ Provided(i, v) # None
  <2> DEFINE b == Provided(i, v)
             p == IF Server(i) THEN "set" ELSE "use"
  <2>1. b \in Bytes /\ b # None /\ p \in {"set", "use"} /\ (p = "set" => Server(i))
    BY <1>1, <1>4, ProvidedType
  <2>2. Asking(q) = [q EXCEPT !.pc = p, !.t = now, !.bytes = b]
    BY <1>4 DEF Asking
  <2> HIDE DEF b, p
  <2> QED BY <1>1, <2>1, <2>2 DEF Call, Equipped
<1> QED BY <1>2, <1>3, <1>4

LEMMA AskingSlot ==
    ASSUME TypeOK, NEW q \in Call, q.version # None,
           q.purpose = "connect" => q.columns # None
    PROVE  Asking(q) \in Call \cup {None} /\ (Asking(q) # None => Equipped(Asking(q)))
  BY AskingType

\* A request is a call that has asked for nothing yet.
LEMMA RequestType ==
    ASSUME NEW purpose \in {"create", "connect", "open"}, NEW i \in Instances,
           NEW a \in Apps, NEW v \in Versions \cup {None}
    PROVE  /\ Request(purpose, i, a, v) \in Call
           /\ Request(purpose, i, a, v).purpose = purpose
           /\ Request(purpose, i, a, v).inst = i
           /\ Request(purpose, i, a, v).app = a
           /\ Request(purpose, i, a, v).version = v
           /\ Request(purpose, i, a, v).pc = "row"
  BY DEF Request, Call

\* A call that is put in a slot keeps the table of calls typed.
LEMMA SlotType ==
    ASSUME TypeOK, NEW c \in Calls, NEW q \in Call \cup {None},
           q # None => Equipped(q),
           call' = [call EXCEPT ![c] = q]
    PROVE  /\ call' \in [Calls -> Call \cup {None}]
           /\ \A d \in Calls : Live(d)' => Equipped(call[d])'
<1>1. call' \in [Calls -> Call \cup {None}]
  BY DEF TypeOK
<1>2. ASSUME NEW d \in Calls, Live(d)'
      PROVE  Equipped(call[d])'
  <2>1. CASE d = c
    BY <2>1, <1>2 DEF TypeOK, Live, Equipped, Server
  <2>2. CASE d # c
    BY <2>2, <1>2 DEF TypeOK, Live, Equipped, Server
  <2> QED BY <2>1, <2>2
<1> QED BY <1>1, <1>2

LEMMA InitTyped == Init => TypeOK
<1> SUFFICES ASSUME Init PROVE TypeOK
  OBVIOUS
<1>1. table \in [Versions -> {"none", "active", "retired"}]
  BY FirstAssumption DEF Init
<1>2. content \in [Versions -> Bytes \cup {None}]
  BY FirstAssumption DEF Init
<1>3. \A i \in Instances : Started(i) \in Process
  BY <1>1, <1>2, ActiveIsActive DEF Started, Process
<1>4. proc \in [Instances -> Process]
  BY <1>3 DEF Init
<1>5. \A c \in Calls : ~Live(c)
  BY DEF Init, Live
<1> QED BY <1>1, <1>2, <1>4, <1>5, TimeAssumption DEF Init, TypeOK, Times

\* Steps of calls: nothing but the slot, a cache, a client set, an app's row.
LEMMA CallStepTyped ==
    ASSUME TypeOK, NEW c \in Calls, NEW i \in Instances, NEW a \in Apps, NEW v \in Versions,
           \/ BeginCreate(c, i, a) \/ BeginCreateOffline(c, i, a, v)
           \/ BeginOpen(c, i, a, v) \/ BeginConnect(c, i, a)
    PROVE  TypeOK'
<1>1. PICK q \in Call \cup {None} : /\ q # None => Equipped(q)
                                    /\ call' = [call EXCEPT ![c] = q]
  <2>1. CASE BeginCreate(c, i, a)
    <3>1. proc[i].active \in Versions
      BY <2>1 DEF BeginCreate, TypeOK, Process
    <3>2. Request("create", i, a, proc[i].active) \in Call
      BY <3>1, RequestType
    <3> DEFINE q == Asking(Request("create", i, a, proc[i].active))
    <3>3. call' = [call EXCEPT ![c] = q]
      BY <2>1 DEF BeginCreate
    <3>4. q \in Call \cup {None} /\ (q # None => Equipped(q))
      BY <3>1, <3>2, RequestType, AskingSlot, NoneAssumption
    <3> HIDE DEF q
    <3> QED BY <3>3, <3>4
  <2>2. CASE BeginCreateOffline(c, i, a, v)
    <3>1. Request("create", i, a, v) \in Call
      BY RequestType
    <3> DEFINE q == Asking(Request("create", i, a, v))
    <3>2. call' = [call EXCEPT ![c] = q]
      BY <2>2 DEF BeginCreateOffline
    <3>3. q \in Call \cup {None} /\ (q # None => Equipped(q))
      BY <3>1, RequestType, AskingSlot, NoneAssumption
    <3> HIDE DEF q
    <3> QED BY <3>2, <3>3
  <2>3. CASE BeginOpen(c, i, a, v)
    <3>1. Request("open", i, a, v) \in Call
      BY RequestType
    <3> DEFINE q == Asking(Request("open", i, a, v))
    <3>2. call' = [call EXCEPT ![c] = q]
      BY <2>3 DEF BeginOpen
    <3>3. q \in Call \cup {None} /\ (q # None => Equipped(q))
      BY <3>1, RequestType, AskingSlot, NoneAssumption
    <3> HIDE DEF q
    <3> QED BY <3>2, <3>3
  <2>4. CASE BeginConnect(c, i, a)
    <3>1. Equipped(Request("connect", i, a, None))
      BY DEF Equipped, Request
    <3>2. call' = [call EXCEPT ![c] = Request("connect", i, a, None)]
      BY <2>4 DEF BeginConnect
    <3> QED BY <3>1, <3>2, RequestType
  <2> QED BY <2>1, <2>2, <2>3, <2>4
<1>2. UNCHANGED <<now, content, goneAt, removal, table, upToDate, apps, proc>>
  BY DEF BeginCreate, BeginCreateOffline, BeginOpen, BeginConnect
<1>3. /\ call' \in [Calls -> Call \cup {None}]
      /\ \A d \in Calls : Live(d)' => Equipped(call[d])'
  BY <1>1, SlotType
<1> QED BY <1>2, <1>3 DEF TypeOK

LEMMA FetchTyped == ASSUME TypeOK, NEW c \in Calls, ReadRow(c) \/ AskForRow(c) PROVE TypeOK'
<1>1. PICK q \in Call \cup {None} : /\ q # None => Equipped(q)
                                    /\ call' = [call EXCEPT ![c] = q]
  <2>1. CASE ReadRow(c)
    <3>1. call[c] \in Call /\ Equipped(call[c]) /\ call[c].pc = "row"
      BY <2>1 DEF ReadRow, At, Live, TypeOK
    <3>2. CASE apps[call[c].app] = None
      BY <2>1, <3>2 DEF ReadRow, Finish
    <3>3. CASE apps[call[c].app] # None
      <4> DEFINE row == apps[call[c].app]
                 q == [call[c] EXCEPT !.pc = "key", !.version = row.version,
                                      !.columns = row.columns]
      <4>1. row \in AppRow
        BY <3>1, <3>3 DEF TypeOK, Call
      <4>2. row.version \in Versions /\ row.columns \in Column
        BY <4>1 DEF AppRow
      <4>3. q \in Call /\ Equipped(q)
        BY <3>1, <4>2, NoneAssumption DEF Call, Equipped
      <4>4. call' = [call EXCEPT ![c] = q]
        BY <2>1, <3>3 DEF ReadRow
      <4> QED BY <4>3, <4>4
    <3> QED BY <3>2, <3>3
  <2>2. CASE AskForRow(c)
    <3>1. call[c] \in Call /\ Equipped(call[c]) /\ call[c].pc = "key"
      BY <2>2 DEF AskForRow, At, Live, TypeOK
    <3>2. call[c].version # None /\ call[c].columns # None
      BY <3>1 DEF Equipped
    <3> QED BY <2>2, <3>1, <3>2, AskingSlot, NoneAssumption DEF AskForRow
  <2> QED BY <2>1, <2>2
<1>2. UNCHANGED <<now, content, goneAt, removal, table, upToDate, apps, proc>>
  BY DEF ReadRow, AskForRow
<1>3. /\ call' \in [Calls -> Call \cup {None}]
      /\ \A d \in Calls : Live(d)' => Equipped(call[d])'
  BY <1>1, SlotType
<1> QED BY <1>2, <1>3 DEF TypeOK

LEMMA CacheKeyTyped == ASSUME TypeOK, NEW c \in Calls, CacheKey(c) PROVE TypeOK'
<1>1. call[c] \in Call /\ Equipped(call[c]) /\ call[c].pc = "set"
  BY DEF CacheKey, At, Live, TypeOK
<1> DEFINE q == [call[c] EXCEPT !.pc = "use"]
<1>2. q \in Call /\ Equipped(q)
  BY <1>1 DEF Call, Equipped
<1>3. /\ call' \in [Calls -> Call \cup {None}]
      /\ \A d \in Calls : Live(d)' => Equipped(call[d])'
  <2>1. call' = [call EXCEPT ![c] = q]
    BY DEF CacheKey
  <2> HIDE DEF q
  <2> QED BY <1>2, <2>1, SlotType
<1>4. EntryOf(c) \in Entry
  BY <1>1, TimeAssumption DEF EntryOf, Entry, Call, Equipped
<1>5. proc' \in [Instances -> Process]
  <2> DEFINE i == call[c].inst
             v == call[c].version
             p == [proc[i] EXCEPT !.cache = [proc[i].cache EXCEPT ![v] = EntryOf(c)]]
  <2>1. i \in Instances /\ v \in Versions /\ proc[i] \in Process
    BY <1>1 DEF Call, Equipped, TypeOK
  <2>2. p \in Process
    BY <1>4, <2>1 DEF Process
  <2>3. proc' = [proc EXCEPT ![i] = p]
    BY <2>1 DEF CacheKey
  <2> HIDE DEF p
  <2> QED BY <2>1, <2>2, <2>3 DEF TypeOK
<1> QED BY <1>3, <1>5 DEF CacheKey, TypeOK

LEMMA UseTyped ==
    ASSUME TypeOK, NEW c \in Calls, CreateApp(c) \/ Connect(c) \/ Leave(c)
    PROVE  TypeOK'
<1>1. call[c] \in Call /\ Equipped(call[c]) /\ call[c].pc = "use"
  BY DEF CreateApp, Connect, Leave, At, Live, TypeOK
<1>2. /\ call' \in [Calls -> Call \cup {None}]
      /\ \A d \in Calls : Live(d)' => Equipped(call[d])'
  <2>1. call' = [call EXCEPT ![c] = None]
    BY DEF CreateApp, Connect, Leave, Finish
  <2> QED BY <2>1, SlotType
<1>3. apps' \in [Apps -> AppRow \cup {None}]
  <2> DEFINE row == [version |-> call[c].version, migrated |-> FALSE,
                     columns |-> EncryptColumn(CallKey(c), call[c].app)]
  <2>1. CASE CreateApp(c)
    <3>1. row \in AppRow
      BY <1>1 DEF AppRow, Column, SealingKey, EncryptColumn, CallKey, DeriveSealingKey, Call,
                  Equipped
    <3>2. apps' = [apps EXCEPT ![call[c].app] = row]
      BY <2>1 DEF CreateApp
    <3> HIDE DEF row
    <3> QED BY <1>1, <3>1, <3>2 DEF TypeOK
  <2>2. CASE Connect(c) \/ Leave(c)
    BY <2>2 DEF Connect, Leave, TypeOK
  <2> QED BY <2>1, <2>2
<1>4. proc' \in [Instances -> Process]
  <2>1. CASE Connect(c)
    <3> DEFINE i == call[c].inst
               p == [proc[i] EXCEPT !.clients = @ \cup {call[c].app}]
    <3>1. i \in Instances /\ proc[i] \in Process /\ call[c].app \in Apps
      BY <1>1 DEF Call, TypeOK
    <3>2. p \in Process
      BY <3>1 DEF Process
    <3>3. proc' = proc \/ proc' = [proc EXCEPT ![i] = p]
      BY <2>1, <3>1 DEF Connect
    <3> HIDE DEF p
    <3> QED BY <3>1, <3>2, <3>3 DEF TypeOK
  <2>2. CASE CreateApp(c) \/ Leave(c)
    BY <2>2 DEF CreateApp, Leave, TypeOK
  <2> QED BY <2>1, <2>2
<1> QED BY <1>2, <1>3, <1>4 DEF CreateApp, Connect, Leave, TypeOK

LEMMA KeyStepTyped ==
    ASSUME TypeOK, NEW v \in Versions, NEW b \in Bytes,
           PutKey(v, b) \/ AddMasterKey(v) \/ RetireMasterKey(v) \/ RemoveKey(v)
    PROVE  TypeOK'
<1>1. (\A d \in Calls : Live(d)' => Equipped(call[d])') /\ call' = call /\ proc' = proc
  BY DEF TypeOK, PutKey, AddMasterKey, RetireMasterKey, RemoveKey, Live, Equipped, Server
<1>2. CASE PutKey(v, b)
  BY <1>1, <1>2 DEF PutKey, TypeOK
<1>3. CASE AddMasterKey(v) \/ RetireMasterKey(v)
  BY <1>1, <1>3 DEF AddMasterKey, RetireMasterKey, TypeOK
<1>4. CASE RemoveKey(v)
  BY <1>1, <1>4 DEF RemoveKey, TypeOK
<1> QED BY <1>2, <1>3, <1>4

LEMMA RowStepTyped ==
    ASSUME TypeOK, NEW a \in Apps, NEW v \in Versions, MigrateRow(a, v) \/ DeleteApp(a)
    PROVE  TypeOK'
<1>1. (\A d \in Calls : Live(d)' => Equipped(call[d])') /\ call' = call /\ proc' = proc
  BY DEF TypeOK, MigrateRow, DeleteApp, Live, Equipped, Server
<1>2. CASE MigrateRow(a, v)
  <2> DEFINE row == [apps[a] EXCEPT !.version = v, !.migrated = TRUE]
  <2>1. apps[a] \in AppRow
    BY <1>2 DEF MigrateRow, TypeOK
  <2>2. row \in AppRow
    BY <2>1 DEF AppRow
  <2>3. apps' = [apps EXCEPT ![a] = row]
    BY <1>2 DEF MigrateRow
  <2> HIDE DEF row
  <2>4. apps' \in [Apps -> AppRow \cup {None}]
    BY <2>2, <2>3 DEF TypeOK
  <2> QED BY <1>1, <1>2, <2>4 DEF MigrateRow, TypeOK
<1>3. CASE DeleteApp(a)
  BY <1>1, <1>3 DEF DeleteApp, TypeOK
<1> QED BY <1>2, <1>3

LEMMA TickTyped == ASSUME TypeOK, Tick PROVE TypeOK'
  BY TimeAssumption DEF Tick, TypeOK, Times, Live, Equipped, Server

LEMMA RestartTyped == ASSUME TypeOK, NEW i \in Instances, Restart(i) PROVE TypeOK'
<1>1. proc' \in [Instances -> Process]
  BY StartedType DEF Restart, TypeOK
<1>2. upToDate' \in [Versions -> SUBSET Instances]
  BY DEF Restart, TypeOK
<1>3. call' \in [Calls -> Call \cup {None}]
  BY DEF Restart, TypeOK
<1>4. ASSUME NEW d \in Calls, Live(d)' PROVE Equipped(call[d])'
  BY <1>4 DEF Restart, TypeOK, Live, Equipped, Server
<1> QED BY <1>1, <1>2, <1>3, <1>4 DEF Restart, TypeOK

LEMMA NextTyped == ASSUME TypeOK, [Next]_vars PROVE TypeOK'
<1>1. CASE UNCHANGED vars
  BY <1>1 DEF vars, TypeOK, Live, Equipped, Server
<1>2. CASE Next
  <2>1. CASE \E c \in Calls, i \in Instances, a \in Apps :
                BeginCreate(c, i, a) \/ BeginConnect(c, i, a)
    BY <2>1, FirstAssumption, CallStepTyped
  <2>2. CASE \E c \in Calls, i \in Instances, a \in Apps, v \in Versions :
                BeginCreateOffline(c, i, a, v) \/ BeginOpen(c, i, a, v)
    BY <2>2, CallStepTyped
  <2>3. CASE \E c \in Calls : ReadRow(c) \/ AskForRow(c)
    BY <2>3, FetchTyped
  <2>4. CASE \E c \in Calls : CacheKey(c) \/ CreateApp(c) \/ Connect(c) \/ Leave(c)
    BY <2>4, CacheKeyTyped, UseTyped
  <2>5. CASE \/ \E v \in Versions, b \in Bytes : PutKey(v, b)
             \/ \E v \in Versions : AddMasterKey(v) \/ RetireMasterKey(v) \/ RemoveKey(v)
    BY <2>5, FirstAssumption, KeyStepTyped
  <2>6. CASE \/ \E a \in Apps, v \in Versions : MigrateRow(a, v)
             \/ \E a \in Apps : DeleteApp(a)
    BY <2>6, FirstAssumption, RowStepTyped
  <2>7. CASE (\E i \in Instances : Restart(i)) \/ Tick
    BY <2>7, RestartTyped, TickTyped
  <2> QED BY <1>2, <2>1, <2>2, <2>3, <2>4, <2>5, <2>6, <2>7 DEF Next
<1> QED BY <1>1, <1>2

\* Every variable keeps its type, and no call goes on without its key, for any
\* providers, versions and processes (getKeyBytes and what awaits it).
THEOREM MasterKeysTypeCorrect == Spec => []TypeOK
BY InitTyped, NextTyped, PTL DEF Spec

-----------------------------------------------------------------------------
(* How long removed bytes live. *)

\* The instant bytes went away is not before the instant they were fetched at.
GoneSince(b, at) == goneAt[b] # None => goneAt[b] >= at

\* Bytes in place are in one place and not gone; an entry expires Ttl after the
\* start of a fetch that saw its bytes; so does what a call still has to store.
FreshInv ==
    /\ \A v \in Versions : content[v] # None => goneAt[content[v]] = None
    /\ \A v, w \in Versions : content[v] # None /\ content[v] = content[w] => v = w
    /\ \A i \in Instances, v \in Versions :
          ReadsFiles(i) /\ proc[i].cache[v] # None
            => /\ GoneSince(proc[i].cache[v].bytes, proc[i].cache[v].expiresAt - Ttl)
               /\ proc[i].cache[v].expiresAt <= now + Ttl
    /\ \A c \in Calls :
          Live(c) /\ call[c].pc \in {"set", "use"} /\ ReadsFiles(call[c].inst)
            => /\ call[c].t <= now
               /\ call[c].pc = "set" => GoneSince(call[c].bytes, call[c].t)
               /\ GoneSince(call[c].bytes, call[c].t - Ttl + 1)

LEMMA FreshInit == Init => FreshInv
  BY NoneAssumption, FirstAssumption DEF Init, FreshInv, GoneSince, Live, Started

LEMMA FreshIsEnough == TypeOK /\ FreshInv => RemovedKeyDies
<1> SUFFICES ASSUME TypeOK, FreshInv, NEW c \in Calls,
                    InUse(c), ReadsFiles(call[c].inst), goneAt[call[c].bytes] # None
             PROVE  goneAt[call[c].bytes] > call[c].t - Ttl
  BY DEF RemovedKeyDies
<1>1. call[c] \in Call /\ Equipped(call[c]) /\ call[c].pc = "use" /\ Live(c)
  BY DEF InUse, At, Live, TypeOK
<1>2. goneAt[call[c].bytes] >= call[c].t - Ttl + 1
  BY <1>1 DEF FreshInv, GoneSince
<1>3. goneAt[call[c].bytes] \in Int /\ call[c].t \in Int /\ Ttl \in Int
  BY <1>1, TimeAssumption DEF TypeOK, Call, Equipped, Times
<1> QED BY <1>2, <1>3

\* What a call on key files gets is fresh.
LEMMA AskingFresh ==
    ASSUME TypeOK, FreshInv, NEW q \in Call, q.version # None,
           q.purpose = "connect" => q.columns # None,
           ReadsFiles(q.inst), Asking(q) # None
    PROVE  /\ Asking(q).t = now
           /\ Asking(q).pc = "set" => GoneSince(Asking(q).bytes, now)
           /\ GoneSince(Asking(q).bytes, now - Ttl + 1)
<1> DEFINE i == q.inst  v == q.version
<1>1. i \in Instances /\ v \in Versions /\ now \in Nat /\ Ttl \in Nat \ {0}
  BY TimeAssumption DEF Call, TypeOK, Times
<1>2. CASE Hit(i, v)
  <2>1. proc[i].cache[v] \in Entry /\ proc[i].cache[v] # None
    BY <1>1, <1>2 DEF Hit, TypeOK, Process
  <2> DEFINE e == proc[i].cache[v]
  <2>2. e.expiresAt > now /\ GoneSince(e.bytes, e.expiresAt - Ttl)
    BY <1>1, <1>2, <2>1 DEF Hit, FreshInv
  <2>3. GoneSince(e.bytes, now - Ttl + 1)
    BY <1>1, <2>1, <2>2 DEF GoneSince, TypeOK, Times, Entry
  <2>4. Asking(q).bytes = e.bytes /\ Asking(q).t = now /\ Asking(q).pc = "use"
    <3>1. Asking(q) = [q EXCEPT !.pc = "use", !.t = now, !.bytes = e.bytes]
      BY <1>2 DEF Asking
    <3> QED BY <3>1 DEF Call
  <2> QED BY <2>3, <2>4
<1>3. CASE ~Hit(i, v)
  <2> DEFINE p == IF Server(i) THEN "set" ELSE "use"
  <2>0. Provided(i, v) = content[v]
    BY DEF Provided, ReadFile, ReadsFiles
  <2>1. Provided(i, v) = content[v] /\ content[v] # None
    BY <1>3, <2>0 DEF Asking
  <2>2. Asking(q) = [q EXCEPT !.pc = p, !.t = now, !.bytes = content[v]]
    BY <1>3, <2>1 DEF Asking
  <2>3. Asking(q).bytes = content[v] /\ Asking(q).t = now
    BY <2>2 DEF Call
  <2>4. goneAt[content[v]] = None
    BY <1>1, <2>1 DEF FreshInv
  <2> QED BY <2>3, <2>4 DEF GoneSince
<1> QED BY <1>2, <1>3

\* The part of FreshInv that is about one call.
FreshCall(c) ==
    Live(c) /\ call[c].pc \in {"set", "use"} /\ ReadsFiles(call[c].inst)
      => /\ call[c].t <= now
         /\ call[c].pc = "set" => GoneSince(call[c].bytes, call[c].t)
         /\ GoneSince(call[c].bytes, call[c].t - Ttl + 1)

\* The part that is about what processes remember.
FreshMemory ==
    /\ \A v \in Versions : content[v] # None => goneAt[content[v]] = None
    /\ \A v, w \in Versions : content[v] # None /\ content[v] = content[w] => v = w
    /\ \A i \in Instances, v \in Versions :
          ReadsFiles(i) /\ proc[i].cache[v] # None
            => /\ GoneSince(proc[i].cache[v].bytes, proc[i].cache[v].expiresAt - Ttl)
               /\ proc[i].cache[v].expiresAt <= now + Ttl

LEMMA FreshParts == FreshInv <=> FreshMemory /\ \A c \in Calls : FreshCall(c)
  BY DEF FreshInv, FreshMemory, FreshCall

\* A step that puts a fresh call, or none, in a slot.
LEMMA FreshSlot ==
    ASSUME TypeOK, FreshInv, NEW c \in Calls, NEW q,
           call' = [call EXCEPT ![c] = q],
           UNCHANGED <<now, goneAt, content, proc>>,
           q # None /\ q.pc \in {"set", "use"} /\ ReadsFiles(q.inst)
             => /\ q.t <= now
                /\ q.pc = "set" => GoneSince(q.bytes, q.t)
                /\ GoneSince(q.bytes, q.t - Ttl + 1)
    PROVE  FreshInv'
<1>1. FreshMemory'
  BY FreshParts DEF FreshMemory, GoneSince
<1>2. ASSUME NEW d \in Calls PROVE FreshCall(d)'
  <2>1. CASE d = c
    BY <2>1 DEF FreshCall, TypeOK, Live, GoneSince, ReadsFiles
  <2>2. CASE d # c
    BY <2>2, FreshParts DEF FreshCall, TypeOK, Live, GoneSince, ReadsFiles
  <2> QED BY <2>1, <2>2
<1> QED BY <1>1, <1>2, FreshParts DEF FreshInv, FreshMemory, FreshCall

LEMMA AskingStepFresh ==
    ASSUME TypeOK, FreshInv, NEW c \in Calls, NEW q \in Call, q.version # None,
           q.purpose = "connect" => q.columns # None,
           call' = [call EXCEPT ![c] = Asking(q)],
           UNCHANGED <<now, goneAt, content, proc>>
    PROVE  FreshInv'
<1> DEFINE r == Asking(q)
<1>1. r # None /\ r.pc \in {"set", "use"} /\ ReadsFiles(r.inst)
        => /\ r.t <= now
           /\ r.pc = "set" => GoneSince(r.bytes, r.t)
           /\ GoneSince(r.bytes, r.t - Ttl + 1)
  <2>1. now \in Nat
    BY TimeAssumption DEF TypeOK, Times
  <2> QED BY <2>1, AskingType, AskingFresh
<1>2. call' = [call EXCEPT ![c] = r]
  OBVIOUS
<1> HIDE DEF r
<1> QED BY <1>1, <1>2, FreshSlot

LEMMA FreshCallStep ==
    ASSUME TypeOK, FreshInv, NEW c \in Calls,
           \/ \E i \in Instances, a \in Apps : BeginCreate(c, i, a) \/ BeginConnect(c, i, a)
           \/ \E i \in Instances, a \in Apps, v \in Versions :
                BeginCreateOffline(c, i, a, v) \/ BeginOpen(c, i, a, v)
           \/ ReadRow(c) \/ AskForRow(c)
    PROVE  FreshInv'
<1>1. ASSUME NEW i \in Instances, NEW a \in Apps, BeginCreate(c, i, a) PROVE FreshInv'
  <2>1. proc[i].active \in Versions
    BY <1>1 DEF BeginCreate, TypeOK, Process
  <2> DEFINE q == Request("create", i, a, proc[i].active)
  <2>2. /\ q \in Call /\ q.version # None /\ q.purpose # "connect"
        /\ call' = [call EXCEPT ![c] = Asking(q)]
        /\ UNCHANGED <<now, goneAt, content, proc>>
    BY <1>1, <2>1, RequestType, NoneAssumption DEF BeginCreate
  <2> HIDE DEF q
  <2> QED BY <2>2, AskingStepFresh
<1>2. ASSUME NEW i \in Instances, NEW a \in Apps, NEW v \in Versions,
             BeginCreateOffline(c, i, a, v) \/ BeginOpen(c, i, a, v)
      PROVE  FreshInv'
  <2>1. PICK pu \in {"create", "open"} : call' = [call EXCEPT ![c] = Asking(Request(pu, i, a, v))]
    BY <1>2 DEF BeginCreateOffline, BeginOpen
  <2> DEFINE q == Request(pu, i, a, v)
  <2>2. /\ q \in Call /\ q.version # None /\ q.purpose # "connect"
        /\ call' = [call EXCEPT ![c] = Asking(q)]
        /\ UNCHANGED <<now, goneAt, content, proc>>
    BY <1>2, <2>1, RequestType, NoneAssumption DEF BeginCreateOffline, BeginOpen
  <2> HIDE DEF q
  <2> QED BY <2>2, AskingStepFresh
<1>3. ASSUME NEW i \in Instances, NEW a \in Apps, BeginConnect(c, i, a) PROVE FreshInv'
  <2> DEFINE q == Request("connect", i, a, None)
  <2>1. call' = [call EXCEPT ![c] = q] /\ q.pc = "row"
    BY <1>3, RequestType DEF BeginConnect
  <2> HIDE DEF q
  <2> QED BY <1>3, <2>1, FreshSlot DEF BeginConnect
<1>4. CASE ReadRow(c)
  <2>1. PICK q : call' = [call EXCEPT ![c] = q] /\ (q = None \/ q.pc = "key")
    <3>1. call[c] \in Call
      BY <1>4 DEF ReadRow, At, Live, TypeOK
    <3> QED BY <1>4, <3>1 DEF ReadRow, Finish, Call
  <2> QED BY <1>4, <2>1, FreshSlot DEF ReadRow
<1>5. CASE AskForRow(c)
  <2>1. call[c] \in Call /\ call[c].version # None
        /\ (call[c].purpose = "connect" => call[c].columns # None)
    BY <1>5 DEF AskForRow, At, Live, TypeOK, Equipped
  <2> QED BY <1>5, <2>1, AskingStepFresh DEF AskForRow
<1> QED BY <1>1, <1>2, <1>3, <1>4, <1>5

LEMMA FreshCacheKey == ASSUME TypeOK, FreshInv, NEW c \in Calls, CacheKey(c) PROVE FreshInv'
<1> DEFINE i == call[c].inst  v == call[c].version
<1>1. call[c] \in Call /\ Equipped(call[c]) /\ call[c].pc = "set" /\ Live(c)
  BY DEF CacheKey, At, Live, TypeOK
<1>2. i \in Instances /\ v \in Versions /\ call[c].bytes \in Bytes /\ call[c].t \in Nat
      /\ now \in Nat /\ Ttl \in Nat \ {0}
  BY <1>1, TimeAssumption DEF Call, Equipped, TypeOK, Times
<1>3. ReadsFiles(i) => call[c].t <= now /\ GoneSince(call[c].bytes, call[c].t)
  BY <1>1 DEF FreshInv
<1>4. FreshMemory'
  <2>1. ASSUME NEW j \in Instances, NEW w \in Versions, ReadsFiles(j),
               proc'[j].cache[w] # None
        PROVE  /\ GoneSince(proc'[j].cache[w].bytes, proc'[j].cache[w].expiresAt - Ttl)
               /\ proc'[j].cache[w].expiresAt <= now + Ttl
    <3>1. CASE j = i /\ w = v
      <4>1. proc'[j].cache[w] = EntryOf(c)
        BY <1>2, <3>1 DEF CacheKey, TypeOK, Process
      <4>2. call[c].t + Ttl - Ttl = call[c].t
        BY <1>2
      <4>3. EntryOf(c).bytes = call[c].bytes /\ EntryOf(c).expiresAt = call[c].t + Ttl
        BY DEF EntryOf
      <4>4. call[c].t + Ttl <= now + Ttl
        BY <1>2, <1>3, <2>1, <3>1
      <4> DEFINE e == proc'[j].cache[w]
      <4>5. e.bytes = call[c].bytes /\ e.expiresAt = call[c].t + Ttl
        BY <4>1, <4>3
      <4> HIDE DEF e
      <4>7. e.expiresAt - Ttl = call[c].t /\ e.expiresAt <= now + Ttl
        BY <1>2, <1>3, <2>1, <3>1, <4>5
      <4>6. GoneSince(call[c].bytes, call[c].t)
        BY <1>3, <2>1, <3>1
      <4> HIDE DEF i, v
      <4> QED BY <4>5, <4>6, <4>7 DEF GoneSince, e
    <3>2. CASE ~(j = i /\ w = v)
      <4>1. proc'[j].cache[w] = proc[j].cache[w]
        BY <1>2, <3>2 DEF CacheKey, TypeOK, Process
      <4> QED BY <2>1, <4>1 DEF FreshInv
    <3> QED BY <3>1, <3>2
  <2> QED BY <2>1, FreshParts DEF FreshMemory, CacheKey, GoneSince, ReadsFiles
<1>5. ASSUME NEW d \in Calls PROVE FreshCall(d)'
  <2>1. CASE d = c
    <3>1. call'[c] = [call[c] EXCEPT !.pc = "use"]
      BY <1>1 DEF CacheKey, TypeOK
    <3>2. call'[c].bytes = call[c].bytes /\ call'[c].t = call[c].t /\ call'[c].inst = i
          /\ call'[c].pc = "use"
      BY <1>1, <3>1 DEF Call
    <3>3. ReadsFiles(i) => GoneSince(call[c].bytes, call[c].t - Ttl + 1)
      BY <1>1 DEF FreshInv
    <3> QED BY <1>3, <2>1, <3>2, <3>3 DEF FreshCall, CacheKey, GoneSince, ReadsFiles
  <2>2. CASE d # c
    BY <2>2, FreshParts DEF FreshCall, TypeOK, Live, GoneSince, ReadsFiles, CacheKey
  <2> QED BY <2>1, <2>2
<1> QED BY <1>4, <1>5, FreshParts DEF FreshInv, FreshMemory, FreshCall

LEMMA FreshUse ==
    ASSUME TypeOK, FreshInv, NEW c \in Calls, CreateApp(c) \/ Connect(c) \/ Leave(c)
    PROVE  FreshInv'
<1>1. call[c] \in Call /\ call' = [call EXCEPT ![c] = None]
      /\ UNCHANGED <<now, content, goneAt>>
  BY DEF CreateApp, Connect, Leave, At, Live, Finish, TypeOK
<1>2. \A i \in Instances : proc'[i].cache = proc[i].cache
  BY <1>1 DEF CreateApp, Connect, Leave, TypeOK, Process, Call
<1>3. FreshMemory'
  BY <1>1, <1>2, FreshParts DEF FreshMemory, GoneSince
<1>4. ASSUME NEW d \in Calls PROVE FreshCall(d)'
  BY <1>1, FreshParts DEF FreshCall, TypeOK, Live, GoneSince, ReadsFiles
<1> QED BY <1>3, <1>4, FreshParts DEF FreshInv, FreshMemory, FreshCall

LEMMA FreshRemoveKey ==
    ASSUME TypeOK, FreshInv, NEW v \in Versions, RemoveKey(v) PROVE FreshInv'
<1>1. now \in Nat /\ Ttl \in Nat \ {0} /\ content[v] \in Bytes
  BY TimeAssumption DEF TypeOK, Times, RemoveKey
<1>2. \A b \in Bytes : goneAt'[b] = goneAt[b] \/ goneAt'[b] = now
  BY <1>1 DEF RemoveKey, TypeOK
<1>3. FreshMemory'
  <2>1. ASSUME NEW i \in Instances, NEW w \in Versions, ReadsFiles(i), proc[i].cache[w] # None
        PROVE  /\ GoneSince(proc[i].cache[w].bytes, proc[i].cache[w].expiresAt - Ttl)'
               /\ proc[i].cache[w].expiresAt <= now + Ttl
    <3>1. proc[i].cache[w] \in Entry
      BY <2>1 DEF TypeOK, Process
    <3>2. /\ GoneSince(proc[i].cache[w].bytes, proc[i].cache[w].expiresAt - Ttl)
          /\ proc[i].cache[w].expiresAt <= now + Ttl
      BY <2>1 DEF FreshInv
    <3>3. now >= proc[i].cache[w].expiresAt - Ttl
      BY <1>1, <3>1, <3>2 DEF Entry
    <3> QED BY <1>2, <2>1, <3>1, <3>2, <3>3 DEF GoneSince, Entry, RemoveKey
  <2>2. \A w \in Versions : content'[w] # None => goneAt'[content'[w]] = None
    BY <1>1 DEF FreshInv, RemoveKey, TypeOK
  <2>3. \A w, x \in Versions : content'[w] # None /\ content'[w] = content'[x] => w = x
    BY DEF FreshInv, RemoveKey, TypeOK
  <2> QED BY <2>1, <2>2, <2>3 DEF FreshMemory, RemoveKey, GoneSince, ReadsFiles
<1>4. ASSUME NEW d \in Calls PROVE FreshCall(d)'
  <2> SUFFICES ASSUME Live(d), call[d].pc \in {"set", "use"}, ReadsFiles(call[d].inst)
               PROVE  /\ call[d].t <= now
                      /\ call[d].pc = "set" => GoneSince(call[d].bytes, call[d].t)'
                      /\ GoneSince(call[d].bytes, call[d].t - Ttl + 1)'
    BY DEF FreshCall, RemoveKey, GoneSince, Live, ReadsFiles
  <2>1. call[d] \in Call /\ call[d].bytes \in Bytes /\ call[d].t \in Nat
    BY DEF Live, TypeOK, Call, Equipped
  <2>2. FreshCall(d) /\ call[d].t <= now
    BY FreshParts DEF FreshCall
  <2>3. now >= call[d].t /\ now >= call[d].t - Ttl + 1
    BY <1>1, <2>1, <2>2
  <2> QED BY <1>2, <2>1, <2>2, <2>3 DEF FreshCall, GoneSince, RemoveKey
<1> QED BY <1>3, <1>4, FreshParts DEF FreshInv, FreshMemory, FreshCall

LEMMA FreshPutKey ==
    ASSUME TypeOK, FreshInv, NEW v \in Versions, NEW b \in Bytes, PutKey(v, b) PROVE FreshInv'
<1>1. FreshMemory'
  <2>1. \A w \in Versions : content'[w] # None => goneAt'[content'[w]] = None
    BY DEF FreshInv, PutKey, TypeOK
  <2>2. \A w, x \in Versions : content'[w] # None /\ content'[w] = content'[x] => w = x
    BY DEF FreshInv, PutKey, TypeOK
  <2> QED BY <2>1, <2>2, FreshParts DEF FreshMemory, PutKey, GoneSince, ReadsFiles
<1>2. ASSUME NEW d \in Calls PROVE FreshCall(d)'
  BY FreshParts DEF FreshCall, PutKey, GoneSince, Live, ReadsFiles
<1> QED BY <1>1, <1>2, FreshParts DEF FreshInv, FreshMemory, FreshCall

LEMMA FreshRestart ==
    ASSUME TypeOK, FreshInv, NEW i \in Instances, Restart(i) PROVE FreshInv'
<1>1. \A j \in Instances : proc'[j] = IF j = i THEN Started(i) ELSE proc[j]
  BY DEF Restart, TypeOK
<1>2. \A j \in Instances, v \in Versions :
          proc'[j].cache[v] = None \/ proc'[j].cache[v] = proc[j].cache[v]
  BY <1>1, StartedType
<1>3. FreshMemory'
  BY <1>2, FreshParts DEF FreshMemory, Restart, GoneSince, ReadsFiles
<1>4. ASSUME NEW d \in Calls PROVE FreshCall(d)'
  BY FreshParts DEF FreshCall, Restart, GoneSince, Live, ReadsFiles, TypeOK
<1> QED BY <1>3, <1>4, FreshParts DEF FreshInv, FreshMemory, FreshCall

LEMMA FreshTick == ASSUME TypeOK, FreshInv, Tick PROVE FreshInv'
<1>1. now \in Nat /\ now' \in Nat /\ now <= now' /\ Ttl \in Nat
  BY TimeAssumption DEF Tick, TypeOK, Times
<1>2. FreshMemory'
  <2>1. ASSUME NEW i \in Instances, NEW v \in Versions, ReadsFiles(i), proc[i].cache[v] # None
        PROVE  proc[i].cache[v].expiresAt <= now' + Ttl
    <3>1. proc[i].cache[v] \in Entry
      BY <2>1 DEF TypeOK, Process
    <3> QED BY <1>1, <2>1, <3>1 DEF FreshInv, Entry
  <2> QED BY <2>1, FreshParts DEF FreshMemory, Tick, GoneSince, ReadsFiles
<1>3. ASSUME NEW d \in Calls PROVE FreshCall(d)'
  <2>1. Live(d) => call[d].t \in Nat
    BY DEF TypeOK, Live, Call
  <2> QED BY <1>1, <2>1, FreshParts DEF FreshCall, Tick, GoneSince, Live, ReadsFiles
<1> QED BY <1>2, <1>3, FreshParts DEF FreshInv, FreshMemory, FreshCall

LEMMA FreshNext == ASSUME TypeOK, FreshInv, [Next]_vars PROVE FreshInv'
<1>1. CASE /\ UNCHANGED <<now, content, goneAt, proc, call>>
  BY <1>1 DEF FreshInv, GoneSince, Live, ReadsFiles
<1>2. CASE Next
  <2>1. ASSUME NEW a \in Apps, NEW v \in Versions,
               MigrateRow(a, v) \/ DeleteApp(a) \/ AddMasterKey(v) \/ RetireMasterKey(v)
        PROVE  FreshInv'
    BY <1>1, <2>1 DEF MigrateRow, DeleteApp, AddMasterKey, RetireMasterKey
  <2>2. CASE \E v \in Versions : AddMasterKey(v) \/ RetireMasterKey(v)
    BY <1>1, <2>2 DEF AddMasterKey, RetireMasterKey
  <2>3. CASE \E a \in Apps : DeleteApp(a)
    BY <1>1, <2>3 DEF DeleteApp
  <2> QED BY <1>2, <2>1, <2>2, <2>3, FreshCallStep, FreshCacheKey, FreshUse, FreshRemoveKey,
             FreshPutKey, FreshRestart, FreshTick DEF Next
<1> QED BY <1>1, <1>2 DEF vars

\* However calls interleave on the cache, bytes that were removed Ttl ago are
\* given to no call of a process that reads key files (cache.ts, file-provider.ts).
THEOREM RemovedKeysDie == Spec => []RemovedKeyDies
<1>1. Init => TypeOK /\ FreshInv
  BY InitTyped, FreshInit
<1>2. TypeOK /\ FreshInv /\ [Next]_vars => (TypeOK /\ FreshInv)'
  BY NextTyped, FreshNext
<1>3. TypeOK /\ FreshInv => RemovedKeyDies
  BY FreshIsEnough
<1> QED BY <1>1, <1>2, <1>3, PTL DEF Spec

-----------------------------------------------------------------------------
(* No app is stranded. *)

Got(c) == Live(c) /\ call[c].pc \in {"set", "use"}

\* A version carefully removed was retired, and every server started since.
CarefulInv ==
    /\ \A v \in Versions : removal[v] = "careful"
          => table[v] = "retired" /\ \A i \in Instances : Server(i) => i \in upToDate[v]
    /\ \A i \in Instances, v \in Versions :
          i \in upToDate[v] => table[v] = "retired" /\ proc[i].active # v

\* Bytes of a version that was never removed are the same wherever they are held.
HeldInv ==
    \A i \in Instances, v \in Versions :
        /\ removal[v] = "never" /\ proc[i].cache[v] # None
             => proc[i].cache[v].bytes = content[v]
        /\ removal[v] = "never" /\ proc[i].env[v] # None => proc[i].env[v] = content[v]
        /\ ~Server(i) => proc[i].cache[v] = None

\* So are those of a call; a creation on a server uses the version of its start.
RightCall(c) ==
    Got(c) => LET q == call[c] IN
        /\ removal[q.version] = "never" => q.bytes = content[q.version]
        /\ q.purpose = "create" => Kind[q.inst] # "workers"
        /\ q.purpose = "create" /\ Server(q.inst) => q.version = proc[q.inst].active
        /\ Kind[q.inst] = "cli" /\ removal[q.version] = "careful" => q.bytes = content[q.version]

StrandInv ==
    /\ CarefulInv
    /\ HeldInv
    /\ \A c \in Calls : RightCall(c)
    /\ NoAppStranded

LEMMA StrandInit == Init => StrandInv
<1> SUFFICES ASSUME Init PROVE StrandInv
  OBVIOUS
<1>1. CarefulInv
  BY DEF Init, CarefulInv
<1>2. HeldInv
  BY DEF Init, HeldInv, Started
<1>3. \A c \in Calls : RightCall(c)
  BY DEF Init, RightCall, Got, Live
<1>4. NoAppStranded
  BY DEF Init, NoAppStranded
<1> QED BY <1>1, <1>2, <1>3, <1>4 DEF StrandInv

\* What a call is given is right.
LEMMA AskingRight ==
    ASSUME TypeOK, StrandInv, NEW q \in Call, q.version # None, Asking(q) # None
    PROVE  /\ removal[q.version] = "never" => Asking(q).bytes = content[q.version]
           /\ Kind[q.inst] = "cli" => Asking(q).bytes = content[q.version]
<1> DEFINE i == q.inst  v == q.version
<1>1. i \in Instances /\ v \in Versions
  BY DEF Call
<1>2. CASE Hit(i, v)
  <2>1. proc[i].cache[v] # None
    BY <1>2 DEF Hit
  <2>2. Asking(q) = [q EXCEPT !.pc = "use", !.t = now, !.bytes = proc[i].cache[v].bytes]
    BY <1>2 DEF Asking
  <2>3. Asking(q).bytes = proc[i].cache[v].bytes
    BY <2>2 DEF Call
  <2>4. Kind[i] # "cli"
    BY <1>1, <2>1 DEF StrandInv, HeldInv, Server
  <2> QED BY <1>1, <2>1, <2>3, <2>4 DEF StrandInv, HeldInv
<1>3. CASE ~Hit(i, v)
  <2> DEFINE p == IF Server(i) THEN "set" ELSE "use"
  <2>1. Provided(i, v) # None
    BY <1>3 DEF Asking
  <2>2. Asking(q) = [q EXCEPT !.pc = p, !.t = now, !.bytes = Provided(i, v)]
    BY <1>3, <2>1 DEF Asking
  <2>3. Asking(q).bytes = Provided(i, v)
    BY <2>2 DEF Call
  <2>4. CASE ReadsFiles(i)
    <3>1. Provided(i, v) = content[v]
      BY <2>4 DEF Provided, ReadFile, ReadsFiles
    <3> QED BY <2>3, <3>1
  <2>5. CASE ~ReadsFiles(i)
    <3>1. Kind[i] \in {"env", "workers"}
      BY <1>1, <2>5, KindAssumption DEF ReadsFiles
    <3>2. Provided(i, v) = proc[i].env[v]
      BY <3>1 DEF Provided, ReadEnv, ReadWorkersEnv, ReadsFiles
    <3> QED BY <1>1, <2>1, <2>3, <3>1, <3>2 DEF StrandInv, HeldInv
  <2> QED BY <2>4, <2>5
<1> QED BY <1>2, <1>3

\* A step that only puts a call, or none, in a slot.
LEMMA StrandSlot ==
    ASSUME TypeOK, StrandInv, NEW c \in Calls, NEW q,
           call' = [call EXCEPT ![c] = q],
           UNCHANGED <<now, content, goneAt, removal, table, upToDate, apps, proc>>,
           q # None /\ q.pc \in {"set", "use"}
             => /\ removal[q.version] = "never" => q.bytes = content[q.version]
                /\ q.purpose = "create" => Kind[q.inst] # "workers"
                /\ q.purpose = "create" /\ Server(q.inst) => q.version = proc[q.inst].active
                /\ Kind[q.inst] = "cli" /\ removal[q.version] = "careful"
                     => q.bytes = content[q.version]
    PROVE  StrandInv'
<1>1. CarefulInv' /\ HeldInv' /\ NoAppStranded'
  BY DEF StrandInv, CarefulInv, HeldInv, NoAppStranded
<1>2. ASSUME NEW d \in Calls PROVE RightCall(d)'
  <2>1. CASE d = c
    BY <2>1 DEF RightCall, Got, Live, TypeOK
  <2>2. CASE d # c
    <3>1. call'[d] = call[d] /\ RightCall(d)
      BY <2>2 DEF TypeOK, StrandInv
    <3> QED BY <3>1 DEF RightCall, Got, Live
  <2> QED BY <2>1, <2>2
<1> QED BY <1>1, <1>2 DEF StrandInv

LEMMA AskingStepRight ==
    ASSUME TypeOK, StrandInv, NEW c \in Calls, NEW q \in Call, q.version # None,
           q.purpose = "connect" => q.columns # None,
           q.purpose = "create" => Kind[q.inst] # "workers",
           q.purpose = "create" /\ Server(q.inst) => q.version = proc[q.inst].active,
           call' = [call EXCEPT ![c] = Asking(q)],
           UNCHANGED <<now, content, goneAt, removal, table, upToDate, apps, proc>>
    PROVE  StrandInv'
<1> DEFINE r == Asking(q)
<1>1. r # None /\ r.pc \in {"set", "use"}
        => /\ removal[r.version] = "never" => r.bytes = content[r.version]
           /\ r.purpose = "create" => Kind[r.inst] # "workers"
           /\ r.purpose = "create" /\ Server(r.inst) => r.version = proc[r.inst].active
           /\ Kind[r.inst] = "cli" /\ removal[r.version] = "careful"
                => r.bytes = content[r.version]
  BY AskingType, AskingRight
<1>2. call' = [call EXCEPT ![c] = r]
  OBVIOUS
<1> HIDE DEF r
<1> QED BY <1>1, <1>2, StrandSlot

LEMMA StrandCallStep ==
    ASSUME TypeOK, StrandInv, NEW c \in Calls,
           \/ \E i \in Instances, a \in Apps : BeginCreate(c, i, a) \/ BeginConnect(c, i, a)
           \/ \E i \in Instances, a \in Apps, v \in Versions :
                BeginCreateOffline(c, i, a, v) \/ BeginOpen(c, i, a, v)
           \/ ReadRow(c) \/ AskForRow(c)
    PROVE  StrandInv'
<1>1. ASSUME NEW i \in Instances, NEW a \in Apps, BeginCreate(c, i, a) PROVE StrandInv'
  <2>1. proc[i].active \in Versions /\ Kind[i] # "workers"
    BY <1>1 DEF BeginCreate, TypeOK, Process, Server
  <2> DEFINE q == Request("create", i, a, proc[i].active)
  <2>2. /\ q \in Call /\ q.version # None /\ q.purpose # "connect"
        /\ Kind[q.inst] # "workers" /\ q.version = proc[q.inst].active
        /\ call' = [call EXCEPT ![c] = Asking(q)]
        /\ UNCHANGED <<now, content, goneAt, removal, table, upToDate, apps, proc>>
    BY <1>1, <2>1, RequestType, NoneAssumption DEF BeginCreate
  <2> HIDE DEF q
  <2> QED BY <2>2, AskingStepRight
<1>2. ASSUME NEW i \in Instances, NEW a \in Apps, NEW v \in Versions, BeginCreateOffline(c, i, a, v)
      PROVE  StrandInv'
  <2> DEFINE q == Request("create", i, a, v)
  <2>1. /\ q \in Call /\ q.version # None /\ q.purpose # "connect"
        /\ Kind[q.inst] = "cli"
        /\ call' = [call EXCEPT ![c] = Asking(q)]
        /\ UNCHANGED <<now, content, goneAt, removal, table, upToDate, apps, proc>>
    BY <1>2, RequestType, NoneAssumption DEF BeginCreateOffline
  <2> HIDE DEF q
  <2> QED BY <2>1, AskingStepRight DEF Server
<1>3. ASSUME NEW i \in Instances, NEW a \in Apps, NEW v \in Versions, BeginOpen(c, i, a, v)
      PROVE  StrandInv'
  <2> DEFINE q == Request("open", i, a, v)
  <2>1. /\ q \in Call /\ q.version # None /\ q.purpose = "open"
        /\ call' = [call EXCEPT ![c] = Asking(q)]
        /\ UNCHANGED <<now, content, goneAt, removal, table, upToDate, apps, proc>>
    BY <1>3, RequestType, NoneAssumption DEF BeginOpen
  <2> HIDE DEF q
  <2> QED BY <2>1, AskingStepRight
<1>4. ASSUME NEW i \in Instances, NEW a \in Apps, BeginConnect(c, i, a) PROVE StrandInv'
  <2> DEFINE q == Request("connect", i, a, None)
  <2>1. call' = [call EXCEPT ![c] = q] /\ q.pc = "row"
    BY <1>4, RequestType DEF BeginConnect
  <2> HIDE DEF q
  <2> QED BY <1>4, <2>1, StrandSlot DEF BeginConnect
<1>5. CASE ReadRow(c)
  <2>1. PICK q : call' = [call EXCEPT ![c] = q] /\ (q = None \/ q.pc = "key")
    <3>1. call[c] \in Call
      BY <1>5 DEF ReadRow, At, Live, TypeOK
    <3> QED BY <1>5, <3>1 DEF ReadRow, Finish, Call
  <2> QED BY <1>5, <2>1, StrandSlot DEF ReadRow
<1>6. CASE AskForRow(c)
  <2>1. /\ call[c] \in Call /\ call[c].version # None /\ call[c].purpose = "connect"
        /\ call[c].columns # None
    BY <1>6 DEF AskForRow, At, Live, TypeOK, Equipped
  <2> QED BY <1>6, <2>1, AskingStepRight DEF AskForRow
<1> QED BY <1>1, <1>2, <1>3, <1>4, <1>5, <1>6

LEMMA StrandCacheKey == ASSUME TypeOK, StrandInv, NEW c \in Calls, CacheKey(c) PROVE StrandInv'
<1> DEFINE i == call[c].inst  v == call[c].version
<1>1. call[c] \in Call /\ Equipped(call[c]) /\ call[c].pc = "set" /\ Live(c)
  BY DEF CacheKey, At, Live, TypeOK
<1>2. i \in Instances /\ v \in Versions /\ Server(i) /\ RightCall(c)
  BY <1>1 DEF Call, Equipped, StrandInv
<1>3. \A j \in Instances :
        /\ proc'[j].active = proc[j].active
        /\ proc'[j].env = proc[j].env
        /\ \A w \in Versions : proc'[j].cache[w] =
              IF j = i /\ w = v THEN EntryOf(c) ELSE proc[j].cache[w]
  BY <1>2 DEF CacheKey, TypeOK, Process
<1>4. EntryOf(c).bytes = call[c].bytes
  BY DEF EntryOf
<1>5. CarefulInv'
  BY <1>3 DEF CarefulInv, StrandInv, CacheKey, Server
<1>6. HeldInv'
  <2>1. removal[v] = "never" => EntryOf(c).bytes = content[v]
    BY <1>1, <1>2, <1>4 DEF RightCall, Got
  <2> HIDE DEF i, v
  <2> QED BY <1>2, <1>3, <2>1 DEF HeldInv, StrandInv, CacheKey, Server
<1>7. ASSUME NEW d \in Calls PROVE RightCall(d)'
  <2>1. CASE d = c
    <3>1. call'[c] = [call[c] EXCEPT !.pc = "use"]
      BY DEF CacheKey, TypeOK
    <3>2. /\ call'[c].version = v /\ call'[c].inst = i /\ call'[c].bytes = call[c].bytes
          /\ call'[c].purpose = call[c].purpose
      BY <1>1, <3>1 DEF Call
    <3> QED BY <1>1, <1>2, <1>3, <2>1, <3>2 DEF RightCall, Got, CacheKey, Server
  <2>2. CASE d # c
    <3>1. call'[d] = call[d] /\ RightCall(d) /\ (Live(d) => call[d].inst \in Instances)
      BY <2>2 DEF TypeOK, StrandInv, CacheKey, Call, Live
    <3> QED BY <1>3, <3>1 DEF RightCall, Got, Live, CacheKey, Server
  <2> QED BY <2>1, <2>2
<1>8. NoAppStranded'
  BY DEF StrandInv, NoAppStranded, CacheKey
<1> QED BY <1>5, <1>6, <1>7, <1>8 DEF StrandInv

\* The end of a call changes an app's row or a set of clients, or nothing.
LEMMA StrandUse ==
    ASSUME TypeOK, StrandInv, NEW c \in Calls, CreateApp(c) \/ Connect(c) \/ Leave(c)
    PROVE  StrandInv'
<1>1. /\ call[c] \in Call /\ Equipped(call[c]) /\ call[c].pc = "use" /\ Live(c)
      /\ call' = [call EXCEPT ![c] = None]
      /\ UNCHANGED <<now, content, goneAt, removal, table, upToDate>>
  BY DEF CreateApp, Connect, Leave, At, Live, Finish, TypeOK
<1>2. \A j \in Instances :
        proc'[j].active = proc[j].active /\ proc'[j].env = proc[j].env
        /\ proc'[j].cache = proc[j].cache
  BY <1>1 DEF CreateApp, Connect, Leave, TypeOK, Process, Call
<1>3. CarefulInv' /\ HeldInv'
  BY <1>1, <1>2 DEF StrandInv, CarefulInv, HeldInv, Server
<1>4. ASSUME NEW d \in Calls PROVE RightCall(d)'
  <2>1. call'[d] = None \/ (call'[d] = call[d] /\ (Live(d) => call[d].inst \in Instances))
    BY <1>1 DEF TypeOK, Call, Live
  <2> QED BY <1>1, <1>2, <2>1 DEF StrandInv, RightCall, Got, Live, Server
<1>5. NoAppStranded'
  <2>1. CASE CreateApp(c)
    <3> DEFINE a == call[c].app  v == call[c].version
               row == [version |-> v, migrated |-> FALSE, columns |-> EncryptColumn(CallKey(c), a)]
    <3>1. a \in Apps /\ v \in Versions /\ call[c].bytes \in Bytes /\ call[c].inst \in Instances
          /\ call[c].bytes # None
      BY <1>1 DEF Call, Equipped
    <3>2. apps' = [apps EXCEPT ![a] = row]
      BY <2>1 DEF CreateApp
    <3>3. removal[v] # "hasty" => call[c].bytes = content[v]
      <4>1. RightCall(c) /\ call[c].purpose = "create" /\ removal[v] \in {"never", "careful", "hasty"}
        BY <2>1, <3>1 DEF CreateApp, StrandInv, TypeOK
      <4>2. CASE removal[v] = "never"
        BY <1>1, <4>1, <4>2 DEF RightCall, Got
      <4>3. CASE removal[v] = "careful"
        <5>1. ~Server(call[c].inst)
          BY <1>1, <3>1, <4>1, <4>3 DEF RightCall, Got, StrandInv, CarefulInv
        <5>2. Kind[call[c].inst] = "cli"
          BY <1>1, <3>1, <4>1, <5>1, KindAssumption DEF RightCall, Got, Server
        <5> QED BY <1>1, <4>1, <4>3, <5>2 DEF RightCall, Got
      <4> QED BY <4>1, <4>2, <4>3
    <3>4. DecryptsColumn(row.columns, DeriveSealingKey(call[c].bytes, a), a)
      BY DEF DecryptsColumn, EncryptColumn, CallKey
    <3>5. row.version = v
      OBVIOUS
    <3> HIDE DEF row, a, v
    <3> QED BY <1>1, <3>1, <3>2, <3>3, <3>4, <3>5 DEF NoAppStranded, StrandInv, TypeOK
  <2>2. CASE Connect(c) \/ Leave(c)
    BY <1>1, <2>2 DEF StrandInv, NoAppStranded, Connect, Leave
  <2> QED BY <2>1, <2>2
<1> QED BY <1>3, <1>4, <1>5 DEF StrandInv

LEMMA StrandPutKey ==
    ASSUME TypeOK, StrandInv, NEW v \in Versions, NEW b \in Bytes, PutKey(v, b) PROVE StrandInv'
<1>1. \A w \in Versions : content'[w] = IF w = v THEN b ELSE content[w]
  BY DEF PutKey, TypeOK
<1>2. content[v] = None
  BY DEF PutKey
<1>3. CarefulInv'
  BY DEF StrandInv, CarefulInv, PutKey, Server
<1>4. HeldInv'
  <2>1. \A i \in Instances : removal[v] = "never" => proc[i].cache[v] = None /\ proc[i].env[v] = None
    <3>1. ASSUME NEW i \in Instances, removal[v] = "never"
          PROVE  proc[i].cache[v] = None /\ proc[i].env[v] = None
      <4>1. proc[i].cache[v] \in Entry => proc[i].cache[v].bytes # None
        BY NoneAssumption DEF Entry
      <4>2. proc[i].cache[v] \in Entry \cup {None}
        BY <3>1 DEF TypeOK, Process
      <4> QED BY <1>2, <3>1, <4>1, <4>2 DEF StrandInv, HeldInv
    <3> QED BY <3>1
  <2> QED BY <1>1, <2>1 DEF StrandInv, HeldInv, PutKey, Server
<1>5. ASSUME NEW d \in Calls PROVE RightCall(d)'
  <2>1. Got(d) => call[d].bytes # None /\ call[d].version \in Versions
    BY DEF Got, Live, TypeOK, Call, Equipped
  <2> QED BY <1>1, <1>2, <2>1 DEF StrandInv, RightCall, Got, Live, PutKey, Server
<1>6. NoAppStranded'
  <2>1. \A a \in Apps : apps[a] # None => apps[a].version \in Versions
    BY DEF TypeOK, AppRow
  <2> QED BY <1>1, <1>2, <2>1 DEF StrandInv, NoAppStranded, PutKey
<1> QED BY <1>3, <1>4, <1>5, <1>6 DEF StrandInv

LEMMA StrandRemoveKey ==
    ASSUME TypeOK, StrandInv, NEW v \in Versions, RemoveKey(v) PROVE StrandInv'
<1>1. \A w \in Versions : /\ w # v => content'[w] = content[w] /\ removal'[w] = removal[w]
                          /\ removal'[v] # "never"
                          /\ removal'[v] = "careful" => Careful(v)
  BY DEF RemoveKey, TypeOK
<1>2. CarefulInv'
  BY <1>1 DEF StrandInv, CarefulInv, RemoveKey, Careful, Server
<1>3. HeldInv'
  BY <1>1 DEF StrandInv, HeldInv, RemoveKey, Server
<1>4. ASSUME NEW d \in Calls PROVE RightCall(d)'
  <2>1. Got(d) => call[d].version \in Versions
    BY DEF Got, Live, TypeOK, Call, Equipped
  <2>2. Got(d) /\ call[d].version = v /\ Kind[call[d].inst] = "cli" => removal'[v] # "careful"
    BY <1>1 DEF Careful, Got
  <2> QED BY <1>1, <2>1, <2>2 DEF StrandInv, RightCall, Got, Live, RemoveKey, Server
<1>5. NoAppStranded'
  <2>1. ASSUME NEW a \in Apps, apps[a] # None
        PROVE  /\ apps[a].version \in Versions
               /\ apps[a].version = v => removal'[v] # "careful"
    BY <1>1, <2>1 DEF TypeOK, AppRow, Careful
  <2>2. removal'[v] \in {"careful", "hasty"}
    BY DEF RemoveKey, TypeOK
  <2> QED BY <1>1, <2>1, <2>2 DEF StrandInv, NoAppStranded, RemoveKey
<1> QED BY <1>2, <1>3, <1>4, <1>5 DEF StrandInv

LEMMA StrandRestart ==
    ASSUME TypeOK, StrandInv, NEW i \in Instances, Restart(i) PROVE StrandInv'
<1>1. \A j \in Instances : proc'[j] = IF j = i THEN Started(i) ELSE proc[j]
  BY DEF Restart, TypeOK
<1>2. UNCHANGED <<now, content, goneAt, removal, table, apps>>
  BY DEF Restart
<1>3. CarefulInv'
  <2>1. ASSUME NEW v \in Versions, removal[v] = "careful", NEW j \in Instances, Server(j)
        PROVE  table[v] = "retired" /\ j \in upToDate'[v]
    BY <2>1 DEF StrandInv, CarefulInv, Restart
  <2>2. ASSUME NEW j \in Instances, NEW v \in Versions, j \in upToDate'[v]
        PROVE  table[v] = "retired" /\ proc'[j].active # v
    <3>1. CASE j = i
      <4>1. table[v] = "retired"
        BY <2>2, <3>1 DEF StrandInv, CarefulInv, Restart
      <4>2. proc'[i].active # None => table[proc'[i].active] = "active"
        BY <1>1, StartedType
      <4> QED BY <3>1, <4>1, <4>2, NoneAssumption
    <3>2. CASE j # i
      BY <1>1, <2>2, <3>2 DEF StrandInv, CarefulInv, Restart
    <3> QED BY <3>1, <3>2
  <2>3. \A v \in Versions : removal[v] = "careful" => table[v] = "retired"
    BY DEF StrandInv, CarefulInv
  <2> QED BY <1>2, <2>1, <2>2, <2>3 DEF CarefulInv, Server
<1>4. HeldInv'
  <2>1. \A v \in Versions : /\ proc'[i].cache[v] = None
                            /\ proc'[i].env[v] \in {None, content[v]}
    BY <1>1, StartedType
  <2> QED BY <1>1, <1>2, <2>1 DEF StrandInv, HeldInv, Server
<1>5. ASSUME NEW d \in Calls PROVE RightCall(d)'
  <2>1. call'[d] = None \/ (call'[d] = call[d] /\ (Live(d) => call[d].inst # i /\ call[d].inst \in Instances))
    BY DEF Restart, TypeOK, Live, Call
  <2> QED BY <1>1, <1>2, <2>1 DEF StrandInv, RightCall, Got, Live, Server
<1>6. NoAppStranded'
  BY <1>2 DEF StrandInv, NoAppStranded
<1> QED BY <1>3, <1>4, <1>5, <1>6 DEF StrandInv

LEMMA StrandTable ==
    ASSUME TypeOK, StrandInv, NEW v \in Versions, AddMasterKey(v) \/ RetireMasterKey(v)
    PROVE  StrandInv'
<1>1. \A w \in Versions : table[w] = "retired" => table'[w] = "retired"
  BY DEF AddMasterKey, RetireMasterKey, TypeOK
<1>2. UNCHANGED <<now, content, goneAt, removal, upToDate, apps, proc, call>>
  BY DEF AddMasterKey, RetireMasterKey
<1>3. CarefulInv'
  BY <1>1, <1>2 DEF StrandInv, CarefulInv, Server
<1>4. HeldInv' /\ NoAppStranded'
  BY <1>2 DEF StrandInv, HeldInv, NoAppStranded, Server
<1>5. \A c \in Calls : RightCall(c)'
  BY <1>2 DEF StrandInv, RightCall, Got, Live, Server
<1> QED BY <1>3, <1>4, <1>5 DEF StrandInv

LEMMA StrandRows ==
    ASSUME TypeOK, StrandInv, NEW a \in Apps,
           (\E v \in Versions : MigrateRow(a, v)) \/ DeleteApp(a)
    PROVE  StrandInv'
<1>1. UNCHANGED <<now, content, goneAt, removal, table, upToDate, proc, call>>
  BY DEF MigrateRow, DeleteApp
<1>2. CarefulInv' /\ HeldInv'
  BY <1>1 DEF StrandInv, CarefulInv, HeldInv, Server
<1>3. \A c \in Calls : RightCall(c)'
  BY <1>1 DEF StrandInv, RightCall, Got, Live, Server
<1>4. ASSUME NEW e \in Apps PROVE apps'[e] = apps[e] \/ apps'[e] = None \/ apps'[e].migrated
  <2>1. CASE DeleteApp(a)
    BY <2>1 DEF DeleteApp, TypeOK
  <2>2. CASE \E v \in Versions : MigrateRow(a, v)
    <3>1. PICK v \in Versions : MigrateRow(a, v)
      BY <2>2
    <3>2. apps[a] \in AppRow
      BY <3>1 DEF MigrateRow, TypeOK
    <3>3. [apps[a] EXCEPT !.version = v, !.migrated = TRUE].migrated = TRUE
      BY <3>2 DEF AppRow
    <3>4. apps' = [apps EXCEPT ![a] = [apps[a] EXCEPT !.version = v, !.migrated = TRUE]]
      BY <3>1 DEF MigrateRow
    <3> QED BY <3>3, <3>4 DEF TypeOK
  <2> QED BY <2>1, <2>2
<1>5. NoAppStranded'
  BY <1>1, <1>4 DEF StrandInv, NoAppStranded
<1> QED BY <1>2, <1>3, <1>5 DEF StrandInv

LEMMA StrandNext == ASSUME TypeOK, StrandInv, [Next]_vars PROVE StrandInv'
<1>1. CASE UNCHANGED <<content, removal, table, upToDate, apps, proc, call>>
  <2>1. CarefulInv' /\ HeldInv' /\ NoAppStranded'
    BY <1>1 DEF StrandInv, CarefulInv, HeldInv, NoAppStranded, Server
  <2>2. \A c \in Calls : RightCall(c)'
    BY <1>1 DEF StrandInv, RightCall, Got, Live, Server
  <2> QED BY <2>1, <2>2 DEF StrandInv
<1>2. CASE Next
  <2>1. CASE \E c \in Calls :
               \/ \E i \in Instances, a \in Apps : BeginCreate(c, i, a) \/ BeginConnect(c, i, a)
               \/ \E i \in Instances, a \in Apps, v \in Versions :
                     BeginCreateOffline(c, i, a, v) \/ BeginOpen(c, i, a, v)
               \/ ReadRow(c) \/ AskForRow(c)
    BY <2>1, StrandCallStep
  <2>2. CASE \E c \in Calls : CacheKey(c) \/ CreateApp(c) \/ Connect(c) \/ Leave(c)
    BY <2>2, StrandCacheKey, StrandUse
  <2>3. CASE \/ \E v \in Versions, b \in Bytes : PutKey(v, b)
             \/ \E v \in Versions : AddMasterKey(v) \/ RetireMasterKey(v) \/ RemoveKey(v)
    BY <2>3, StrandPutKey, StrandTable, StrandRemoveKey
  <2>4. CASE \/ \E a \in Apps, v \in Versions : MigrateRow(a, v)
             \/ \E a \in Apps : DeleteApp(a)
    BY <2>4, StrandRows
  <2>5. CASE \E i \in Instances : Restart(i)
    BY <2>5, StrandRestart
  <2>6. CASE Tick
    BY <1>1, <2>6 DEF Tick
  <2> QED BY <1>2, <2>1, <2>2, <2>3, <2>4, <2>5, <2>6 DEF Next
<1> QED BY <1>1, <1>2 DEF vars

\* Retiring a version, starting every server again and finding no row under it
\* before its key goes leaves every app with columns that decrypt, whatever
\* creations were under way (buildAdminBlock, apps.create, createMtlsMaterialAccessor).
THEOREM NoAppsStranded == Spec => []NoAppStranded
<1>1. Init => TypeOK /\ StrandInv
  BY InitTyped, StrandInit
<1>2. TypeOK /\ StrandInv /\ [Next]_vars => (TypeOK /\ StrandInv)'
  BY NextTyped, StrandNext
<1>3. StrandInv => NoAppStranded
  BY DEF StrandInv
<1> QED BY <1>1, <1>2, <1>3, PTL DEF Spec
=============================================================================
