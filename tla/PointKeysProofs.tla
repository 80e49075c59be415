-------------------------- MODULE PointKeysProofs --------------------------
(***************************************************************************)
(* Proofs about PointKeys: the two directions of the id map stay inverse,  *)
(* searches return the live keys, and the store implements KeyMap, for any *)
(* number of keys, writers, shards, ids, crashes and failures.             *)
(***************************************************************************)
EXTENDS PointKeys, TLAPS, WellFoundedInduction

(***************************************************************************)
(* The inductive invariant                                                 *)
(***************************************************************************)

\* A replay has put back the key of record i, or it was never lost.
InMap(i) == up = "open" \/ (up = "replay" /\ i <= pos)

\* The operation log and the id map never disagree about a key or an id.
LogFits ==
  /\ \A i \in 1..Len(log) : log[i].op = "delete" => log[i].key = None
  /\ \A i \in 1..Len(log) : log[i].op = "insert" =>
       /\ log[i].key \in Keys
       /\ fwd[log[i].key] \in {NoId, log[i].id}
       /\ rev[log[i].id] \in {None, log[i].key}
       /\ InMap(i) => fwd[log[i].key] = log[i].id
  /\ \A i, j \in 1..Len(log) : log[i].op = "insert" /\ log[j].op = "insert" =>
       (log[i].key = log[j].key <=> log[i].id = log[j].id)

\* The counter is above every id in use.
NextAbove == up # "down" => \A d \in Ids : rev[d] # None => d < next

\* What a writer has learnt of its key stays true while it needs it: the lock
\* of the shard protects the gap between lookup and batch.
RequestFits(w) ==
  /\ req[w].pc # "idle" => up = "open" /\ gate = "free" /\ req[w].key \in Keys
  /\ req[w].pc \in {"alloc", "put"} =>
       req[w].op = "insert" /\ fwd[req[w].key] = NoId /\ holder[ShardOf[req[w].key]] = w
  /\ req[w].pc = "put" =>
       req[w].id \in Ids /\ req[w].id < next /\ rev[req[w].id] = None
  /\ req[w].pc \in {"log", "apply"} =>
       /\ req[w].id \in Ids /\ fwd[req[w].key] = req[w].id
       /\ req[w].op \in {"insert", "delete"}

RequestsFit ==
  /\ \A w \in Writers : RequestFits(w)
  /\ \A v, w \in Writers : v # w /\ req[v].pc = "put" /\ req[w].pc = "put" =>
                             req[v].id # req[w].id

GateFits ==
  /\ gate # "free" => up = "open" /\ \A w \in Writers : req[w].pc = "idle"
  /\ up = "down" => pos = 0
  /\ gate = "bulk" => /\ next = 0 /\ Len(bulk) <= MaxRealId + 1
                      /\ \A i, j \in 1..Len(bulk) : bulk[i] = bulk[j] => i = j

SyncedInMap == \A p \in synced : fwd[p[1]] = p[2]

KeyInv == TypeOK /\ MapsInverse /\ LogFits /\ NextAbove /\ RequestsFit /\ GateFits /\ SyncedInMap

\* The index never shows a key under another id than the id map does.
LiveFits ==
  ~torn =>
    /\ up # "down" /\ gate # "bulk" => \A d \in Ids : live[d] # None => rev[d] = live[d]
    /\ gate = "bulk" => \A d \in Ids : live[d] # None =>
                          d < Len(bulk) /\ live[d] = bulk[d + 1]
    /\ \A d \in Ids : ckpt.live[d] # None => <<ckpt.live[d], d>> \in synced
    /\ up = "down" => live = ckpt.live
    /\ gate = "meta" => \A d \in Ids : rev[d] # None => <<rev[d], d>> \in synced
(***************************************************************************)
(* Lemmas                                                                  *)
(***************************************************************************)

\* A non-empty set of naturals below a bound has a greatest element.
LEMMA HasMax ==
  ASSUME NEW n \in Nat, NEW T \in SUBSET (0..n), T # {}
  PROVE  \E x \in T : \A y \in T : y <= x
<1> DEFINE R == OpToRel(<, Nat)
           U == {n - y : y \in T}
<1>1. IsWellFoundedOn(R, Nat)
  BY NatLessThanWellFounded, Zenon
<1>2. U \subseteq Nat
  <2> SUFFICES ASSUME NEW u \in U PROVE u \in Nat
    OBVIOUS
  <2>1. PICK y \in T : u = n - y
    OBVIOUS
  <2>2. y \in 0..n
    OBVIOUS
  <2> QED BY <2>1, <2>2
<1>3. U # {}
  OBVIOUS
<1> HIDE DEF R, U
<1>4. PICK u \in U : \A y \in U : ~ (<<y, u>> \in R)
  BY <1>1, <1>2, <1>3, WFMin
<1>5. PICK x \in T : u = n - x
  BY DEF U
<1>6. SUFFICES ASSUME NEW y \in T, ~(y <= x) PROVE FALSE
  BY <1>5
<1>7. n - y \in U
  BY DEF U
<1>8. x \in 0..n /\ y \in 0..n
  BY <1>5, <1>6
<1>9. n - y \in Nat /\ u \in Nat /\ n - y < u
  BY <1>5, <1>6, <1>8
<1>10. <<n - y, u>> \in R
  BY <1>9 DEF R, OpToRel
<1> QED BY <1>4, <1>7, <1>10

\* MaxMappedId is above every id that has an 'r' row.
LEMMA MaxAbove ==
  ASSUME rev \in [Ids -> Keys \cup {None}]
  PROVE  MaxMappedId \in Nat /\ \A d \in Ids : rev[d] # None => d < MaxMappedId
<1> DEFINE T == {d \in Ids : rev[d] # None}
           m == CHOOSE d \in T : \A e \in T : e <= d
<1>1. CASE T = {}
  BY <1>1 DEF MaxMappedId
<1>2. CASE T # {}
  <2>1. MaxRealId \in Nat /\ T \in SUBSET (0..MaxRealId)
    BY KeysAssumption DEF Ids
  <2>2. \E x \in T : \A y \in T : y <= x
    BY <1>2, <2>1, HasMax
  <2>3. m \in T /\ \A e \in T : e <= m
    BY <2>2
  <2>4. MaxMappedId = 1 + m
    BY <1>2 DEF MaxMappedId
  <2> HIDE DEF m
  <2>5. \A e \in T : e \in Nat
    BY <2>1
  <2> QED BY <2>3, <2>4, <2>5
<1> QED BY <1>1, <1>2

\* PutKeys of one pair sets one row of each direction.
LEMMA PutOne ==
  ASSUME fwd \in [Keys -> Ids \cup {NoId}], rev \in [Ids -> Keys \cup {None}],
         NEW k \in Keys, NEW d \in Ids, PutKeys({<<k, d>>})
  PROVE  fwd' = [fwd EXCEPT ![k] = d] /\ rev' = [rev EXCEPT ![d] = k]
<1>1. fwd' = [x \in Keys |-> IF x = k THEN d ELSE fwd[x]]
  BY DEF PutKeys
<1>2. rev' = [e \in Ids |-> IF e = d THEN k ELSE rev[e]]
  BY DEF PutKeys
<1> QED BY <1>1, <1>2

\* Putting a pair neither side of which has another partner keeps the map
\* consistent.
LEMMA PutKeepsInverse ==
  ASSUME fwd \in [Keys -> Ids \cup {NoId}], rev \in [Ids -> Keys \cup {None}],
         MapsInverse,
         NEW k \in Keys, NEW d \in Ids, fwd[k] \in {NoId, d}, rev[d] \in {None, k},
         fwd' = [fwd EXCEPT ![k] = d], rev' = [rev EXCEPT ![d] = k]
  PROVE  MapsInverse'
BY KeysAssumption DEF MapsInverse, NoId, Ids

\* Two mapped keys with the same id are the same key.
LEMMA MapInjective ==
  ASSUME MapsInverse, NEW j \in Keys, NEW k \in Keys, fwd[j] = fwd[k], fwd[j] # NoId
  PROVE  j = k
BY DEF MapsInverse

\* TypeOK, part by part.
Request == [pc : {"idle", "resolve", "alloc", "put", "log", "apply"},
            op : {"insert", "delete", "get"}, key : Keys \cup {None}, id : Ids \cup {NoId}]
ReqTypes == req \in [Writers -> Request] /\ holder \in [Shards -> Writers \cup {None}]
MapTypes == /\ next \in Nat
            /\ fwd \in [Keys -> Ids \cup {NoId}] /\ rev \in [Ids -> Keys \cup {None}]
            /\ synced \in SUBSET Pairs /\ wal \in Seq(SUBSET Pairs)
IndexTypes == /\ live \in [Ids -> Keys \cup {None}] /\ entry \in BOOLEAN
              /\ ckpt \in [live : [Ids -> Keys \cup {None}], entry : BOOLEAN]
LogTypes == log \in Seq(Record) /\ pos \in 0..Len(log) /\ logging \in BOOLEAN
GateTypes == /\ up \in {"down", "replay", "open"} /\ gate \in {"free", "bulk", "sync", "meta"}
             /\ bulk \in Seq(Keys) /\ torn \in BOOLEAN

LEMMA TypeParts ==
  TypeOK <=> ReqTypes /\ MapTypes /\ IndexTypes /\ LogTypes /\ GateTypes
BY DEF TypeOK, Request, ReqTypes, MapTypes, IndexTypes, LogTypes, GateTypes

LEMMA TypePartsNext ==
  TypeOK' <=> ReqTypes' /\ MapTypes' /\ IndexTypes' /\ LogTypes' /\ GateTypes'
BY DEF TypeOK, Request, ReqTypes, MapTypes, IndexTypes, LogTypes, GateTypes

LEMMA IndexUntouched ==
  ASSUME KeyInv, UNCHANGED <<live, entry, ckpt>> PROVE IndexTypes'
BY TypeParts DEF KeyInv, IndexTypes

LEMMA LogUntouched ==
  ASSUME KeyInv, UNCHANGED <<log, pos, logging>> PROVE LogTypes'
BY TypeParts DEF KeyInv, LogTypes

LEMMA GateUntouched ==
  ASSUME KeyInv, UNCHANGED <<up, gate, bulk, torn>> PROVE GateTypes'
BY TypeParts DEF KeyInv, GateTypes

LEMMA MapTypesUntouched ==
  ASSUME KeyInv, UNCHANGED <<fwd, rev, synced, wal>>, next' \in Nat PROVE MapTypes'
BY TypeParts DEF KeyInv, MapTypes

LEMMA RecordTypes ==
  ASSUME KeyInv, NEW i \in 1..Len(log)
  PROVE  log[i] \in Record /\ log[i].id \in Ids
<1>1. log \in Seq(Record)
  BY DEF KeyInv, TypeOK
<1>2. log[i] \in Record
  BY <1>1
<1> QED BY <1>2 DEF Record

\* A step that leaves the id map and the log alone keeps what they say.
LEMMA MapUntouched ==
  ASSUME KeyInv, UNCHANGED <<up, fwd, rev, synced, log, pos>>
  PROVE  MapsInverse' /\ LogFits' /\ SyncedInMap'
BY DEF KeyInv, MapsInverse, LogFits, SyncedInMap, InMap

\* Moving a request on keeps it a request.
LEMMA RequestMoves ==
  ASSUME ReqTypes, NEW w \in Writers,
         NEW p \in {"idle", "resolve", "alloc", "put", "log", "apply"},
         NEW d \in Ids \cup {NoId},
         req' = [req EXCEPT ![w].pc = p, ![w].id = d],
         holder' \in [Shards -> Writers \cup {None}]
  PROVE  ReqTypes'
<1>1. req \in [Writers -> Request] /\ req[w] \in Request
  BY DEF ReqTypes
<1>2. [req[w] EXCEPT !.pc = p, !.id = d] \in Request
  BY <1>1 DEF Request
<1>3. req' = [req EXCEPT ![w] = [req[w] EXCEPT !.pc = p, !.id = d]]
  BY <1>1
<1> QED BY <1>1, <1>2, <1>3 DEF ReqTypes

\* A writer that returns forgets what it knew and frees its own locks only.
LEMMA ReturnFits ==
  ASSUME KeyInv, NEW w \in Writers, Return(w), UNCHANGED <<up, gate, fwd, rev>>,
         next' \in Nat, next <= next',
         holder' = holder \/ Unlock(w)
  PROVE  ReqTypes' /\ RequestsFit'
<1>0. ReqTypes /\ MapTypes
  BY TypeParts DEF KeyInv
<1>1. req' = [req EXCEPT ![w] = NoReq] /\ NoReq \in Request /\ NoReq.pc = "idle"
  BY DEF Return, NoReq, Request
<1>2. ReqTypes'
  BY <1>0, <1>1 DEF ReqTypes, Unlock
<1>3. ASSUME NEW v \in Writers PROVE RequestFits(v)'
  <2>1. CASE v = w
    BY <1>0, <1>1, <2>1 DEF ReqTypes, RequestFits
  <2>2. CASE v # w
    <3>1. req'[v] = req[v] /\ RequestFits(v)
      BY <1>0, <1>1, <2>2 DEF ReqTypes, KeyInv, RequestsFit
    <3>2. \A s \in Shards : holder[s] = v => holder'[s] = v
      BY <2>2 DEF Unlock
    <3>3. req[v].pc # "idle" => ShardOf[req[v].key] \in Shards
      BY <3>1, KeysAssumption DEF RequestFits
    <3>4. req[v].pc = "put" => req[v].id < next'
      BY <1>0, <3>1, KeysAssumption DEF RequestFits, MapTypes, Ids
    <3> QED BY <3>1, <3>2, <3>3, <3>4 DEF RequestFits
  <2> QED BY <2>1, <2>2
<1>4. \A u, v \in Writers : u # v /\ req'[u].pc = "put" /\ req'[v].pc = "put" =>
                              req'[u].id # req'[v].id
  BY <1>0, <1>1 DEF ReqTypes, KeyInv, RequestsFit
<1> QED BY <1>2, <1>3, <1>4 DEF RequestsFit

(***************************************************************************)
(* Every step keeps KeyInv                                                 *)
(***************************************************************************)

LEMMA CallKeeps ==
  ASSUME KeyInv, NEW w \in Writers, Call(w)
  PROVE  KeyInv'
<1> PICK op \in {"insert", "delete", "get"}, k \in Keys :
      req' = [req EXCEPT ![w] = [pc |-> "resolve", op |-> op, key |-> k, id |-> NoId]]
  BY DEF Call
<1> USE DEF Call, idmap, index, logs
<1>1. MapsInverse' /\ LogFits' /\ SyncedInMap'
  BY MapUntouched
<1>2. TypeOK'
  BY DEF KeyInv, TypeOK
<1>3. NextAbove' /\ GateFits'
  BY DEF KeyInv, NextAbove, GateFits
<1>4. RequestsFit'
  BY DEF KeyInv, RequestsFit, RequestFits, TypeOK
<1> QED BY <1>1, <1>2, <1>3, <1>4 DEF KeyInv

LEMMA LookupKeeps ==
  ASSUME KeyInv, NEW w \in Writers, LookupKey(w)
  PROVE  KeyInv'
<1> USE DEF idmap, index, logs
<1>0. /\ req[w].pc = "resolve" /\ req[w].key \in Keys /\ up = "open" /\ gate = "free"
      /\ UNCHANGED <<up, next, fwd, rev, synced, wal, live, entry, ckpt, log, pos, logging,
                     gate, bulk, torn>>
  BY DEF LookupKey, KeyInv, RequestsFit, RequestFits
<1>1. MapsInverse' /\ LogFits' /\ SyncedInMap'
  BY <1>0, MapUntouched
<1>2. ReqTypes /\ MapTypes
  BY TypeParts DEF KeyInv
<1>3. ReqTypes' /\ RequestsFit'
  <2>1. CASE Return(w) /\ UNCHANGED holder
    BY <1>0, <1>2, <2>1, ReturnFits DEF MapTypes
  <2>2. CASE /\ fwd[req[w].key] # NoId /\ req[w].op # "get" /\ UNCHANGED holder
             /\ req' = [req EXCEPT ![w].pc = "log", ![w].id = fwd[req[w].key]]
    <3>0. fwd[req[w].key] \in Ids
      BY <1>0, <1>2, <2>2 DEF MapTypes
    <3>1. ReqTypes'
      BY <1>2, <2>2, <3>0, RequestMoves DEF ReqTypes
    <3>2. ASSUME NEW v \in Writers PROVE RequestFits(v)'
      <4>1. req[w].op \in {"insert", "delete"}
        BY <1>2, <2>2 DEF ReqTypes, Request
      <4>2. RequestFits(v)
        BY DEF KeyInv, RequestsFit
      <4>3. CASE v # w
        BY <1>0, <1>2, <2>2, <4>2, <4>3 DEF RequestFits, ReqTypes
      <4>4. CASE v = w
        BY <1>0, <1>2, <2>2, <3>0, <4>1, <4>4 DEF RequestFits, ReqTypes
      <4> QED BY <4>3, <4>4
    <3>3. \A u, v \in Writers : u # v /\ req'[u].pc = "put" /\ req'[v].pc = "put" =>
                                  req'[u].id # req'[v].id
      BY <1>2, <2>2 DEF KeyInv, ReqTypes, RequestsFit
    <3> QED BY <3>1, <3>2, <3>3 DEF RequestsFit
  <2>3. CASE /\ fwd[req[w].key] = NoId /\ req[w].op = "insert"
             /\ holder[ShardOf[req[w].key]] = None
             /\ holder' = [holder EXCEPT ![ShardOf[req[w].key]] = w]
             /\ req' = [req EXCEPT ![w].pc = "alloc"]
    <3>0. ShardOf[req[w].key] \in Shards
      BY <1>0, KeysAssumption
    <3>1. ReqTypes'
      BY <1>2, <2>3, <3>0 DEF ReqTypes, Request
    <3>2. ASSUME NEW v \in Writers PROVE RequestFits(v)'
      BY <1>0, <1>2, <2>3, <3>2, KeysAssumption
         DEF KeyInv, ReqTypes, RequestsFit, RequestFits
    <3>3. \A u, v \in Writers : u # v /\ req'[u].pc = "put" /\ req'[v].pc = "put" =>
                                  req'[u].id # req'[v].id
      BY <1>2, <2>3 DEF KeyInv, ReqTypes, RequestsFit
    <3> QED BY <3>1, <3>2, <3>3 DEF RequestsFit
  <2> QED BY <2>1, <2>2, <2>3 DEF LookupKey, Goto
<1>4. NextAbove' /\ GateFits'
  BY <1>0 DEF KeyInv, NextAbove, GateFits
<1>5. MapTypes'
  BY <1>0, <1>2, MapTypesUntouched DEF MapTypes
<1>6. TypeOK'
  BY <1>0, <1>3, <1>5, TypePartsNext, IndexUntouched, LogUntouched, GateUntouched
<1> QED BY <1>1, <1>3, <1>4, <1>6 DEF KeyInv

LEMMA AllocateKeeps ==
  ASSUME KeyInv, NEW w \in Writers, AllocateId(w)
  PROVE  KeyInv'
<1> USE DEF idmap, index, logs
<1>0. /\ req[w].pc = "alloc" /\ req[w].key \in Keys /\ up = "open" /\ gate = "free"
      /\ next' = next + 1
      /\ UNCHANGED <<up, fwd, rev, synced, wal, live, entry, ckpt, log, pos, logging,
                     gate, bulk, torn>>
  BY DEF AllocateId, KeyInv, RequestsFit, RequestFits
<1>1. MapsInverse' /\ LogFits' /\ SyncedInMap'
  BY <1>0, MapUntouched
<1>2. ReqTypes /\ MapTypes
  BY TypeParts DEF KeyInv
<1>3. NextAbove' /\ GateFits'
  BY <1>0, <1>2 DEF KeyInv, NextAbove, GateFits, MapTypes, Ids
<1>4. ReqTypes' /\ RequestsFit'
  <2>1. CASE next > MaxRealId
    <3>1. Return(w) /\ Unlock(w)
      BY <2>1 DEF AllocateId
    <3> QED BY <1>0, <1>2, <3>1, ReturnFits DEF MapTypes
  <2>2. CASE ~(next > MaxRealId)
    <3>0. req' = [req EXCEPT ![w].pc = "put", ![w].id = next] /\ UNCHANGED holder
      BY <2>2 DEF AllocateId
    <3>1. next \in Ids
      BY <1>2, <2>2, KeysAssumption DEF MapTypes, Ids
    <3>2. ReqTypes'
      BY <1>2, <3>0, <3>1, RequestMoves DEF ReqTypes
    <3>3. rev[next] = None
      BY <1>0, <1>2, <3>1 DEF KeyInv, NextAbove, MapTypes
    <3>4. ASSUME NEW v \in Writers PROVE RequestFits(v)'
      BY <1>0, <1>2, <3>0, <3>1, <3>3, <3>4
         DEF KeyInv, ReqTypes, MapTypes, RequestsFit, RequestFits, Ids
    <3>5. \A u, v \in Writers : u # v /\ req'[u].pc = "put" /\ req'[v].pc = "put" =>
                                  req'[u].id # req'[v].id
      BY <1>2, <3>0, <3>1 DEF KeyInv, ReqTypes, RequestsFit, RequestFits, Ids
    <3> QED BY <3>2, <3>4, <3>5 DEF RequestsFit
  <2> QED BY <2>1, <2>2
<1>5. MapTypes'
  BY <1>0, <1>2, MapTypesUntouched DEF MapTypes
<1>6. TypeOK'
  BY <1>0, <1>4, <1>5, TypePartsNext, IndexUntouched, LogUntouched, GateUntouched
<1> QED BY <1>1, <1>3, <1>4, <1>6 DEF KeyInv

LEMMA PutKeyKeeps ==
  ASSUME KeyInv, NEW w \in Writers, PutKey(w)
  PROVE  KeyInv'
<1> DEFINE k == req[w].key
           d == req[w].id
<1> USE DEF index, logs
<1>0. /\ req[w].pc = "put" /\ k \in Keys /\ up = "open" /\ gate = "free"
      /\ d \in Ids /\ d < next /\ rev[d] = None /\ fwd[k] = NoId /\ holder[ShardOf[k]] = w
  BY DEF PutKey, KeyInv, RequestsFit, RequestFits
<1>1. fwd' = [fwd EXCEPT ![k] = d] /\ rev' = [rev EXCEPT ![d] = k]
  BY <1>0, PutOne DEF PutKey, KeyInv, TypeOK
<1>2. /\ req' = [req EXCEPT ![w].pc = "log"]
      /\ holder' = [s \in Shards |-> IF holder[s] = w THEN None ELSE holder[s]]
      /\ wal' = Append(wal, {<<k, d>>})
      /\ UNCHANGED <<up, next, synced, live, entry, ckpt, log, pos, logging, gate, bulk, torn>>
  BY DEF PutKey, PutKeys, Unlock, Goto
<1> HIDE DEF k, d
<1>3. MapsInverse'
  BY <1>0, <1>1, PutKeepsInverse DEF KeyInv, TypeOK
<1>4. TypeOK'
  <2>1. wal' \in Seq(SUBSET Pairs)
    BY <1>0, <1>2 DEF KeyInv, TypeOK, Pairs
  <2>2. fwd' \in [Keys -> Ids \cup {NoId}] /\ rev' \in [Ids -> Keys \cup {None}]
    BY <1>0, <1>1 DEF KeyInv, TypeOK
  <2>3. ReqTypes /\ MapTypes
    BY TypeParts DEF KeyInv
  <2>4. req[w] \in Request /\ [req[w] EXCEPT !.pc = "log"] \in Request
    BY <2>3 DEF ReqTypes, Request
  <2>5. ReqTypes' /\ MapTypes'
    BY <1>2, <2>1, <2>2, <2>3, <2>4 DEF ReqTypes, MapTypes
  <2> QED BY <1>2, <2>5, TypePartsNext, IndexUntouched, LogUntouched, GateUntouched
<1>5. LogFits'
  <2>1. ASSUME NEW i \in 1..Len(log), log[i].op = "insert"
        PROVE  log[i].key # k /\ log[i].id # d /\ log[i].key \in Keys /\ log[i].id \in Ids
    <3>1. log[i].key \in Keys /\ fwd[log[i].key] = log[i].id
      BY <1>0, <2>1 DEF KeyInv, LogFits, InMap
    <3>2. log[i].id \in Ids
      BY RecordTypes
    <3>3. rev[log[i].id] = log[i].key
      BY <3>1, <3>2 DEF KeyInv, MapsInverse, Ids, NoId
    <3> QED BY <1>0, <3>1, <3>2, <3>3, KeysAssumption DEF Ids, NoId
  <2>2. \A i \in 1..Len(log) : log[i].op = "insert" =>
          fwd'[log[i].key] = fwd[log[i].key] /\ rev'[log[i].id] = rev[log[i].id]
    BY <1>0, <1>1, <2>1 DEF KeyInv, TypeOK
  <2> QED BY <1>2, <2>2 DEF KeyInv, LogFits, InMap
<1>6. NextAbove' /\ GateFits'
  BY <1>0, <1>1, <1>2 DEF KeyInv, TypeOK, NextAbove, GateFits
<1>7. SyncedInMap'
  BY <1>0, <1>1, <1>2 DEF KeyInv, TypeOK, SyncedInMap, Pairs, NoId, Ids
<1>8. ASSUME NEW v \in Writers PROVE RequestFits(v)'
  <2>1. CASE v = w
    BY <1>0, <1>1, <1>2, <2>1 DEF KeyInv, TypeOK, RequestsFit, RequestFits, k, d
  <2>2. CASE v # w
    <3>0. req'[v] = req[v]
      BY <1>2, <2>2 DEF KeyInv, TypeOK
    <3>1. RequestFits(v)
      BY DEF KeyInv, RequestsFit
    <3>2. req[v].pc \in {"alloc", "put"} => req[v].key # k
      BY <1>0, <2>2, <3>1 DEF RequestFits
    <3>3. req[v].pc = "put" => req[v].id # d
      BY <1>0, <2>2 DEF KeyInv, RequestsFit, d
    <3>4. req[v].pc \in {"log", "apply"} => req[v].key # k
      BY <1>0, <3>1, KeysAssumption DEF RequestFits, NoId, Ids
    <3>5. req[v].pc # "idle" => req[v].key \in Keys
      BY <3>1 DEF RequestFits
    <3>6. req[v].pc \in {"alloc", "put"} => holder'[ShardOf[req[v].key]] = v
      BY <1>2, <2>2, <3>1, <3>5, KeysAssumption DEF RequestFits
    <3>7. /\ req[v].pc # "idle" => up' = "open" /\ gate' = "free" /\ req[v].key \in Keys
          /\ req[v].pc \in {"alloc", "put"} => req[v].op = "insert" /\ fwd'[req[v].key] = NoId
          /\ req[v].pc = "put" => req[v].id \in Ids /\ req[v].id < next' /\ rev'[req[v].id] = None
      BY <1>0, <1>1, <1>2, <3>1, <3>2, <3>3, <3>5 DEF KeyInv, TypeOK, RequestFits
    <3>8. req[v].pc \in {"log", "apply"} =>
            /\ req[v].id \in Ids /\ fwd'[req[v].key] = req[v].id
            /\ req[v].op \in {"insert", "delete"}
      BY <1>1, <3>1, <3>4, <3>5 DEF KeyInv, TypeOK, RequestFits
    <3> QED BY <3>0, <3>6, <3>7, <3>8 DEF RequestFits
  <2> QED BY <2>1, <2>2
<1>9. \A u, v \in Writers : u # v /\ req'[u].pc = "put" /\ req'[v].pc = "put" =>
                              req'[u].id # req'[v].id
  BY <1>2 DEF KeyInv, TypeOK, RequestsFit
<1> QED BY <1>3, <1>4, <1>5, <1>6, <1>7, <1>8, <1>9 DEF KeyInv, RequestsFit

\* CallFails, DeleteAbsent, Apply: the call ends and touches neither map nor log.
LEMMA ReturnKeeps ==
  ASSUME KeyInv, NEW w \in Writers, req[w].pc # "idle", Return(w),
         holder' = holder \/ Unlock(w),
         UNCHANGED <<up, next, fwd, rev, synced, wal, ckpt, log, pos, logging, gate, bulk, torn>>,
         IndexTypes'
  PROVE  KeyInv'
<1>1. MapsInverse' /\ LogFits' /\ SyncedInMap'
  BY MapUntouched
<1>2. next \in Nat
  BY TypeParts DEF KeyInv, MapTypes
<1>3. ReqTypes' /\ RequestsFit'
  BY <1>2, ReturnFits
<1>4. NextAbove' /\ GateFits'
  <2>1. up = "open" /\ gate = "free"
    BY DEF KeyInv, RequestsFit, RequestFits
  <2> QED BY <2>1 DEF KeyInv, NextAbove, GateFits
<1>5. TypeOK'
  BY <1>2, <1>3, TypePartsNext, MapTypesUntouched, LogUntouched, GateUntouched
<1> QED BY <1>1, <1>3, <1>4, <1>5 DEF KeyInv

LEMMA CallFailsKeeps ==
  ASSUME KeyInv, NEW w \in Writers, CallFails(w)
  PROVE  KeyInv'
<1>1. /\ req[w].pc # "idle" /\ Return(w) /\ Unlock(w)
      /\ UNCHANGED <<up, next, fwd, rev, synced, wal, live, entry, ckpt, log, pos, logging,
                     gate, bulk, torn>>
  BY DEF CallFails, idmap, index, logs
<1> QED BY <1>1, ReturnKeeps, IndexUntouched

LEMMA DeleteAbsentKeeps ==
  ASSUME KeyInv, NEW w \in Writers, DeleteAbsent(w)
  PROVE  KeyInv'
<1>1. /\ req[w].pc # "idle" /\ Return(w)
      /\ UNCHANGED <<up, holder, next, fwd, rev, synced, wal, live, entry, ckpt, log, pos,
                     logging, gate, bulk, torn>>
  BY DEF DeleteAbsent, idmap, index, logs
<1> QED BY <1>1, ReturnKeeps, IndexUntouched

LEMMA ApplyKeeps ==
  ASSUME KeyInv, NEW w \in Writers, Apply(w)
  PROVE  KeyInv'
<1>1. /\ req[w].pc = "apply" /\ Return(w)
      /\ live' = [live EXCEPT ![req[w].id] = IF req[w].op = "insert" THEN req[w].key ELSE None]
      /\ entry' = TRUE
      /\ UNCHANGED <<up, holder, next, fwd, rev, synced, wal, ckpt, log, pos,
                     logging, gate, bulk, torn>>
  BY DEF Apply, idmap, index, logs
<1>2. req[w].key \in Keys
  BY <1>1 DEF KeyInv, RequestsFit, RequestFits
<1>3. IndexTypes'
  BY <1>1, <1>2, TypeParts DEF KeyInv, IndexTypes
<1> QED BY <1>1, <1>3, ReturnKeeps

LEMMA LogOpKeeps ==
  ASSUME KeyInv, NEW w \in Writers, LogOp(w)
  PROVE  KeyInv'
<1> DEFINE r == [op  |-> req[w].op, id |-> req[w].id,
                 key |-> IF req[w].op = "insert" THEN req[w].key ELSE None,
                 by  |-> w, aborted |-> FALSE]
<1>0. /\ req[w].pc = "log" /\ req' = [req EXCEPT ![w].pc = "apply"]
      /\ log' = IF logging THEN Append(log, r) ELSE log
      /\ UNCHANGED <<up, holder, next, fwd, rev, synced, wal, live, entry, ckpt, pos, logging,
                     gate, bulk, torn>>
  BY DEF LogOp, Goto, idmap, index, logs
<1>1. ReqTypes /\ MapTypes /\ LogTypes
  BY TypeParts DEF KeyInv
<1>2. /\ req[w].key \in Keys /\ req[w].id \in Ids /\ fwd[req[w].key] = req[w].id
      /\ up = "open" /\ gate = "free" /\ req[w].op \in {"insert", "delete"}
  BY <1>0 DEF KeyInv, RequestsFit, RequestFits
<1>3. r \in Record
  BY <1>2 DEF Record
<1>4. MapsInverse' /\ SyncedInMap' /\ NextAbove' /\ GateFits'
  BY <1>0, <1>2 DEF KeyInv, MapsInverse, SyncedInMap, NextAbove, GateFits
<1>5. ReqTypes'
  BY <1>0, <1>1 DEF ReqTypes, Request
<1>6. RequestsFit'
  <2>1. ASSUME NEW v \in Writers PROVE RequestFits(v)'
    BY <1>0, <1>1, <1>2, <2>1 DEF KeyInv, ReqTypes, RequestsFit, RequestFits
  <2>2. \A u, v \in Writers : u # v /\ req'[u].pc = "put" /\ req'[v].pc = "put" =>
                                req'[u].id # req'[v].id
    BY <1>0, <1>1 DEF KeyInv, ReqTypes, RequestsFit
  <2> QED BY <2>1, <2>2 DEF RequestsFit
<1>7. r.op = req[w].op /\ r.id = req[w].id /\ (r.op = "insert" => r.key = req[w].key)
      /\ (r.op = "delete" => r.key = None)
  OBVIOUS
<1> HIDE DEF r
<1>8. LogTypes'
  BY <1>0, <1>1, <1>3 DEF LogTypes
<1>9. LogFits'
  <2>1. CASE ~logging
    <3>1. log' = log
      BY <1>0, <2>1
    <3> QED BY <1>0, <3>1 DEF KeyInv, LogFits, InMap
  <2>2. CASE logging
    <3>1. /\ Len(log') = Len(log) + 1 /\ log'[Len(log) + 1] = r
          /\ \A i \in 1..Len(log) : log'[i] = log[i]
      BY <1>0, <1>1, <1>3, <2>2 DEF LogTypes
    <3>2. Len(log) \in Nat
      BY <1>1 DEF LogTypes
    <3>3. \A i \in 1..Len(log') : i \in 1..Len(log) \/ i = Len(log) + 1
      BY <3>1, <3>2
    <3>4. ASSUME NEW i \in 1..Len(log'), log'[i].op = "insert"
          PROVE  /\ log'[i].key \in Keys /\ fwd[log'[i].key] = log'[i].id
                 /\ log'[i].id \in Ids
      BY <1>2, <1>7, <3>1, <3>3, <3>4, RecordTypes DEF KeyInv, LogFits, InMap
    <3>5. ASSUME NEW i \in 1..Len(log'), log'[i].op = "insert"
          PROVE  rev[log'[i].id] = log'[i].key
      BY <3>4, <3>5 DEF KeyInv, MapsInverse, Ids, NoId
    <3>6. \A i, j \in 1..Len(log') : log'[i].op = "insert" /\ log'[j].op = "insert" =>
            (log'[i].key = log'[j].key <=> log'[i].id = log'[j].id)
      BY <3>4, <3>5
    <3>7. \A i \in 1..Len(log') : log'[i].op = "delete" => log'[i].key = None
      BY <1>7, <3>1, <3>3 DEF KeyInv, LogFits
    <3>8. UNCHANGED <<up, fwd, rev, pos>>
      BY <1>0
    <3> QED BY <3>4, <3>5, <3>6, <3>7, <3>8 DEF LogFits, InMap
  <2> QED BY <2>1, <2>2
<1>10. MapTypes'
  BY <1>0, <1>1, MapTypesUntouched DEF MapTypes
<1>11. TypeOK'
  BY <1>0, <1>5, <1>8, <1>10, TypePartsNext, IndexUntouched, GateUntouched
<1> QED BY <1>4, <1>6, <1>9, <1>11 DEF KeyInv

LEMMA ApplyFailsKeeps ==
  ASSUME KeyInv, NEW w \in Writers, ApplyFails(w)
  PROVE  KeyInv'
<1>0. /\ req[w].pc = "apply" /\ Return(w)
      /\ UNCHANGED <<up, holder, next, fwd, rev, synced, wal, live, entry, ckpt, pos, logging,
                     gate, bulk, torn>>
  BY DEF ApplyFails, idmap, index, logs
<1>1. MapTypes /\ LogTypes
  BY TypeParts DEF KeyInv
<1>2. PICK hit \in [1..Len(log) -> BOOLEAN] :
        log' = [i \in 1..Len(log) |-> IF hit[i] THEN [log[i] EXCEPT !.aborted = TRUE] ELSE log[i]]
  <2> DEFINE mine == {i \in 1..Len(log) : log[i].by = w}
             h == [i \in 1..Len(log) |-> logging /\ i \in mine /\ \A j \in mine : j <= i]
  <2>1. log' = [i \in 1..Len(log) |-> IF h[i] THEN [log[i] EXCEPT !.aborted = TRUE] ELSE log[i]]
    BY DEF ApplyFails
  <2>2. h \in [1..Len(log) -> BOOLEAN]
    BY <1>1 DEF LogTypes
  <2> QED BY <2>1, <2>2
<1>3. \A i \in 1..Len(log) : log[i] \in Record
  BY RecordTypes
<1>4. \A i \in 1..Len(log) : /\ log'[i] \in Record /\ log'[i].op = log[i].op
                             /\ log'[i].key = log[i].key /\ log'[i].id = log[i].id
  BY <1>2, <1>3 DEF Record
<1>5. log' \in Seq(Record) /\ Len(log') = Len(log)
  BY <1>1, <1>2, <1>4 DEF LogTypes
<1>6. LogTypes'
  BY <1>0, <1>1, <1>5 DEF LogTypes
<1>7. LogFits'
  BY <1>0, <1>4, <1>5 DEF KeyInv, LogFits, InMap
<1>8. MapsInverse' /\ SyncedInMap' /\ NextAbove'
  BY <1>0 DEF KeyInv, MapsInverse, SyncedInMap, NextAbove
<1>9. ReqTypes' /\ RequestsFit'
  BY <1>0, <1>1, ReturnFits DEF MapTypes
<1>10. GateFits'
  <2>1. up = "open" /\ gate = "free"
    BY <1>0 DEF KeyInv, RequestsFit, RequestFits
  <2> QED BY <1>0, <2>1 DEF GateFits
<1>11. TypeOK'
  BY <1>0, <1>1, <1>6, <1>9, TypePartsNext, IndexUntouched, GateUntouched, MapTypesUntouched
     DEF MapTypes
<1> QED BY <1>7, <1>8, <1>9, <1>10, <1>11 DEF KeyInv

\* Under the exclusive gate no call is in progress.
LEMMA NobodyBusy ==
  ASSUME KeyInv, UNCHANGED req, \A w \in Writers : req[w].pc = "idle"
  PROVE  RequestsFit'
BY DEF RequestsFit, RequestFits

LEMMA BulkBuildKeeps ==
  ASSUME KeyInv, BulkBuild
  PROVE  KeyInv'
<1>0. /\ up = "open" /\ gate = "free" /\ next = 0 /\ gate' = "bulk" /\ entry' = TRUE
      /\ \A w \in Writers : req[w].pc = "idle"
      /\ UNCHANGED <<up, req, holder, next, fwd, rev, synced, wal, ckpt, log, pos, logging, torn>>
  BY DEF BulkBuild, Exclusive, Idle, NoReq, idmap, index, logs
<1>a. PICK n \in 1..(MaxRealId + 1) : \E f \in [1..n -> Keys] :
        /\ \A i, j \in 1..n : f[i] = f[j] => i = j
        /\ bulk' = f
        /\ live' = [d \in Ids |-> IF d < n THEN f[d + 1] ELSE live[d]]
  BY DEF BulkBuild
<1>1. PICK f \in [1..n -> Keys] :
        /\ \A i, j \in 1..n : f[i] = f[j] => i = j
        /\ bulk' = f
        /\ live' = [d \in Ids |-> IF d < n THEN f[d + 1] ELSE live[d]]
  BY <1>a
<1>2. n \in Nat /\ n <= MaxRealId + 1
  BY KeysAssumption
<1>3. bulk' \in Seq(Keys) /\ Len(bulk') = n
  BY <1>1, <1>2
<1>4. ReqTypes /\ MapTypes /\ IndexTypes /\ GateTypes
  BY TypeParts DEF KeyInv
<1>5. \A d \in Ids : d < n => d + 1 \in 1..n
  BY <1>2, KeysAssumption DEF Ids
<1>6. IndexTypes'
  BY <1>0, <1>1, <1>4, <1>5 DEF IndexTypes
<1>7. GateTypes' /\ ReqTypes'
  BY <1>0, <1>3, <1>4 DEF GateTypes, ReqTypes
<1>8. TypeOK'
  BY <1>0, <1>4, <1>6, <1>7, TypePartsNext, LogUntouched, MapTypesUntouched DEF MapTypes
<1>9. MapsInverse' /\ LogFits' /\ SyncedInMap'
  BY <1>0, MapUntouched
<1>10. NextAbove' /\ GateFits'
  BY <1>0, <1>1, <1>2, <1>3 DEF KeyInv, NextAbove, GateFits
<1>11. RequestsFit'
  BY <1>0, NobodyBusy
<1> QED BY <1>8, <1>9, <1>10, <1>11 DEF KeyInv

\* A bulk load finds the id map empty, so that its batch is the map.
LEMMA BulkPairs ==
  ASSUME KeyInv, gate = "bulk"
  PROVE  LET P == {<<bulk[i], i - 1>> : i \in 1..Len(bulk)} IN
         /\ P \subseteq Pairs
         /\ \A p, q \in P : p[1] = q[1] <=> p[2] = q[2]
         /\ \A p \in P : p[2] < Len(bulk)
         /\ \A k \in Keys : fwd[k] = NoId
         /\ \A d \in Ids : rev[d] = None
<1> DEFINE P == {<<bulk[i], i - 1>> : i \in 1..Len(bulk)}
<1>1. /\ next = 0 /\ Len(bulk) <= MaxRealId + 1 /\ up = "open"
      /\ \A i, j \in 1..Len(bulk) : bulk[i] = bulk[j] => i = j
  BY DEF KeyInv, GateFits
<1>2. bulk \in Seq(Keys) /\ Len(bulk) \in Nat
  BY DEF KeyInv, TypeOK
<1>3. \A i \in 1..Len(bulk) : bulk[i] \in Keys /\ i - 1 \in Ids /\ i - 1 < Len(bulk)
  BY <1>1, <1>2, KeysAssumption DEF Ids
<1>4. P \subseteq Pairs /\ \A p \in P : p[2] < Len(bulk)
  BY <1>3 DEF Pairs
<1>5. ASSUME NEW p \in P, NEW q \in P PROVE p[1] = q[1] <=> p[2] = q[2]
  <2>1. PICK i \in 1..Len(bulk) : p = <<bulk[i], i - 1>>
    OBVIOUS
  <2>2. PICK j \in 1..Len(bulk) : q = <<bulk[j], j - 1>>
    OBVIOUS
  <2>3. i \in Int /\ j \in Int
    BY <1>2
  <2> QED BY <1>1, <2>1, <2>2, <2>3
<1>6. \A d \in Ids : rev[d] = None
  BY <1>1, KeysAssumption DEF KeyInv, NextAbove, Ids
<1>7. \A k \in Keys : fwd[k] = NoId
  BY <1>6, KeysAssumption DEF KeyInv, MapsInverse, TypeOK
<1> QED BY <1>4, <1>5, <1>6, <1>7

\* The map after a batch of pairs over an empty one is that batch.
LEMMA PutIntoEmpty ==
  ASSUME NEW P \in SUBSET Pairs, \A p, q \in P : p[1] = q[1] <=> p[2] = q[2],
         \A k \in Keys : fwd[k] = NoId, \A d \in Ids : rev[d] = None, PutKeys(P)
  PROVE  /\ fwd' \in [Keys -> Ids \cup {NoId}] /\ rev' \in [Ids -> Keys \cup {None}]
         /\ \A k \in Keys, d \in Ids : fwd'[k] = d <=> <<k, d>> \in P
         /\ \A k \in Keys, d \in Ids : rev'[d] = k <=> <<k, d>> \in P
<1>1. \A k \in Keys, d, e \in Ids : <<k, d>> \in P /\ <<k, e>> \in P => d = e
  BY DEF Pairs
<1>2. \A j, k \in Keys, d \in Ids : <<j, d>> \in P /\ <<k, d>> \in P => j = k
  BY DEF Pairs
<1>3. ASSUME NEW k \in Keys
      PROVE  fwd'[k] \in Ids \cup {NoId} /\ \A d \in Ids : fwd'[k] = d <=> <<k, d>> \in P
  <2>0. fwd'[k] = IF \E d \in Ids : <<k, d>> \in P
                  THEN CHOOSE d \in Ids : <<k, d>> \in P ELSE NoId
    BY DEF PutKeys
  <2>1. CASE \E d \in Ids : <<k, d>> \in P
    <3>1. fwd'[k] \in Ids /\ <<k, fwd'[k]>> \in P
      BY <2>0, <2>1
    <3> QED BY <1>1, <3>1
  <2>2. CASE ~ \E d \in Ids : <<k, d>> \in P
    BY <2>0, <2>2, KeysAssumption DEF Ids, NoId
  <2> QED BY <2>1, <2>2
<1>4. ASSUME NEW d \in Ids
      PROVE  rev'[d] \in Keys \cup {None} /\ \A k \in Keys : rev'[d] = k <=> <<k, d>> \in P
  <2>0. rev'[d] = IF \E k \in Keys : <<k, d>> \in P
                  THEN CHOOSE k \in Keys : <<k, d>> \in P ELSE None
    BY DEF PutKeys
  <2>1. CASE \E k \in Keys : <<k, d>> \in P
    <3>1. rev'[d] \in Keys /\ <<rev'[d], d>> \in P
      BY <2>0, <2>1
    <3> QED BY <1>2, <3>1
  <2>2. CASE ~ \E k \in Keys : <<k, d>> \in P
    BY <2>0, <2>2, KeysAssumption
  <2> QED BY <2>1, <2>2
<1>5. fwd' = [k \in Keys |-> fwd'[k]] /\ rev' = [d \in Ids |-> rev'[d]]
  BY DEF PutKeys
<1> QED BY <1>3, <1>4, <1>5

LEMMA BulkPutKeysKeeps ==
  ASSUME KeyInv, BulkPutKeys
  PROVE  KeyInv'
<1> DEFINE P == {<<bulk[i], i - 1>> : i \in 1..Len(bulk)}
<1>0. /\ gate = "bulk" /\ PutKeys(P) /\ next' = Len(bulk) /\ bulk' = <<>> /\ gate' = "sync"
      /\ UNCHANGED <<up, req, holder, live, entry, ckpt, log, pos, logging, torn>>
  BY DEF BulkPutKeys, NoBulk, index, logs
<1>1. /\ P \subseteq Pairs
      /\ \A p, q \in P : p[1] = q[1] <=> p[2] = q[2]
      /\ \A p \in P : p[2] < Len(bulk)
      /\ \A k \in Keys : fwd[k] = NoId
      /\ \A d \in Ids : rev[d] = None
  BY <1>0, BulkPairs
<1>2. up = "open" /\ \A w \in Writers : req[w].pc = "idle"
  BY <1>0 DEF KeyInv, GateFits
<1>3. wal' = Append(wal, P) /\ synced' = synced
  BY <1>0 DEF PutKeys
<1>4. ReqTypes /\ MapTypes /\ GateTypes
  BY TypeParts DEF KeyInv
<1>5. Len(bulk) \in Nat
  BY <1>4 DEF GateTypes
<1> HIDE DEF P
<1>6. /\ fwd' \in [Keys -> Ids \cup {NoId}] /\ rev' \in [Ids -> Keys \cup {None}]
      /\ \A k \in Keys, d \in Ids : fwd'[k] = d <=> <<k, d>> \in P
      /\ \A k \in Keys, d \in Ids : rev'[d] = k <=> <<k, d>> \in P
  BY <1>0, <1>1, PutIntoEmpty
<1>7. MapsInverse'
  BY <1>6 DEF MapsInverse
<1>8. NextAbove'
  <2>1. ASSUME NEW d \in Ids, rev'[d] # None PROVE d < Len(bulk)
    <3>1. rev'[d] \in Keys
      BY <1>6, <2>1
    <3>2. <<rev'[d], d>> \in P
      BY <1>6, <3>1
    <3> QED BY <1>1, <3>2
  <2> QED BY <1>0, <2>1 DEF NextAbove
<1>9. \A i \in 1..Len(log) : log[i].op # "insert"
  <2> SUFFICES ASSUME NEW i \in 1..Len(log), log[i].op = "insert" PROVE FALSE
    OBVIOUS
  <2>1. log[i].key \in Keys /\ fwd[log[i].key] = log[i].id
    BY <1>2 DEF KeyInv, LogFits, InMap
  <2>2. log[i].id \in Ids
    BY RecordTypes
  <2> QED BY <1>1, <2>1, <2>2, KeysAssumption DEF Ids, NoId
<1>10. LogFits'
  BY <1>0, <1>9 DEF KeyInv, LogFits
<1>11. SyncedInMap'
  <2>1. synced = {}
    BY <1>1, <1>4, KeysAssumption DEF KeyInv, SyncedInMap, MapTypes, Pairs, Ids, NoId
  <2> QED BY <1>3, <2>1 DEF SyncedInMap
<1>12. RequestsFit'
  BY <1>0, <1>2, NobodyBusy
<1>13. GateFits'
  BY <1>0, <1>2 DEF GateFits
<1>14. MapTypes'
  BY <1>0, <1>1, <1>3, <1>4, <1>5, <1>6 DEF MapTypes
<1>15. ReqTypes' /\ GateTypes'
  BY <1>0, <1>4 DEF ReqTypes, GateTypes
<1>16. TypeOK'
  BY <1>0, <1>14, <1>15, TypePartsNext, IndexUntouched, LogUntouched
<1> QED BY <1>7, <1>8, <1>10, <1>11, <1>12, <1>13, <1>16 DEF KeyInv

LEMMA BulkPutKeysFailsKeeps ==
  ASSUME KeyInv, BulkPutKeysFails
  PROVE  KeyInv'
<1>0. /\ gate = "bulk" /\ bulk' = <<>> /\ torn' = TRUE /\ gate' = "free"
      /\ UNCHANGED <<up, req, holder, next, fwd, rev, synced, wal, live, entry, ckpt,
                     log, pos, logging>>
  BY DEF BulkPutKeysFails, NoBulk, idmap, index, logs
<1>1. up = "open" /\ \A w \in Writers : req[w].pc = "idle"
  BY <1>0 DEF KeyInv, GateFits
<1>2. ReqTypes /\ MapTypes /\ GateTypes
  BY TypeParts DEF KeyInv
<1>3. ReqTypes' /\ GateTypes'
  BY <1>0, <1>2 DEF ReqTypes, GateTypes
<1>4. TypeOK'
  BY <1>0, <1>2, <1>3, TypePartsNext, IndexUntouched, LogUntouched, MapTypesUntouched
     DEF MapTypes
<1>5. MapsInverse' /\ LogFits' /\ SyncedInMap'
  BY <1>0, MapUntouched
<1>6. NextAbove' /\ GateFits'
  BY <1>0, <1>1 DEF KeyInv, NextAbove, GateFits
<1> QED BY <1>0, <1>1, <1>4, <1>5, <1>6, NobodyBusy DEF KeyInv

LEMMA CheckpointKeeps ==
  ASSUME KeyInv, Checkpoint
  PROVE  KeyInv'
<1>0. /\ up = "open" /\ gate' = "sync" /\ \A w \in Writers : req[w].pc = "idle"
      /\ UNCHANGED <<up, req, holder, next, fwd, rev, synced, wal, live, entry, ckpt,
                     log, pos, logging, bulk, torn>>
  BY DEF Checkpoint, Exclusive, Idle, NoReq, idmap, index, logs
<1>2. ReqTypes /\ MapTypes /\ GateTypes
  BY TypeParts DEF KeyInv
<1>3. ReqTypes' /\ GateTypes'
  BY <1>0, <1>2 DEF ReqTypes, GateTypes
<1>4. TypeOK'
  BY <1>0, <1>2, <1>3, TypePartsNext, IndexUntouched, LogUntouched, MapTypesUntouched
     DEF MapTypes
<1>5. MapsInverse' /\ LogFits' /\ SyncedInMap'
  BY <1>0, MapUntouched
<1>6. NextAbove' /\ GateFits'
  BY <1>0 DEF KeyInv, NextAbove, GateFits
<1> QED BY <1>0, <1>4, <1>5, <1>6, NobodyBusy DEF KeyInv

LEMMA SyncWALKeeps ==
  ASSUME KeyInv, SyncWAL
  PROVE  KeyInv'
<1>0. /\ gate = "sync" /\ gate' = "meta" /\ wal' = <<>>
      /\ synced' = {p \in Pairs : fwd[p[1]] = p[2]}
      /\ UNCHANGED <<up, req, holder, next, fwd, rev, live, entry, ckpt,
                     log, pos, logging, bulk, torn>>
  BY DEF SyncWAL, index, logs
<1>1. up = "open" /\ \A w \in Writers : req[w].pc = "idle"
  BY <1>0 DEF KeyInv, GateFits
<1>2. ReqTypes /\ MapTypes /\ GateTypes
  BY TypeParts DEF KeyInv
<1>3. ReqTypes' /\ GateTypes' /\ MapTypes'
  BY <1>0, <1>2 DEF ReqTypes, GateTypes, MapTypes
<1>4. TypeOK'
  BY <1>0, <1>3, TypePartsNext, IndexUntouched, LogUntouched
<1>5. MapsInverse' /\ LogFits' /\ SyncedInMap'
  BY <1>0 DEF KeyInv, MapsInverse, LogFits, InMap, SyncedInMap
<1>6. NextAbove' /\ GateFits'
  BY <1>0, <1>1 DEF KeyInv, NextAbove, GateFits
<1> QED BY <1>0, <1>1, <1>4, <1>5, <1>6, NobodyBusy DEF KeyInv

LEMMA WriteMetadataKeeps ==
  ASSUME KeyInv, WriteMetadataFile
  PROVE  KeyInv'
<1>0. /\ gate = "meta" /\ gate' = "free" /\ ckpt' = [live |-> live, entry |-> entry]
      /\ log' = <<>> /\ pos' = 0
      /\ UNCHANGED <<up, req, holder, next, fwd, rev, synced, wal, live, entry, logging, bulk, torn>>
  BY DEF WriteMetadataFile, idmap, index
<1>1. up = "open" /\ \A w \in Writers : req[w].pc = "idle"
  BY <1>0 DEF KeyInv, GateFits
<1>2. ReqTypes /\ MapTypes /\ IndexTypes /\ LogTypes /\ GateTypes
  BY TypeParts DEF KeyInv
<1>3. ReqTypes' /\ GateTypes' /\ LogTypes'
  BY <1>0, <1>2 DEF ReqTypes, GateTypes, LogTypes
<1>4. IndexTypes'
  BY <1>0, <1>2 DEF IndexTypes
<1>5. TypeOK'
  BY <1>0, <1>2, <1>3, <1>4, TypePartsNext, MapTypesUntouched DEF MapTypes
<1>6. LogFits'
  BY <1>0 DEF LogFits
<1>7. MapsInverse' /\ SyncedInMap' /\ NextAbove' /\ GateFits'
  BY <1>0, <1>1 DEF KeyInv, MapsInverse, SyncedInMap, NextAbove, GateFits
<1> QED BY <1>0, <1>1, <1>5, <1>6, <1>7, NobodyBusy DEF KeyInv

\* What a crash and a power loss have in common: nobody holds anything.
LEMMA LostFits ==
  ASSUME KeyInv, Lost, log' \in Seq(Record)
  PROVE  /\ ReqTypes' /\ IndexTypes' /\ LogTypes' /\ GateTypes'
         /\ NextAbove' /\ RequestsFit' /\ GateFits'
<1>0. /\ up' = "down" /\ gate' = "free" /\ bulk' = <<>> /\ pos' = 0
      /\ live' = ckpt.live /\ entry' = ckpt.entry /\ UNCHANGED <<ckpt, logging, torn>>
      /\ req' = [w \in Writers |-> NoReq] /\ holder' = [s \in Shards |-> None]
  BY DEF Lost, NoBulk
<1>1. NoReq \in Request /\ NoReq.pc = "idle"
  BY DEF NoReq, Request
<1>2. IndexTypes /\ LogTypes /\ GateTypes
  BY TypeParts DEF KeyInv
<1>3. ReqTypes'
  BY <1>0, <1>1 DEF ReqTypes
<1>4. IndexTypes'
  BY <1>0, <1>2 DEF IndexTypes
<1>5. LogTypes' /\ GateTypes'
  BY <1>0, <1>2 DEF LogTypes, GateTypes
<1>6. NextAbove' /\ GateFits'
  BY <1>0 DEF NextAbove, GateFits
<1>7. \A w \in Writers : req'[w].pc = "idle"
  BY <1>0, <1>1
<1>8. RequestsFit'
  BY <1>7 DEF RequestsFit, RequestFits
<1> QED BY <1>3, <1>4, <1>5, <1>6, <1>8

LEMMA CrashKeeps ==
  ASSUME KeyInv, Crash
  PROVE  KeyInv'
<1>0. Lost /\ up' = "down" /\ next' = 0 /\ UNCHANGED <<fwd, rev, synced, wal, log>>
  BY DEF Crash, Lost, idmap
<1>1. log' \in Seq(Record) /\ MapTypes'
  BY <1>0, TypeParts DEF KeyInv, LogTypes, MapTypes
<1>2. MapsInverse' /\ SyncedInMap' /\ LogFits'
  BY <1>0 DEF KeyInv, MapsInverse, SyncedInMap, LogFits, InMap
<1> QED BY <1>0, <1>1, <1>2, LostFits, TypePartsNext DEF KeyInv

\* A power loss keeps the fsynced pairs and a prefix of the log.
LEMMA PowerLossMap ==
  ASSUME KeyInv, PowerLoss
  PROVE  /\ \A k \in Keys : fwd'[k] = IF <<k, fwd[k]>> \in synced' THEN fwd[k] ELSE NoId
         /\ \A d \in Ids : rev'[d] = IF <<rev[d], d>> \in synced' THEN rev[d] ELSE None
         /\ \A p \in synced' : p \in Pairs /\ fwd[p[1]] = p[2]
         /\ synced \subseteq synced'
         /\ MapTypes'
<1>1. MapTypes
  BY TypeParts DEF KeyInv
<1>2. PICK n \in 0..Len(wal) :
        synced' = {p \in Pairs : /\ fwd[p[1]] = p[2]
                                 /\ p \in synced \/ \E i \in 1..n : p \in wal[i]}
  BY DEF PowerLoss
<1>3. synced \subseteq synced' /\ synced' \subseteq Pairs
  BY <1>1, <1>2 DEF KeyInv, SyncedInMap, MapTypes
<1>4. \A p \in synced' : p \in Pairs /\ fwd[p[1]] = p[2]
  BY <1>2
<1>5. /\ fwd' = [k \in Keys |-> IF <<k, fwd[k]>> \in synced' THEN fwd[k] ELSE NoId]
      /\ rev' = [d \in Ids |-> IF <<rev[d], d>> \in synced' THEN rev[d] ELSE None]
      /\ wal' = <<>> /\ next' = 0
  BY DEF PowerLoss, Lost
<1>6. MapTypes'
  BY <1>1, <1>3, <1>5 DEF MapTypes
<1> QED BY <1>3, <1>4, <1>5, <1>6

LEMMA PowerLossKeeps ==
  ASSUME KeyInv, PowerLoss
  PROVE  KeyInv'
<1>0. Lost /\ up' = "down"
  BY DEF PowerLoss, Lost
<1>1. /\ \A k \in Keys : fwd'[k] = IF <<k, fwd[k]>> \in synced' THEN fwd[k] ELSE NoId
      /\ \A d \in Ids : rev'[d] = IF <<rev[d], d>> \in synced' THEN rev[d] ELSE None
      /\ \A p \in synced' : p \in Pairs /\ fwd[p[1]] = p[2]
      /\ MapTypes'
  BY PowerLossMap
<1>2. MapTypes /\ LogTypes
  BY TypeParts DEF KeyInv
<1>3. PICK n \in 0..Len(log) : log' = SubSeq(log, 1, n)
  BY DEF PowerLoss
<1>4. n \in Nat /\ n <= Len(log) /\ Len(log) \in Nat
  BY <1>2 DEF LogTypes
<1>5. log' \in Seq(Record) /\ Len(log') = n /\ \A i \in 1..n : log'[i] = log[i] /\ i \in 1..Len(log)
  BY <1>2, <1>3, <1>4 DEF LogTypes
<1>6. \A p \in synced' : fwd[p[1]] = p[2] /\ rev[p[2]] = p[1] /\ p = <<p[1], p[2]>>
                         /\ p[1] \in Keys /\ p[2] \in Ids
  <2> SUFFICES ASSUME NEW p \in synced'
               PROVE  /\ fwd[p[1]] = p[2] /\ rev[p[2]] = p[1] /\ p = <<p[1], p[2]>>
                      /\ p[1] \in Keys /\ p[2] \in Ids
    OBVIOUS
  <2>1. fwd[p[1]] = p[2] /\ p = <<p[1], p[2]>> /\ p[1] \in Keys /\ p[2] \in Ids
    BY <1>1 DEF Pairs
  <2>2. fwd[p[1]] # NoId
    BY <2>1 DEF Ids, NoId
  <2> QED BY <2>1, <2>2 DEF KeyInv, MapsInverse
<1>7. SyncedInMap'
  BY <1>1, <1>6 DEF SyncedInMap
<1>8. MapsInverse'
  <2>1. ASSUME NEW k \in Keys, fwd'[k] # NoId PROVE rev'[fwd'[k]] = k
    <3>1. <<k, fwd[k]>> \in synced' /\ fwd'[k] = fwd[k]
      BY <1>1, <2>1
    <3>2. fwd[k] \in Ids /\ rev[fwd[k]] = k
      BY <1>6, <3>1
    <3> QED BY <1>1, <3>1, <3>2
  <2>2. ASSUME NEW d \in Ids, rev'[d] # None PROVE fwd'[rev'[d]] = d
    <3>1. <<rev[d], d>> \in synced' /\ rev'[d] = rev[d]
      BY <1>1, <2>2
    <3>2. rev[d] \in Keys /\ fwd[rev[d]] = d
      BY <1>6, <3>1
    <3> QED BY <1>1, <3>1, <3>2
  <2> QED BY <2>1, <2>2 DEF MapsInverse
<1>9. LogFits'
  <2>1. ASSUME NEW i \in 1..Len(log'), log'[i].op = "insert"
        PROVE  /\ log'[i].key \in Keys
               /\ fwd'[log'[i].key] \in {NoId, log'[i].id}
               /\ rev'[log'[i].id] \in {None, log'[i].key}
               /\ ~InMap(i)'
    <3>1. i \in 1..Len(log) /\ log'[i] = log[i]
      BY <1>5
    <3>2. log[i].id \in Ids
      BY <3>1, RecordTypes
    <3>3. /\ log[i].key \in Keys
          /\ fwd[log[i].key] \in {NoId, log[i].id}
          /\ rev[log[i].id] \in {None, log[i].key}
      BY <2>1, <3>1 DEF KeyInv, LogFits
    <3>4. ~InMap(i)'
      BY <1>0 DEF InMap
    <3> QED BY <1>1, <3>1, <3>2, <3>3, <3>4
  <2>2. \A i \in 1..Len(log') : log'[i].op = "delete" => log'[i].key = None
    BY <1>5 DEF KeyInv, LogFits
  <2>3. \A i, j \in 1..Len(log') : log'[i].op = "insert" /\ log'[j].op = "insert" =>
          (log'[i].key = log'[j].key <=> log'[i].id = log'[j].id)
    BY <1>5 DEF KeyInv, LogFits
  <2> QED BY <2>1, <2>2, <2>3 DEF LogFits
<1> QED BY <1>0, <1>1, <1>5, <1>7, <1>8, <1>9, LostFits, TypePartsNext DEF KeyInv

LEMMA ReopenKeeps ==
  ASSUME KeyInv, Reopen
  PROVE  KeyInv'
<1>0. /\ up = "down" /\ up' = "replay" /\ next' = MaxMappedId /\ logging' \in BOOLEAN
      /\ UNCHANGED <<req, holder, fwd, rev, synced, wal, live, entry, ckpt, log, pos, gate, bulk, torn>>
  BY DEF Reopen, idmap, index
<1>1. ReqTypes /\ MapTypes /\ LogTypes /\ GateTypes
  BY TypeParts DEF KeyInv
<1>2. MaxMappedId \in Nat /\ \A d \in Ids : rev[d] # None => d < MaxMappedId
  BY <1>1, MaxAbove DEF MapTypes
<1>3. ReqTypes' /\ LogTypes' /\ GateTypes' /\ MapTypes'
  BY <1>0, <1>1, <1>2 DEF ReqTypes, LogTypes, GateTypes, MapTypes
<1>4. TypeOK'
  BY <1>0, <1>3, TypePartsNext, IndexUntouched
<1>5. pos = 0 /\ gate = "free" /\ \A w \in Writers : req[w].pc = "idle"
  BY <1>0, <1>1 DEF KeyInv, GateFits, RequestsFit, RequestFits, GateTypes
<1>6. \A i \in 1..Len(log) : ~InMap(i)'
  BY <1>0, <1>1, <1>5 DEF InMap, LogTypes
<1>7. LogFits'
  BY <1>0, <1>6 DEF KeyInv, LogFits
<1>8. MapsInverse' /\ SyncedInMap'
  BY <1>0 DEF KeyInv, MapsInverse, SyncedInMap
<1>9. NextAbove' /\ GateFits'
  BY <1>0, <1>2, <1>5 DEF NextAbove, GateFits
<1> QED BY <1>0, <1>4, <1>5, <1>7, <1>8, <1>9, NobodyBusy DEF KeyInv

\* The record to be replayed next agrees with the id map.
LEMMA ReplayedPair ==
  ASSUME KeyInv, up = "replay", pos < Len(log), log[pos + 1].op = "insert"
  PROVE  /\ log[pos + 1].key \in Keys /\ log[pos + 1].id \in Ids
         /\ fwd[log[pos + 1].key] \in {NoId, log[pos + 1].id}
         /\ rev[log[pos + 1].id] \in {None, log[pos + 1].key}
         /\ pos + 1 \in 1..Len(log)
<1>1. pos + 1 \in 1..Len(log)
  BY DEF KeyInv, TypeOK
<1>2. log[pos + 1].id \in Ids
  BY <1>1, RecordTypes
<1> QED BY <1>1, <1>2 DEF KeyInv, LogFits

LEMMA ReplayRecordKeeps ==
  ASSUME KeyInv, ReplayRecord
  PROVE  KeyInv'
<1> DEFINE r == log[pos + 1]
<1>0. /\ up = "replay" /\ pos < Len(log) /\ pos' = pos + 1
      /\ UNCHANGED <<up, req, holder, ckpt, log, logging, gate, bulk, torn>>
  BY DEF ReplayRecord
<1>1. ReqTypes /\ MapTypes /\ IndexTypes /\ LogTypes /\ GateTypes
  BY TypeParts DEF KeyInv
<1>2. pos + 1 \in 1..Len(log) /\ pos \in Nat /\ Len(log) \in Nat
  BY <1>0, <1>1 DEF LogTypes
<1>3. r \in Record /\ r.id \in Ids /\ r.key \in Keys \cup {None}
  BY <1>2, RecordTypes DEF Record
<1>4. \A w \in Writers : req[w].pc = "idle"
  BY <1>0 DEF KeyInv, RequestsFit, RequestFits
<1>5. gate = "free"
  BY <1>0 DEF KeyInv, GateFits
<1>6. IndexTypes'
  <2>1. CASE r.aborted
    BY <1>0, <1>1, <2>1 DEF ReplayRecord, index, IndexTypes
  <2>2. CASE ~r.aborted
    <3>1. live' = [live EXCEPT ![r.id] = r.key] /\ entry' = TRUE
      BY <2>2 DEF ReplayRecord
    <3> QED BY <1>0, <1>1, <1>3, <3>1 DEF IndexTypes
  <2> QED BY <2>1, <2>2
<1>7. ReqTypes' /\ LogTypes' /\ GateTypes'
  BY <1>0, <1>1, <1>2 DEF ReqTypes, LogTypes, GateTypes
<1>8. GateFits' /\ RequestsFit'
  BY <1>0, <1>4, <1>5, NobodyBusy DEF GateFits
<1>9. \A i \in 1..Len(log) : InMap(i)' => InMap(i) \/ i = pos + 1
  BY <1>0, <1>2 DEF InMap
<1>10. MapTypes' /\ MapsInverse' /\ LogFits' /\ NextAbove' /\ SyncedInMap'
  <2>1. CASE r.op # "insert"
    <3>1. UNCHANGED <<fwd, rev, synced, wal, next>>
      BY <2>1 DEF ReplayRecord, idmap
    <3>2. LogFits'
      BY <1>0, <1>9, <2>1, <3>1 DEF KeyInv, LogFits
    <3> QED BY <1>0, <1>1, <3>1, <3>2
         DEF KeyInv, MapTypes, MapsInverse, NextAbove, SyncedInMap
  <2>2. CASE r.op = "insert"
    <3>1. PutKeys({<<r.key, r.id>>}) /\ next' = observeDenseId(r.id)
      BY <2>2 DEF ReplayRecord
    <3>2. /\ r.key \in Keys /\ fwd[r.key] \in {NoId, r.id} /\ rev[r.id] \in {None, r.key}
      BY <1>0, <2>2, ReplayedPair
    <3>3. fwd' = [fwd EXCEPT ![r.key] = r.id] /\ rev' = [rev EXCEPT ![r.id] = r.key]
      BY <1>1, <1>3, <3>1, <3>2, PutOne DEF MapTypes
    <3>4. wal' = Append(wal, {<<r.key, r.id>>}) /\ synced' = synced
      BY <3>1 DEF PutKeys
    <3>5. \A i \in 1..Len(log) : log[i].op = "insert" =>
            (log[i].key = r.key <=> log[i].id = r.id)
      BY <1>2, <2>2 DEF KeyInv, LogFits
    <3> HIDE DEF r
    <3>6. next' \in Nat /\ next <= next' /\ r.id < next'
      BY <1>1, <1>3, <3>1, KeysAssumption DEF observeDenseId, MapTypes, Ids
    <3>7. MapTypes'
      BY <1>1, <1>3, <3>2, <3>3, <3>4, <3>6 DEF MapTypes, Pairs
    <3>8. MapsInverse'
      BY <1>1, <1>3, <3>2, <3>3, PutKeepsInverse DEF KeyInv, MapTypes
    <3>9. NextAbove'
      BY <1>0, <1>1, <1>3, <3>2, <3>3, <3>6, KeysAssumption DEF KeyInv, NextAbove, MapTypes, Ids
    <3>10. SyncedInMap'
      <4> SUFFICES ASSUME NEW p \in synced PROVE fwd'[p[1]] = p[2]
        BY <3>4 DEF SyncedInMap
      <4>1. p[1] \in Keys /\ p[2] \in Ids /\ fwd[p[1]] = p[2]
        BY <1>1 DEF KeyInv, SyncedInMap, MapTypes, Pairs
      <4>2. p[2] # NoId
        BY <4>1 DEF Ids, NoId
      <4> QED BY <1>1, <3>2, <3>3, <4>1, <4>2 DEF MapTypes
    <3>11. LogFits'
      <4>1. ASSUME NEW i \in 1..Len(log), log[i].op = "insert"
            PROVE  /\ log[i].key \in Keys
                   /\ fwd'[log[i].key] \in {NoId, log[i].id}
                   /\ rev'[log[i].id] \in {None, log[i].key}
                   /\ InMap(i)' => fwd'[log[i].key] = log[i].id
        <5>1. log[i].id \in Ids
          BY RecordTypes
        <5>2. /\ log[i].key \in Keys
              /\ fwd[log[i].key] \in {NoId, log[i].id}
              /\ rev[log[i].id] \in {None, log[i].key}
              /\ InMap(i) => fwd[log[i].key] = log[i].id
          BY <4>1 DEF KeyInv, LogFits
        <5>3. log[i].key = r.key <=> log[i].id = r.id
          BY <3>5, <4>1
        <5>4. InMap(i)' => InMap(i) \/ log[i] = r
          BY <1>9 DEF r
        <5> QED BY <1>1, <1>3, <3>2, <3>3, <5>1, <5>2, <5>3, <5>4 DEF MapTypes
      <4> QED BY <1>0, <4>1 DEF KeyInv, LogFits
    <3> QED BY <3>7, <3>8, <3>9, <3>10, <3>11
  <2> QED BY <2>1, <2>2
<1> QED BY <1>6, <1>7, <1>8, <1>10, TypePartsNext DEF KeyInv

LEMMA FinishRecoveryKeeps ==
  ASSUME KeyInv, FinishRecovery
  PROVE  KeyInv'
<1>0. /\ up = "replay" /\ pos = Len(log) /\ up' = "open" /\ gate' \in {"free", "sync"}
      /\ UNCHANGED <<req, holder, next, fwd, rev, synced, wal, live, entry, ckpt,
                     log, pos, logging, bulk, torn>>
  BY DEF FinishRecovery, idmap, index, logs
<1>1. ReqTypes /\ MapTypes /\ LogTypes /\ GateTypes
  BY TypeParts DEF KeyInv
<1>2. \A w \in Writers : req[w].pc = "idle"
  BY <1>0 DEF KeyInv, RequestsFit, RequestFits
<1>3. ReqTypes' /\ GateTypes'
  BY <1>0, <1>1 DEF ReqTypes, GateTypes
<1>4. TypeOK'
  BY <1>0, <1>1, <1>3, TypePartsNext, IndexUntouched, LogUntouched, MapTypesUntouched
     DEF MapTypes
<1>5. \A i \in 1..Len(log) : InMap(i)
  BY <1>0, <1>1 DEF InMap, LogTypes
<1>6. LogFits'
  BY <1>0, <1>5 DEF KeyInv, LogFits
<1>7. MapsInverse' /\ SyncedInMap' /\ NextAbove' /\ GateFits'
  BY <1>0, <1>2 DEF KeyInv, MapsInverse, SyncedInMap, NextAbove, GateFits
<1> QED BY <1>0, <1>2, <1>4, <1>6, <1>7, NobodyBusy DEF KeyInv

\* A store starts with an empty id map.
LEMMA InitKeyInv == Init => KeyInv
<1> SUFFICES ASSUME Init PROVE KeyInv
  OBVIOUS
<1> USE DEF Init
<1>1. NoReq \in Request /\ NoReq.pc = "idle"
  BY DEF NoReq, Request
<1>2. ReqTypes
  BY <1>1 DEF ReqTypes
<1>0. /\ next = 0 /\ fwd = [k \in Keys |-> NoId] /\ rev = [d \in Ids |-> None]
      /\ synced = {} /\ wal = <<>> /\ live = [d \in Ids |-> None] /\ entry = FALSE
      /\ ckpt = [live |-> live, entry |-> FALSE]
      /\ log = <<>> /\ pos = 0 /\ logging \in BOOLEAN
      /\ up = "open" /\ gate = "free" /\ bulk = <<>> /\ torn = FALSE
  BY DEF NoBulk
<1>3. MapTypes /\ IndexTypes /\ LogTypes /\ GateTypes
  <2> HIDE DEF Init
  <2>1. MapTypes
    BY <1>0 DEF MapTypes
  <2>2. IndexTypes
    BY <1>0 DEF IndexTypes
  <2>3. LogTypes
    BY <1>0 DEF LogTypes
  <2>4. torn \in BOOLEAN
    BY <1>0
  <2>5. bulk \in Seq(Keys) /\ up \in {"down", "replay", "open"}
        /\ gate \in {"free", "bulk", "sync", "meta"}
    BY <1>0
  <2> QED BY <2>1, <2>2, <2>3, <2>4, <2>5 DEF GateTypes
<1>5. \A w \in Writers : req[w].pc = "idle"
  BY <1>1
<1>6. RequestsFit /\ GateFits
  BY <1>5 DEF RequestsFit, RequestFits, GateFits
<1>7. MapsInverse /\ LogFits /\ NextAbove /\ SyncedInMap
  BY DEF MapsInverse, LogFits, NextAbove, SyncedInMap
<1> QED BY <1>2, <1>3, <1>6, <1>7, TypeParts DEF KeyInv

LEMMA StutterKeeps ==
  ASSUME KeyInv, UNCHANGED vars
  PROVE  KeyInv'
<1>0. UNCHANGED <<up, req, holder, next, fwd, rev, synced, wal, live, entry, ckpt, log, pos,
                  logging, gate, bulk, torn>>
  BY DEF vars, idmap, index, logs
<1>1. ReqTypes' /\ MapTypes'
  BY <1>0, TypeParts DEF KeyInv, ReqTypes, MapTypes
<1>2. TypeOK'
  BY <1>0, <1>1, TypePartsNext, IndexUntouched, LogUntouched, GateUntouched
<1>3. MapsInverse' /\ LogFits' /\ SyncedInMap'
  BY <1>0, MapUntouched
<1>4. NextAbove' /\ GateFits'
  BY <1>0 DEF KeyInv, NextAbove, GateFits
<1>5. RequestsFit'
  BY <1>0 DEF KeyInv, RequestsFit, RequestFits
<1> QED BY <1>2, <1>3, <1>4, <1>5 DEF KeyInv

LEMMA NextKeeps ==
  ASSUME KeyInv, [Next]_vars
  PROVE  KeyInv'
<1>1. ASSUME NEW w \in Writers,
             \/ Call(w) \/ LookupKey(w) \/ AllocateId(w) \/ PutKey(w) \/ CallFails(w)
             \/ LogOp(w) \/ DeleteAbsent(w) \/ Apply(w) \/ ApplyFails(w)
      PROVE  KeyInv'
  BY <1>1, CallKeeps, LookupKeeps, AllocateKeeps, PutKeyKeeps, CallFailsKeeps, LogOpKeeps,
     DeleteAbsentKeeps, ApplyKeeps, ApplyFailsKeeps
<1>2. CASE \/ BulkBuild \/ BulkPutKeys \/ BulkPutKeysFails
           \/ Checkpoint \/ SyncWAL \/ WriteMetadataFile
  BY <1>2, BulkBuildKeeps, BulkPutKeysKeeps, BulkPutKeysFailsKeeps, CheckpointKeeps,
     SyncWALKeeps, WriteMetadataKeeps
<1>3. CASE Crash \/ PowerLoss \/ Reopen \/ ReplayRecord \/ FinishRecovery
  BY <1>3, CrashKeeps, PowerLossKeeps, ReopenKeeps, ReplayRecordKeeps, FinishRecoveryKeeps
<1> QED BY <1>1, <1>2, <1>3, StutterKeeps DEF Next

\* Every state of the keyed store satisfies the inductive invariant: the types,
\* the id map, the log, the counter and what each resolveId call has learnt
\* all fit together.
THEOREM KeyInvariant == Spec => []KeyInv
BY InitKeyInv, NextKeeps, PTL DEF Spec

\* No two keys ever share a dense id and no key ever has two, whatever the
\* interleaving of resolveId calls, bulk loads, crashes, power losses and
\* replays (resolveId, PutKeys, replayRecord).
THEOREM KeysKeepTheirIds == Spec => []MapsInverse
<1>1. KeyInv => MapsInverse
  BY DEF KeyInv
<1> QED BY <1>1, KeyInvariant, PTL

(***************************************************************************)
(* The index agrees with the id map                                        *)
(***************************************************************************)

LEMMA LiveUntouched ==
  ASSUME LiveFits, UNCHANGED <<up, gate, live, ckpt, synced, rev, bulk, torn>>
  PROVE  LiveFits'
BY DEF LiveFits

\* A row of the id map is the row of the pair it belongs to.
LEMMA SyncedRow ==
  ASSUME KeyInv, NEW k \in Keys, NEW d \in Ids, <<k, d>> \in synced
  PROVE  fwd[k] = d /\ rev[d] = k
<1>1. fwd[k] = d
  BY DEF KeyInv, SyncedInMap
<1>2. fwd[k] # NoId
  BY <1>1 DEF Ids, NoId
<1> QED BY <1>1, <1>2 DEF KeyInv, MapsInverse

LEMMA PutKeyLive ==
  ASSUME KeyInv, LiveFits, NEW w \in Writers, PutKey(w)
  PROVE  LiveFits'
<1>0. /\ req[w].pc = "put" /\ PutKeys({<<req[w].key, req[w].id>>})
      /\ UNCHANGED <<up, gate, live, ckpt, bulk, torn>>
  BY DEF PutKey, index
<1>1. /\ req[w].key \in Keys /\ req[w].id \in Ids /\ up = "open" /\ gate = "free"
      /\ rev[req[w].id] = None
  BY <1>0 DEF KeyInv, RequestsFit, RequestFits
<1>2. MapTypes
  BY TypeParts DEF KeyInv
<1>3. rev' = [rev EXCEPT ![req[w].id] = req[w].key] /\ synced' = synced
  BY <1>0, <1>1, <1>2, PutOne DEF MapTypes, PutKeys
<1> QED BY <1>0, <1>1, <1>2, <1>3, KeysAssumption DEF LiveFits, MapTypes

LEMMA ApplyLive ==
  ASSUME KeyInv, LiveFits, NEW w \in Writers, Apply(w)
  PROVE  LiveFits'
<1> DEFINE key == IF req[w].op = "insert" THEN req[w].key ELSE None
<1>0. /\ req[w].pc = "apply" /\ live' = [live EXCEPT ![req[w].id] = key]
      /\ UNCHANGED <<up, gate, rev, synced, ckpt, bulk, torn>>
  BY DEF Apply, idmap
<1>1. /\ req[w].key \in Keys /\ req[w].id \in Ids /\ up = "open" /\ gate = "free"
      /\ fwd[req[w].key] = req[w].id
  BY <1>0 DEF KeyInv, RequestsFit, RequestFits
<1>2. rev[req[w].id] = req[w].key
  <2>1. fwd[req[w].key] # NoId
    BY <1>1 DEF Ids, NoId
  <2> QED BY <1>1, <2>1 DEF KeyInv, MapsInverse
<1>3. key = None \/ key = rev[req[w].id]
  BY <1>2
<1>4. live \in [Ids -> Keys \cup {None}]
  BY TypeParts DEF KeyInv, IndexTypes
<1> HIDE DEF key
<1> QED BY <1>0, <1>1, <1>3, <1>4 DEF LiveFits

LEMMA BulkBuildLive ==
  ASSUME KeyInv, LiveFits, BulkBuild
  PROVE  LiveFits'
<1>0. /\ up = "open" /\ gate = "free" /\ next = 0 /\ gate' = "bulk"
      /\ UNCHANGED <<up, rev, synced, ckpt, torn>>
  BY DEF BulkBuild, Exclusive, idmap
<1>1. PICK n \in 1..(MaxRealId + 1) : \E f \in [1..n -> Keys] :
        bulk' = f /\ live' = [d \in Ids |-> IF d < n THEN f[d + 1] ELSE live[d]]
  BY DEF BulkBuild
<1>2. PICK f \in [1..n -> Keys] :
        bulk' = f /\ live' = [d \in Ids |-> IF d < n THEN f[d + 1] ELSE live[d]]
  BY <1>1
<1>3. n \in Nat
  BY KeysAssumption
<1>4. Len(bulk') = n
  BY <1>2, <1>3
<1>5. SUFFICES ASSUME ~torn PROVE LiveFits'
  BY <1>0 DEF LiveFits
<1>6. \A d \in Ids : rev[d] = None
  BY <1>0, KeysAssumption DEF KeyInv, NextAbove, Ids
<1>7. \A d \in Ids : live[d] = None
  BY <1>0, <1>5, <1>6 DEF LiveFits
<1>8. \A d \in Ids : live'[d] # None => d < Len(bulk') /\ live'[d] = bulk'[d + 1]
  BY <1>2, <1>4, <1>7
<1> QED BY <1>0, <1>5, <1>8 DEF LiveFits

LEMMA BulkPutKeysLive ==
  ASSUME KeyInv, LiveFits, BulkPutKeys
  PROVE  LiveFits'
<1> DEFINE P == {<<bulk[i], i - 1>> : i \in 1..Len(bulk)}
<1>0. /\ gate = "bulk" /\ PutKeys(P) /\ gate' = "sync"
      /\ UNCHANGED <<up, live, ckpt, torn>>
  BY DEF BulkPutKeys, index
<1>1. /\ P \subseteq Pairs
      /\ \A p, q \in P : p[1] = q[1] <=> p[2] = q[2]
      /\ \A k \in Keys : fwd[k] = NoId
      /\ \A d \in Ids : rev[d] = None
  BY <1>0, BulkPairs
<1>2. \A k \in Keys, d \in Ids : rev'[d] = k <=> <<k, d>> \in P
  <2> HIDE DEF P
  <2> QED BY <1>0, <1>1, PutIntoEmpty
<1>3. synced' = synced /\ up = "open"
  BY <1>0 DEF PutKeys, KeyInv, GateFits
<1>4. bulk \in Seq(Keys) /\ Len(bulk) \in Nat
  BY TypeParts DEF KeyInv, GateTypes
<1>5. ASSUME ~torn, NEW d \in Ids, live[d] # None PROVE rev'[d] = live[d]
  <2>1. d < Len(bulk) /\ live[d] = bulk[d + 1]
    BY <1>0, <1>5 DEF LiveFits
  <2>2. d + 1 \in 1..Len(bulk) /\ (d + 1) - 1 = d
    BY <1>4, <2>1, KeysAssumption DEF Ids
  <2>3. <<live[d], d>> \in P /\ live[d] \in Keys
    BY <1>4, <2>1, <2>2
  <2> QED BY <1>2, <2>3
<1> QED BY <1>0, <1>3, <1>5 DEF LiveFits

LEMMA BulkPutKeysFailsLive ==
  ASSUME BulkPutKeysFails
  PROVE  LiveFits'
BY DEF BulkPutKeysFails, LiveFits

LEMMA CheckpointLive ==
  ASSUME KeyInv, LiveFits, Checkpoint
  PROVE  LiveFits'
BY DEF Checkpoint, Exclusive, LiveFits, idmap, index

LEMMA SyncWALLive ==
  ASSUME KeyInv, LiveFits, SyncWAL
  PROVE  LiveFits'
<1>0. /\ gate = "sync" /\ gate' = "meta" /\ synced' = {p \in Pairs : fwd[p[1]] = p[2]}
      /\ UNCHANGED <<up, rev, live, ckpt, torn>>
  BY DEF SyncWAL, index
<1>1. MapTypes
  BY TypeParts DEF KeyInv
<1>2. synced \subseteq synced'
  BY <1>0, <1>1 DEF KeyInv, SyncedInMap, MapTypes
<1>3. up = "open"
  BY <1>0 DEF KeyInv, GateFits
<1>4. ASSUME NEW d \in Ids, rev[d] # None PROVE <<rev[d], d>> \in synced'
  <2>1. rev[d] \in Keys /\ fwd[rev[d]] = d
    BY <1>1, <1>4 DEF KeyInv, MapsInverse, MapTypes
  <2> QED BY <1>0, <2>1 DEF Pairs
<1> QED BY <1>0, <1>2, <1>3, <1>4 DEF LiveFits

LEMMA WriteMetadataLive ==
  ASSUME KeyInv, LiveFits, WriteMetadataFile
  PROVE  LiveFits'
<1>0. /\ gate = "meta" /\ gate' = "free" /\ ckpt'.live = live
      /\ UNCHANGED <<up, rev, synced, live, torn>>
  BY DEF WriteMetadataFile, idmap, index
<1>1. up = "open"
  BY <1>0 DEF KeyInv, GateFits
<1> QED BY <1>0, <1>1 DEF LiveFits

LEMMA LossLive ==
  ASSUME KeyInv, LiveFits, Crash \/ PowerLoss
  PROVE  LiveFits'
<1>1. /\ up' = "down" /\ gate' = "free" /\ live' = ckpt.live /\ ckpt' = ckpt /\ torn' = torn
  BY DEF Crash, PowerLoss, Lost
<1>2. synced \subseteq synced'
  BY PowerLossMap DEF Crash, idmap
<1> QED BY <1>1, <1>2 DEF LiveFits

LEMMA ReopenLive ==
  ASSUME KeyInv, LiveFits, Reopen
  PROVE  LiveFits'
<1>0. /\ up = "down" /\ up' = "replay" /\ UNCHANGED <<rev, synced, live, ckpt, gate, torn>>
  BY DEF Reopen, idmap, index
<1>1. gate = "free"
  BY <1>0, TypeParts DEF KeyInv, GateFits, GateTypes
<1>2. ASSUME ~torn, NEW d \in Ids, live[d] # None PROVE rev[d] = live[d]
  <2>1. live = ckpt.live /\ <<live[d], d>> \in synced
    BY <1>0, <1>2 DEF LiveFits
  <2>2. live[d] \in Keys
    BY <1>2, TypeParts DEF KeyInv, IndexTypes
  <2> QED BY <2>1, <2>2, SyncedRow
<1> QED BY <1>0, <1>1, <1>2 DEF LiveFits

LEMMA ReplayRecordLive ==
  ASSUME KeyInv, LiveFits, ReplayRecord
  PROVE  LiveFits'
<1> DEFINE r == log[pos + 1]
<1>0. /\ up = "replay" /\ pos < Len(log) /\ UNCHANGED <<up, ckpt, gate, torn>>
  BY DEF ReplayRecord
<1>1. MapTypes /\ IndexTypes /\ LogTypes
  BY TypeParts DEF KeyInv
<1>2. pos + 1 \in 1..Len(log)
  BY <1>0, <1>1 DEF LogTypes
<1>3. r \in Record /\ r.id \in Ids /\ r.key \in Keys \cup {None} /\ r.op \in {"insert", "delete"}
  BY <1>2, RecordTypes DEF Record
<1>4. gate = "free"
  BY <1>0 DEF KeyInv, GateFits
<1>5. live' = live \/ live' = [live EXCEPT ![r.id] = r.key]
  BY DEF ReplayRecord, index
<1>6. synced' = synced
  BY DEF ReplayRecord, PutKeys, idmap
<1>7. CASE r.op = "insert"
  <2>1. r.key \in Keys /\ rev[r.id] \in {None, r.key}
    BY <1>0, <1>7, ReplayedPair
  <2>2. PutKeys({<<r.key, r.id>>})
    BY <1>7 DEF ReplayRecord
  <2>3. rev' = [rev EXCEPT ![r.id] = r.key]
    BY <1>1, <1>3, <2>1, <2>2, PutOne DEF MapTypes
  <2> HIDE DEF r
  <2>4. ASSUME ~torn, NEW d \in Ids, live'[d] # None PROVE rev'[d] = live'[d]
    <3>1. live[d] # None => rev[d] = live[d]
      BY <1>0, <1>4, <2>4 DEF LiveFits
    <3> QED BY <1>1, <1>3, <1>5, <2>1, <2>3, <2>4, <3>1, KeysAssumption DEF MapTypes, IndexTypes
  <2> QED BY <1>0, <1>4, <1>6, <2>4 DEF LiveFits
<1>8. CASE r.op = "delete"
  <2>1. r.key = None
    BY <1>2, <1>8 DEF KeyInv, LogFits
  <2>2. rev' = rev
    BY <1>8 DEF ReplayRecord, idmap
  <2> HIDE DEF r
  <2>3. ASSUME ~torn, NEW d \in Ids, live'[d] # None PROVE rev'[d] = live'[d]
    <3>1. live[d] # None => rev[d] = live[d]
      BY <1>0, <1>4, <2>3 DEF LiveFits
    <3> QED BY <1>1, <1>3, <1>5, <2>1, <2>2, <2>3, <3>1 DEF IndexTypes
  <2> QED BY <1>0, <1>4, <1>6, <2>3 DEF LiveFits
<1> QED BY <1>3, <1>7, <1>8

LEMMA FinishRecoveryLive ==
  ASSUME KeyInv, LiveFits, FinishRecovery
  PROVE  LiveFits'
<1>0. /\ up = "replay" /\ up' = "open" /\ gate' \in {"free", "sync"}
      /\ UNCHANGED <<rev, synced, live, ckpt, torn>>
  BY DEF FinishRecovery, idmap, index
<1>1. gate = "free"
  BY <1>0 DEF KeyInv, GateFits
<1> QED BY <1>0, <1>1 DEF LiveFits

LEMMA NextLive ==
  ASSUME KeyInv, LiveFits, [Next]_vars
  PROVE  LiveFits'
<1> USE DEF idmap, index, logs
<1>1. ASSUME NEW w \in Writers, Call(w) \/ LookupKey(w) \/ AllocateId(w)
      PROVE  LiveFits'
  BY <1>1, LiveUntouched DEF Call, LookupKey, AllocateId
<1>2. ASSUME NEW w \in Writers, CallFails(w) \/ LogOp(w) \/ DeleteAbsent(w) \/ ApplyFails(w)
      PROVE  LiveFits'
  BY <1>2, LiveUntouched DEF CallFails, LogOp, DeleteAbsent, ApplyFails
<1>3. ASSUME NEW w \in Writers, PutKey(w) \/ Apply(w)
      PROVE  LiveFits'
  BY <1>3, PutKeyLive, ApplyLive
<1>4. CASE \/ BulkBuild \/ BulkPutKeys \/ BulkPutKeysFails
           \/ Checkpoint \/ SyncWAL \/ WriteMetadataFile
  BY <1>4, BulkBuildLive, BulkPutKeysLive, BulkPutKeysFailsLive, CheckpointLive,
     SyncWALLive, WriteMetadataLive
<1>5. CASE Crash \/ PowerLoss \/ Reopen \/ ReplayRecord \/ FinishRecovery
  BY <1>5, LossLive, ReopenLive, ReplayRecordLive, FinishRecoveryLive
<1>6. CASE UNCHANGED vars
  BY <1>6, LiveUntouched DEF vars
<1> QED BY <1>1, <1>2, <1>3, <1>4, <1>5, <1>6 DEF Next

\* What the two invariants say of a search.
LEMMA HitsFollow ==
  ASSUME KeyInv, LiveFits
  PROVE  HitsAreTheLiveKeys
<1> SUFFICES ASSUME up = "open", gate # "bulk", ~torn
             PROVE  /\ toPointHits({d \in Ids : live[d] # None})
                         = {k \in Keys : \E d \in Ids : live[d] = k}
                    /\ \A d \in Ids : live[d] # None => rev[d] = live[d]
  BY DEF HitsAreTheLiveKeys
<1>1. \A d \in Ids : live[d] # None => rev[d] = live[d]
  BY DEF LiveFits
<1>2. live \in [Ids -> Keys \cup {None}]
  BY TypeParts DEF KeyInv, IndexTypes
<1>3. toPointHits({d \in Ids : live[d] # None}) \subseteq {k \in Keys : \E d \in Ids : live[d] = k}
  BY <1>1, <1>2 DEF toPointHits
<1>4. {k \in Keys : \E d \in Ids : live[d] = k} \subseteq toPointHits({d \in Ids : live[d] # None})
  <2> SUFFICES ASSUME NEW k \in Keys, NEW d \in Ids, live[d] = k
               PROVE  k \in toPointHits({e \in Ids : live[e] # None})
    OBVIOUS
  <2>1. k # None
    BY KeysAssumption
  <2>2. rev[d] = k
    BY <1>1, <2>1
  <2> QED BY <2>1, <2>2 DEF toPointHits
<1> QED BY <1>1, <1>3, <1>4

\* A search of an open store returns exactly the keys whose vectors are live,
\* whatever crashes, power losses and replays came before: the id map is
\* fsynced before the checkpoint whose vectors need it (checkpointLocked), and
\* replay restores the keys of the logged inserts (replayRecord).
THEOREM SearchesReturnTheLiveKeys == Spec => []HitsAreTheLiveKeys
<1>1. Init => LiveFits
  BY DEF Init, LiveFits
<1>2. KeyInv /\ LiveFits => HitsAreTheLiveKeys
  BY HitsFollow
<1>3. KeyInv /\ LiveFits /\ [Next]_vars => LiveFits'
  BY NextLive
<1> QED BY <1>1, <1>2, <1>3, KeyInvariant, PTL DEF Spec

(***************************************************************************)
(* The store implements KeyMap                                             *)
(***************************************************************************)

\* Key k has id d: in the id map, or in a record of the log.
Backed(k, d) == \/ fwd[k] = d
                \/ \E i \in 1..Len(log) : log[i].op = "insert" /\ log[i].key = k /\ log[i].id = d

LEMMA AbsMapBacked ==
  ASSUME KeyInv
  PROVE  /\ AbsMap \in [Keys -> Ids \cup {NoId}]
         /\ \A k \in Keys, d \in Ids : AbsMap[k] = d <=> Backed(k, d)
<1>1. fwd \in [Keys -> Ids \cup {NoId}]
  BY TypeParts DEF KeyInv, MapTypes
<1>2. ASSUME NEW k \in Keys
      PROVE  AbsMap[k] \in Ids \cup {NoId} /\ \A d \in Ids : AbsMap[k] = d <=> Backed(k, d)
  <2> DEFINE Has(i) == log[i].op = "insert" /\ log[i].key = k
  <2>0. AbsMap[k] = IF fwd[k] # NoId THEN fwd[k]
                    ELSE IF \E i \in 1..Len(log) : Has(i)
                         THEN log[CHOOSE i \in 1..Len(log) : Has(i)].id ELSE NoId
    BY DEF AbsMap
  <2>1. \A i \in 1..Len(log) : Has(i) => log[i].id \in Ids /\ fwd[k] \in {NoId, log[i].id}
    BY RecordTypes DEF KeyInv, LogFits
  <2>2. \A i, j \in 1..Len(log) : Has(i) /\ Has(j) => log[i].id = log[j].id
    BY DEF KeyInv, LogFits
  <2>3. \A d \in Ids : Backed(k, d) <=> fwd[k] = d \/ \E i \in 1..Len(log) : Has(i) /\ log[i].id = d
    BY DEF Backed
  <2>4. NoId \notin Ids
    BY DEF NoId, Ids
  <2> HIDE DEF Has
  <2>5. CASE fwd[k] # NoId
    BY <1>1, <2>0, <2>1, <2>3, <2>5
  <2>6. CASE fwd[k] = NoId /\ \E i \in 1..Len(log) : Has(i)
    <3>1. PICK c \in 1..Len(log) : Has(c) /\ AbsMap[k] = log[c].id
      BY <2>0, <2>6
    <3> QED BY <2>1, <2>2, <2>3, <2>4, <2>6, <3>1
  <2>7. CASE fwd[k] = NoId /\ ~ \E i \in 1..Len(log) : Has(i)
    BY <2>0, <2>3, <2>4, <2>7
  <2> QED BY <2>5, <2>6, <2>7
<1>3. AbsMap = [k \in Keys |-> AbsMap[k]]
  BY DEF AbsMap
<1> QED BY <1>2, <1>3

LEMMA AbsMapBackedNext ==
  ASSUME KeyInv'
  PROVE  /\ AbsMap' \in [Keys -> Ids \cup {NoId}]
         /\ \A k \in Keys, d \in Ids : AbsMap'[k] = d <=> Backed(k, d)'
<1>1. fwd' \in [Keys -> Ids \cup {NoId}]
  BY TypePartsNext DEF KeyInv, MapTypes
<1>2. \A i \in 1..Len(log') : log'[i].id \in Ids
  <2>1. log' \in Seq(Record)
    BY TypePartsNext DEF KeyInv, LogTypes
  <2>2. \A i \in 1..Len(log') : log'[i] \in Record
    BY <2>1
  <2> QED BY <2>2 DEF Record
<1>3. ASSUME NEW k \in Keys
      PROVE  AbsMap'[k] \in Ids \cup {NoId} /\ \A d \in Ids : AbsMap'[k] = d <=> Backed(k, d)'
  <2> DEFINE Has(i) == log'[i].op = "insert" /\ log'[i].key = k
  <2>0. AbsMap'[k] = IF fwd'[k] # NoId THEN fwd'[k]
                     ELSE IF \E i \in 1..Len(log') : Has(i)
                          THEN log'[CHOOSE i \in 1..Len(log') : Has(i)].id ELSE NoId
    BY DEF AbsMap
  <2>1. \A i \in 1..Len(log') : Has(i) => log'[i].id \in Ids /\ fwd'[k] \in {NoId, log'[i].id}
    BY <1>2 DEF KeyInv, LogFits
  <2>2. \A i, j \in 1..Len(log') : Has(i) /\ Has(j) => log'[i].id = log'[j].id
    BY DEF KeyInv, LogFits
  <2>3. \A d \in Ids : Backed(k, d)' <=> fwd'[k] = d \/ \E i \in 1..Len(log') : Has(i) /\ log'[i].id = d
    BY DEF Backed
  <2>4. NoId \notin Ids
    BY DEF NoId, Ids
  <2> HIDE DEF Has
  <2>5. CASE fwd'[k] # NoId
    BY <1>1, <2>0, <2>1, <2>3, <2>5
  <2>6. CASE fwd'[k] = NoId /\ \E i \in 1..Len(log') : Has(i)
    <3>1. PICK c \in 1..Len(log') : Has(c) /\ AbsMap'[k] = log'[c].id
      BY <2>0, <2>6
    <3> QED BY <2>1, <2>2, <2>3, <2>4, <2>6, <3>1
  <2>7. CASE fwd'[k] = NoId /\ ~ \E i \in 1..Len(log') : Has(i)
    BY <2>0, <2>3, <2>4, <2>7
  <2> QED BY <2>5, <2>6, <2>7
<1>4. AbsMap' = [k \in Keys |-> AbsMap'[k]]
  BY DEF AbsMap
<1> QED BY <1>3, <1>4

\* Maps that back the same pairs are equal.
LEMMA SameMap ==
  ASSUME KeyInv, KeyInv', \A k \in Keys, d \in Ids : Backed(k, d)' <=> Backed(k, d)
  PROVE  AbsMap' = AbsMap
<1>1. /\ AbsMap \in [Keys -> Ids \cup {NoId}]
      /\ \A k \in Keys, d \in Ids : AbsMap[k] = d <=> Backed(k, d)
  BY AbsMapBacked
<1>2. /\ AbsMap' \in [Keys -> Ids \cup {NoId}]
      /\ \A k \in Keys, d \in Ids : AbsMap'[k] = d <=> Backed(k, d)'
  BY AbsMapBackedNext
<1>3. \A k \in Keys : AbsMap'[k] = AbsMap[k]
  BY <1>1, <1>2
<1> QED BY <1>1, <1>2, <1>3

\* While the store is open the log adds nothing to the id map.
LEMMA OpenMap ==
  ASSUME KeyInv, up = "open"
  PROVE  AbsMap = fwd
<1>1. /\ AbsMap \in [Keys -> Ids \cup {NoId}]
      /\ \A k \in Keys, d \in Ids : AbsMap[k] = d <=> Backed(k, d)
  BY AbsMapBacked
<1>2. fwd \in [Keys -> Ids \cup {NoId}]
  BY TypeParts DEF KeyInv, MapTypes
<1>3. \A k \in Keys, d \in Ids : Backed(k, d) <=> fwd[k] = d
  BY DEF Backed, KeyInv, LogFits, InMap
<1>4. \A k \in Keys : AbsMap[k] = fwd[k]
  BY <1>1, <1>2, <1>3
<1> QED BY <1>1, <1>2, <1>4

LEMMA OpenMapNext ==
  ASSUME KeyInv', up' = "open"
  PROVE  AbsMap' = fwd'
<1>1. /\ AbsMap' \in [Keys -> Ids \cup {NoId}]
      /\ \A k \in Keys, d \in Ids : AbsMap'[k] = d <=> Backed(k, d)'
  BY AbsMapBackedNext
<1>2. fwd' \in [Keys -> Ids \cup {NoId}]
  BY TypePartsNext DEF KeyInv, MapTypes
<1>3. \A k \in Keys, d \in Ids : Backed(k, d)' <=> fwd'[k] = d
  BY DEF Backed, KeyInv, LogFits, InMap
<1>4. \A k \in Keys : AbsMap'[k] = fwd'[k]
  BY <1>1, <1>2, <1>3
<1> QED BY <1>1, <1>2, <1>4

\* The abstract state, as one tuple.
Kept == {p[1] : p \in synced}
absVars == <<AbsMap, Kept, up = "open">>

\* A step inside an open store that leaves both directions alone is invisible.
LEMMA OpenStutter ==
  ASSUME KeyInv, KeyInv', up = "open", up' = "open", UNCHANGED <<fwd, synced>>
  PROVE  UNCHANGED absVars
BY OpenMap, OpenMapNext DEF absVars, Kept

LEMMA AssignStep ==
  ASSUME KeyInv, KeyInv', up = "open", up' = "open", synced' = synced,
         \A k \in Keys : fwd[k] # NoId => fwd'[k] = fwd[k]
  PROVE  Abstract!Assign
<1>1. AbsMap = fwd /\ AbsMap' = fwd'
  BY OpenMap, OpenMapNext
<1>2. fwd' \in [Keys -> Ids \cup {NoId}]
  BY TypePartsNext DEF KeyInv, MapTypes
<1>3. fwd' \in [Keys -> Nat \cup {NoId}]
  BY <1>2, KeysAssumption DEF Ids
<1>4. \A j, k \in Keys : fwd'[j] # NoId /\ fwd'[j] = fwd'[k] => j = k
  BY DEF KeyInv, MapsInverse
<1>5. Kept' = Kept
  BY DEF Kept
<1> QED BY <1>1, <1>3, <1>4, <1>5 DEF Abstract!Assign, Abstract!Assigned, Abstract!NoId, NoId, Kept

LEMMA PutKeyAssigns ==
  ASSUME KeyInv, KeyInv', NEW w \in Writers, PutKey(w)
  PROVE  Abstract!Assign
<1>0. req[w].pc = "put" /\ PutKeys({<<req[w].key, req[w].id>>}) /\ up' = up
  BY DEF PutKey
<1>1. req[w].key \in Keys /\ req[w].id \in Ids /\ up = "open" /\ fwd[req[w].key] = NoId
  BY <1>0 DEF KeyInv, RequestsFit, RequestFits
<1>2. MapTypes
  BY TypeParts DEF KeyInv
<1>3. fwd' = [fwd EXCEPT ![req[w].key] = req[w].id] /\ synced' = synced
  BY <1>0, <1>1, <1>2, PutOne DEF MapTypes, PutKeys
<1>4. \A k \in Keys : fwd[k] # NoId => fwd'[k] = fwd[k]
  BY <1>1, <1>2, <1>3 DEF MapTypes
<1> QED BY <1>0, <1>1, <1>3, <1>4, AssignStep

LEMMA BulkPutKeysAssigns ==
  ASSUME KeyInv, KeyInv', BulkPutKeys
  PROVE  Abstract!Assign
<1>1. gate = "bulk" /\ up' = up /\ synced' = synced
  BY DEF BulkPutKeys, PutKeys
<1>2. up = "open"
  BY <1>1 DEF KeyInv, GateFits
<1>3. \A k \in Keys : fwd[k] = NoId
  BY <1>1, BulkPairs
<1> QED BY <1>1, <1>2, <1>3, AssignStep

LEMMA SyncWALKeepsKeys ==
  ASSUME KeyInv, KeyInv', SyncWAL
  PROVE  Abstract!Keep
<1>1. gate = "sync" /\ synced' = {p \in Pairs : fwd[p[1]] = p[2]} /\ UNCHANGED <<up, fwd>>
  BY DEF SyncWAL
<1>2. up = "open"
  BY <1>1 DEF KeyInv, GateFits
<1>3. AbsMap = fwd /\ AbsMap' = fwd'
  BY <1>1, <1>2, OpenMap, OpenMapNext
<1>4. fwd \in [Keys -> Ids \cup {NoId}] /\ NoId \notin Ids
  BY TypeParts DEF KeyInv, MapTypes, NoId, Ids
<1>5. Kept' = {k \in Keys : fwd[k] # NoId}
  <2>1. \A p \in synced' : p[1] \in Keys /\ fwd[p[1]] # NoId
    BY <1>1, <1>4 DEF Pairs
  <2>2. ASSUME NEW k \in Keys, fwd[k] # NoId PROVE k \in Kept'
    <3>1. <<k, fwd[k]>> \in synced'
      BY <1>1, <1>4, <2>2 DEF Pairs
    <3> QED BY <3>1 DEF Kept
  <2> QED BY <2>1, <2>2 DEF Kept
<1> QED BY <1>1, <1>2, <1>3, <1>5 DEF Abstract!Keep, Abstract!Assigned, Abstract!NoId, NoId, Kept

\* Every fsynced pair is a pair of the map.
LEMMA KeptAssigned ==
  ASSUME KeyInv
  PROVE  \A k \in Kept : k \in Keys /\ AbsMap[k] # NoId
<1> SUFFICES ASSUME NEW p \in synced PROVE p[1] \in Keys /\ AbsMap[p[1]] # NoId
  BY DEF Kept
<1>1. p[1] \in Keys /\ p[2] \in Ids /\ fwd[p[1]] = p[2]
  BY TypeParts DEF KeyInv, SyncedInMap, MapTypes, Pairs
<1>2. AbsMap[p[1]] = p[2]
  BY <1>1, AbsMapBacked DEF Backed
<1> QED BY <1>1, <1>2 DEF Ids, NoId

LEMMA KeptAssignedNext ==
  ASSUME KeyInv'
  PROVE  \A k \in Kept' : k \in Keys /\ AbsMap'[k] # NoId
<1> SUFFICES ASSUME NEW p \in synced' PROVE p[1] \in Keys /\ AbsMap'[p[1]] # NoId
  BY DEF Kept
<1>1. p[1] \in Keys /\ p[2] \in Ids /\ fwd'[p[1]] = p[2]
  BY TypePartsNext DEF KeyInv, SyncedInMap, MapTypes, Pairs
<1>2. AbsMap'[p[1]] = p[2]
  BY <1>1, AbsMapBackedNext DEF Backed
<1> QED BY <1>1, <1>2 DEF Ids, NoId

\* A crash or a power loss adds no pair and loses none that was fsynced.
LEMMA LossFails ==
  ASSUME KeyInv, KeyInv', Crash \/ PowerLoss
  PROVE  Abstract!Fail
<1>1. up' = "down" /\ synced \subseteq synced'
  BY PowerLossMap DEF Crash, PowerLoss, Lost, idmap
<1>2. ASSUME NEW k \in Keys, NEW d \in Ids, Backed(k, d)' PROVE Backed(k, d)
  <2>1. CASE Crash
    BY <1>2, <2>1 DEF Crash, Backed, idmap
  <2>2. CASE PowerLoss
    <3>0. fwd'[k] = IF <<k, fwd[k]>> \in synced' THEN fwd[k] ELSE NoId
      BY <2>2, PowerLossMap
    <3>1. fwd'[k] \in {fwd[k], NoId} /\ NoId # d
      BY <3>0 DEF NoId, Ids
    <3>2. PICK n \in 0..Len(log) : log' = SubSeq(log, 1, n)
      BY <2>2 DEF PowerLoss
    <3>3. log \in Seq(Record) /\ Len(log) \in Nat
      BY TypeParts DEF KeyInv, LogTypes
    <3>4. Len(log') = n /\ \A i \in 1..n : log'[i] = log[i] /\ i \in 1..Len(log)
      BY <3>2, <3>3
    <3> QED BY <1>2, <3>1, <3>4 DEF Backed
  <2> QED BY <2>1, <2>2
<1> DEFINE S == {k \in Keys : AbsMap'[k] # NoId}
<1>3. /\ AbsMap \in [Keys -> Ids \cup {NoId}]
      /\ \A k \in Keys, d \in Ids : AbsMap[k] = d <=> Backed(k, d)
  BY AbsMapBacked
<1>4. /\ AbsMap' \in [Keys -> Ids \cup {NoId}]
      /\ \A k \in Keys, d \in Ids : AbsMap'[k] = d <=> Backed(k, d)'
  BY AbsMapBackedNext
<1>5. \A k \in Keys : AbsMap'[k] # NoId => AbsMap'[k] = AbsMap[k]
  BY <1>2, <1>3, <1>4
<1>6. AbsMap' = [k \in Keys |-> IF k \in S THEN AbsMap[k] ELSE NoId]
  BY <1>4, <1>5
<1>7. S \subseteq {k \in Keys : AbsMap[k] # NoId}
  BY <1>5
<1>8. Kept \subseteq Kept' /\ Kept' \subseteq S
  BY <1>1, KeptAssignedNext DEF Kept
<1>9. (up = "open")' = FALSE
  BY <1>1
<1> HIDE DEF S
<1> QED BY <1>6, <1>7, <1>8, <1>9 DEF Abstract!Fail, Abstract!Assigned, Abstract!NoId, NoId, Kept

LEMMA ReopenStutters ==
  ASSUME KeyInv, KeyInv', Reopen
  PROVE  UNCHANGED absVars
<1>1. up = "down" /\ up' = "replay" /\ UNCHANGED <<fwd, synced, log>>
  BY DEF Reopen, idmap
<1>2. AbsMap' = AbsMap
  BY <1>1 DEF AbsMap
<1> QED BY <1>1, <1>2 DEF absVars, Kept

\* Replay only moves pairs from the log into the id map.
LEMMA ReplayStutters ==
  ASSUME KeyInv, KeyInv', ReplayRecord
  PROVE  UNCHANGED absVars
<1> DEFINE r == log[pos + 1]
<1>1. up = "replay" /\ pos < Len(log) /\ UNCHANGED <<up, synced, log>>
  BY DEF ReplayRecord, PutKeys, idmap
<1>2. AbsMap' = AbsMap
  <2>1. CASE r.op # "insert"
    BY <1>1, <2>1 DEF ReplayRecord, idmap, AbsMap
  <2>2. CASE r.op = "insert"
    <3>1. /\ r.key \in Keys /\ r.id \in Ids /\ fwd[r.key] \in {NoId, r.id}
          /\ pos + 1 \in 1..Len(log)
      BY <1>1, <2>2, ReplayedPair
    <3>2. MapTypes /\ PutKeys({<<r.key, r.id>>})
      BY <2>2, TypeParts DEF KeyInv, ReplayRecord
    <3>3. fwd' = [fwd EXCEPT ![r.key] = r.id]
      BY <3>1, <3>2, PutOne DEF MapTypes
    <3>4. Backed(r.key, r.id)
      BY <2>2, <3>1 DEF Backed
    <3> HIDE DEF r
    <3>5. ASSUME NEW k \in Keys, NEW d \in Ids PROVE Backed(k, d)' <=> Backed(k, d)
      <4>1. d # NoId
        BY DEF Ids, NoId
      <4>2. CASE k # r.key
        BY <1>1, <3>2, <3>3, <4>2 DEF Backed, MapTypes
      <4>3. CASE k = r.key
        <5>1. fwd'[k] = r.id
          BY <3>1, <3>2, <3>3, <4>3 DEF MapTypes
        <5>2. Backed(k, d)' <=> d = r.id \/ Backed(k, d)
          BY <1>1, <3>1, <4>1, <4>3, <5>1 DEF Backed
        <5> QED BY <3>4, <4>3, <5>2
      <4> QED BY <4>2, <4>3
    <3> QED BY <3>5, SameMap
  <2> QED BY <2>1, <2>2
<1> QED BY <1>1, <1>2 DEF absVars, Kept

LEMMA FinishRecovers ==
  ASSUME KeyInv, KeyInv', FinishRecovery
  PROVE  Abstract!Recover
<1>1. up' = "open" /\ UNCHANGED <<fwd, synced, log>>
  BY DEF FinishRecovery, idmap, logs
<1>2. AbsMap' = AbsMap
  BY <1>1 DEF AbsMap
<1>3. (up = "open")' = TRUE
  BY <1>1
<1> QED BY <1>1, <1>2, <1>3 DEF Abstract!Recover

LEMMA StepRefines ==
  ASSUME KeyInv, KeyInv', [Next]_vars
  PROVE  Abstract!Next \/ UNCHANGED absVars
<1> USE DEF idmap, index, logs
<1>1. ASSUME NEW w \in Writers,
             \/ Call(w) \/ LookupKey(w) \/ AllocateId(w) \/ CallFails(w)
             \/ LogOp(w) \/ DeleteAbsent(w) \/ Apply(w) \/ ApplyFails(w)
      PROVE  UNCHANGED absVars
  <2>1. UNCHANGED <<up, fwd, synced>>
    BY <1>1 DEF Call, LookupKey, AllocateId, CallFails, LogOp, DeleteAbsent, Apply, ApplyFails
  <2>2. up = "open"
    <3>1. req[w].pc # "idle" => up = "open"
      BY DEF KeyInv, RequestsFit, RequestFits
    <3> QED BY <1>1, <3>1
         DEF Call, LookupKey, AllocateId, CallFails, LogOp, DeleteAbsent, Apply, ApplyFails
  <2> QED BY <2>1, <2>2, OpenStutter
<1>2. ASSUME NEW w \in Writers, PutKey(w) PROVE Abstract!Assign
  BY <1>2, PutKeyAssigns
<1>3. CASE BulkBuild \/ BulkPutKeysFails \/ Checkpoint \/ WriteMetadataFile
  <2>1. UNCHANGED <<up, fwd, synced>>
    BY <1>3 DEF BulkBuild, BulkPutKeysFails, Checkpoint, WriteMetadataFile
  <2>2. up = "open"
    BY <1>3 DEF BulkBuild, BulkPutKeysFails, Checkpoint, WriteMetadataFile, Exclusive,
                KeyInv, GateFits
  <2> QED BY <2>1, <2>2, OpenStutter
<1>4. CASE UNCHANGED vars
  <2>1. UNCHANGED <<up, fwd, synced, log>>
    BY <1>4 DEF vars
  <2>2. AbsMap' = AbsMap
    BY <2>1 DEF AbsMap
  <2> QED BY <2>1, <2>2 DEF absVars, Kept
<1>5. CASE BulkPutKeys \/ SyncWAL \/ Crash \/ PowerLoss \/ FinishRecovery
  BY <1>5, BulkPutKeysAssigns, SyncWALKeepsKeys, LossFails, FinishRecovers DEF Abstract!Next
<1>6. CASE Reopen \/ ReplayRecord
  BY <1>6, ReopenStutters, ReplayStutters
<1> QED BY <1>1, <1>2, <1>3, <1>4, <1>5, <1>6 DEF Next, Abstract!Next

LEMMA InitRefines ==
  ASSUME Init
  PROVE  Abstract!Init
<1>1. KeyInv /\ up = "open" /\ fwd = [k \in Keys |-> NoId] /\ synced = {}
  BY InitKeyInv DEF Init
<1>2. AbsMap = fwd
  BY <1>1, OpenMap
<1> QED BY <1>1, <1>2 DEF Abstract!Init, Abstract!NoId, NoId

\* The keyed store implements KeyMap: an assignment is never changed, ids are
\* never shared, and a power loss undoes no assignment that a checkpoint has
\* made durable (resolveId, checkpointLocked, replayRecord).
THEOREM ImplementsKeyMap == Spec => KeyMapSpec
<1>1. Init => Abstract!Init
  BY InitRefines
<1>2. KeyInv /\ KeyInv' /\ [Next]_vars =>
        [Abstract!Next]_<<AbsMap, {p[1] : p \in synced}, up = "open">>
  BY StepRefines DEF absVars, Kept
<1> QED BY <1>1, <1>2, KeyInvariant, PTL DEF Spec, KeyMapSpec, Abstract!Spec

=============================================================================
