----------------------------- MODULE PointKeys -----------------------------
(***************************************************************************)
(* Point ids of a keyed store (src/src/astervec_db.cc resolveId, the id    *)
(* map of src/src/metadata_store.cc).  Writers resolve a caller's key to a *)
(* dense id under the lock of the key's shard, allocating one on first     *)
(* use; then they log the operation and apply it to the index.  The id map *)
(* has a write-ahead log of its own, which only a checkpoint fsyncs, and   *)
(* the operation log is never fsynced: a process crash keeps both, a power *)
(* loss cuts each at a point of its own.                                   *)
(*                                                                         *)
(* The index is abstracted to the key whose vector is live at each dense   *)
(* id (AsterVecDB models what happens behind a dense id).  A key stands    *)
(* for PointId::Encode of it, which is injective.                          *)
(***************************************************************************)
EXTENDS Integers, FiniteSets, Sequences

CONSTANTS Keys, None,
          Writers,
          Shards, ShardOf,   \* key_locks_ and the shard a key hashes to
          MaxRealId,         \* kMaxRealId
          MaxCalls,          \* bound: calls made
          MaxCrashes,        \* bound: crashes and power losses
          MaxFailures        \* bound: failed writes of the id map, the log or the index

ASSUME KeysAssumption == /\ None \notin Keys \cup Writers
                         /\ ShardOf \in [Keys -> Shards]
                         /\ MaxRealId \in Nat
                         /\ {MaxCalls, MaxCrashes, MaxFailures} \subseteq Nat

VARIABLES up,      \* "down", "replay" or "open"
          req,     \* what each writer is serving: step, operation, key, resolved id
          holder,  \* the writer holding each shard's lock
          next,    \* next_dense_id_
          fwd,     \* the 'k' rows of the id map: key -> id
          rev,     \* the 'r' rows: id -> key
          synced,  \* the pairs of the id map that are fsynced
          wal,     \* the batches written to it since
          live,    \* index: the key whose vector is live at each id
          entry,   \* index: an entry point is set
          ckpt,    \* the checkpoint: live and entry
          log,     \* operation log after the checkpoint
          pos,     \* replay: records applied
          logging, \* enable_oplog
          gate,    \* what holds write_gate_ exclusively, or "free"
          bulk,    \* ids -> keys of the bulk build in progress
          torn,    \* ghost: a bulk build filled the index and not the id map
          budget   \* what is left of the bounds

idmap == <<fwd, rev, synced, wal>>
index == <<live, entry>>
logs == <<log, pos, logging>>
vars == <<up, req, holder, next, idmap, index, ckpt, logs, gate, bulk, torn, budget>>

NoId == -1
Ids == 0..MaxRealId
NoBulk == <<>>
NoReq == [pc |-> "idle", op |-> "get", key |-> None, id |-> NoId]
Pairs == Keys \X Ids

Spend(what) == budget[what] > 0 /\ budget' = [budget EXCEPT ![what] = @ - 1]
Goto(w, p) == req' = [req EXCEPT ![w].pc = p]
Return(w) == req' = [req EXCEPT ![w] = NoReq]
Idle == \A w \in Writers : req[w] = NoReq
Unlock(w) == holder' = [s \in Shards |-> IF holder[s] = w THEN None ELSE holder[s]]

Init == /\ up = "open" /\ gate = "free" /\ bulk = NoBulk
        /\ req = [w \in Writers |-> NoReq]
        /\ holder = [s \in Shards |-> None]
        /\ next = 0
        /\ fwd = [k \in Keys |-> NoId] /\ rev = [d \in Ids |-> None]
        /\ synced = {} /\ wal = <<>>
        /\ live = [d \in Ids |-> None] /\ entry = FALSE
        /\ ckpt = [live |-> live, entry |-> FALSE]
        /\ log = <<>> /\ pos = 0 /\ logging \in BOOLEAN
        /\ torn = FALSE
        /\ budget = [calls |-> MaxCalls, crashes |-> MaxCrashes, failures |-> MaxFailures]

(***************************************************************************)
(* The id map                                                              *)
(***************************************************************************)

\* One WriteBatch puts both directions of every pair.
PutKeys(pairs) ==
  /\ fwd' = [k \in Keys |-> IF \E d \in Ids : <<k, d>> \in pairs
                            THEN CHOOSE d \in Ids : <<k, d>> \in pairs ELSE fwd[k]]
  /\ rev' = [d \in Ids |-> IF \E k \in Keys : <<k, d>> \in pairs
                           THEN CHOOSE k \in Keys : <<k, d>> \in pairs ELSE rev[d]]
  /\ wal' = Append(wal, pairs)
  /\ UNCHANGED synced

\* One more than the last of the 'r' rows, which sort by id.
MaxMappedId == LET mapped == {d \in Ids : rev[d] # None} IN
               IF mapped = {} THEN 0
               ELSE 1 + CHOOSE d \in mapped : \A e \in mapped : e <= d

observeDenseId(d) == IF next <= d THEN d + 1 ELSE next

\* What a search returns for the live ids it found: ids without an 'r' row
\* are skipped.
toPointHits(found) == {rev[d] : d \in found} \ {None}

(***************************************************************************)
(* resolveId                                                               *)
(***************************************************************************)

Call(w) ==
  /\ up = "open" /\ gate = "free" /\ req[w].pc = "idle"
  /\ Spend("calls")
  /\ \E op \in {"insert", "delete", "get"}, k \in Keys :
       req' = [req EXCEPT ![w] = [pc |-> "resolve", op |-> op, key |-> k, id |-> NoId]]
  /\ UNCHANGED <<up, holder, next, idmap, index, ckpt, logs, gate, bulk, torn>>

\* Mutant of LookupKey: the lookup does not wait for the shard's lock.
LookupKeyUnlocked(w) ==
  /\ req[w].pc = "resolve"
  /\ LET k == req[w].key IN
     IF fwd[k] # NoId
     THEN IF req[w].op = "get" THEN Return(w)
          ELSE req' = [req EXCEPT ![w].pc = "log", ![w].id = fwd[k]]
     ELSE IF req[w].op = "insert" THEN Goto(w, "alloc") ELSE Return(w)
  /\ UNCHANGED <<up, holder, next, idmap, index, ckpt, logs, gate, bulk, torn, budget>>

\* Under the shard's lock; a known key, or a call that creates none, lets go
\* of it at once.  Insert and Update create ids; Delete, Get and the payload
\* calls answer an unknown key without one.
LookupKey(w) ==
  /\ req[w].pc = "resolve"
  /\ LET k == req[w].key IN
     /\ holder[ShardOf[k]] = None
     /\ IF fwd[k] # NoId
        THEN /\ IF req[w].op = "get" THEN Return(w)
                ELSE req' = [req EXCEPT ![w].pc = "log", ![w].id = fwd[k]]
             /\ UNCHANGED holder
        ELSE IF req[w].op = "insert"
             THEN holder' = [holder EXCEPT ![ShardOf[k]] = w] /\ Goto(w, "alloc")
             ELSE Return(w) /\ UNCHANGED holder
  /\ UNCHANGED <<up, next, idmap, index, ckpt, logs, gate, bulk, torn, budget>>

\* fetch_add; the call fails when the id space is exhausted.
AllocateId(w) ==
  /\ req[w].pc = "alloc"
  /\ next' = next + 1
  /\ IF next > MaxRealId
     THEN Return(w) /\ Unlock(w)
     ELSE req' = [req EXCEPT ![w].pc = "put", ![w].id = next] /\ UNCHANGED holder
  /\ UNCHANGED <<up, idmap, index, ckpt, logs, gate, bulk, torn, budget>>

PutKey(w) ==
  /\ req[w].pc = "put"
  /\ PutKeys({<<req[w].key, req[w].id>>})
  /\ Unlock(w)
  /\ Goto(w, "log")
  /\ UNCHANGED <<up, next, index, ckpt, logs, gate, bulk, torn, budget>>

\* The batch or the log append fails, and with it the call.
CallFails(w) ==
  /\ req[w].pc \in {"put", "log"}
  /\ Spend("failures")
  /\ Unlock(w)
  /\ Return(w)
  /\ UNCHANGED <<up, next, idmap, index, ckpt, logs, gate, bulk, torn>>

(***************************************************************************)
(* insertDense, updateDense, deleteDense                                   *)
(***************************************************************************)

\* real_id_lock is held from here to the end of the call.  The record of an
\* insert carries the key.
LogOp(w) ==
  /\ req[w].pc = "log"
  /\ \A v \in Writers : req[v].pc = "apply" => req[v].id # req[w].id
  /\ Goto(w, "apply")
  /\ log' = IF logging
            THEN Append(log, [op  |-> req[w].op, id |-> req[w].id,
                              key |-> IF req[w].op = "insert" THEN req[w].key ELSE None,
                              by  |-> w, aborted |-> FALSE])
            ELSE log
  /\ UNCHANGED <<up, holder, next, idmap, index, ckpt, pos, logging, gate, bulk, torn, budget>>

\* A delete of an id without a stored vector does nothing.
DeleteAbsent(w) ==
  /\ req[w].pc = "log" /\ req[w].op = "delete" /\ live[req[w].id] = None
  /\ \A v \in Writers : req[v].pc = "apply" => req[v].id # req[w].id
  /\ Return(w)
  /\ UNCHANGED <<up, holder, next, idmap, index, ckpt, logs, gate, bulk, torn, budget>>

Apply(w) ==
  /\ req[w].pc = "apply"
  /\ live' = [live EXCEPT ![req[w].id] = IF req[w].op = "insert" THEN req[w].key ELSE None]
  /\ entry' = TRUE
  /\ Return(w)
  /\ UNCHANGED <<up, holder, next, idmap, ckpt, logs, gate, bulk, torn, budget>>

\* insertNode fails: an abort record cancels the logged operation.
ApplyFails(w) ==
  /\ req[w].pc = "apply" /\ req[w].op = "insert"
  /\ Spend("failures")
  /\ LET mine == {i \in 1..Len(log) : log[i].by = w} IN
     log' = [i \in 1..Len(log) |->
               IF logging /\ i \in mine /\ \A j \in mine : j <= i
               THEN [log[i] EXCEPT !.aborted = TRUE] ELSE log[i]]
  /\ Return(w)
  /\ UNCHANGED <<up, holder, next, idmap, index, ckpt, pos, logging, gate, bulk, torn>>

(***************************************************************************)
(* BulkBuild and Checkpoint, under the exclusive gate                      *)
(***************************************************************************)

Exclusive == up = "open" /\ gate = "free" /\ Idle

\* bulkBuildImpl: an empty store and distinct keys; the index is filled first.
BulkBuild ==
  /\ Exclusive /\ ~entry /\ next = 0
  /\ Spend("calls")
  /\ \E n \in 1..(MaxRealId + 1) : \E f \in [1..n -> Keys] :
       /\ \A i, j \in 1..n : f[i] = f[j] => i = j
       /\ bulk' = f
       /\ live' = [d \in Ids |-> IF d < n THEN f[d + 1] ELSE live[d]]
  /\ entry' = TRUE
  /\ gate' = "bulk"
  /\ UNCHANGED <<up, req, holder, next, idmap, ckpt, logs, torn>>

BulkPutKeys ==
  /\ gate = "bulk"
  /\ PutKeys({<<bulk[i], i - 1>> : i \in 1..Len(bulk)})
  /\ next' = Len(bulk)
  /\ bulk' = NoBulk
  /\ gate' = "sync"
  /\ UNCHANGED <<up, req, holder, index, ckpt, logs, torn, budget>>

BulkPutKeysFails ==
  /\ gate = "bulk"
  /\ Spend("failures")
  /\ bulk' = NoBulk /\ torn' = TRUE
  /\ gate' = "free"
  /\ UNCHANGED <<up, req, holder, next, idmap, index, ckpt, logs>>

Checkpoint ==
  /\ Exclusive
  /\ gate' = "sync"
  /\ UNCHANGED <<up, req, holder, next, idmap, index, ckpt, logs, bulk, torn, budget>>

\* Mutant of SyncWAL: the id map is left out of the checkpoint.
SyncSkipsIdMap ==
  /\ gate = "sync"
  /\ gate' = "meta"
  /\ UNCHANGED <<up, req, holder, next, idmap, index, ckpt, logs, bulk, torn, budget>>

\* checkpointLocked: the WAL of the id map is fsynced ...
SyncWAL ==
  /\ gate = "sync"
  /\ synced' = {p \in Pairs : fwd[p[1]] = p[2]} /\ wal' = <<>>
  /\ gate' = "meta"
  /\ UNCHANGED <<up, req, holder, next, fwd, rev, index, ckpt, logs, bulk, torn, budget>>

\* ... before the metadata file makes the index durable and retires the log.
WriteMetadataFile ==
  /\ gate = "meta"
  /\ ckpt' = [live |-> live, entry |-> entry]
  /\ log' = <<>> /\ pos' = 0
  /\ gate' = "free"
  /\ UNCHANGED <<up, req, holder, next, idmap, index, logging, bulk, torn, budget>>

(***************************************************************************)
(* Crash, power loss and recovery                                          *)
(***************************************************************************)

\* What the process held is gone.
Lost == /\ up' = "down" /\ gate' = "free" /\ bulk' = NoBulk
        /\ req' = [w \in Writers |-> NoReq]
        /\ holder' = [s \in Shards |-> None]
        /\ next' = 0
        /\ live' = ckpt.live /\ entry' = ckpt.entry
        /\ pos' = 0
        /\ UNCHANGED <<ckpt, logging, torn>>

Crash ==
  /\ up # "down"
  /\ Spend("crashes")
  /\ Lost
  /\ UNCHANGED <<idmap, log>>

\* Each log keeps a prefix; what survives is on disk.
PowerLoss ==
  /\ Spend("crashes")
  /\ Lost
  /\ \E n \in 0..Len(wal) :
       synced' = {p \in Pairs : /\ fwd[p[1]] = p[2]
                                /\ p \in synced \/ \E i \in 1..n : p \in wal[i]}
  /\ fwd' = [k \in Keys |-> IF <<k, fwd[k]>> \in synced' THEN fwd[k] ELSE NoId]
  /\ rev' = [d \in Ids |-> IF <<rev[d], d>> \in synced' THEN rev[d] ELSE None]
  /\ wal' = <<>>
  /\ \E n \in 0..Len(log) : log' = SubSeq(log, 1, n)

\* Open: the counter starts above every mapped id.
Reopen ==
  /\ up = "down"
  /\ up' = "replay"
  /\ next' = MaxMappedId
  /\ logging' \in BOOLEAN
  /\ UNCHANGED <<req, holder, idmap, index, ckpt, log, pos, gate, bulk, torn, budget>>

\* Mutant of ReplayRecord: an aborted insert does not restore its key.
ReplaySkipsAborted ==
  /\ up = "replay" /\ pos < Len(log)
  /\ LET r == log[pos + 1] IN
     IF r.aborted THEN UNCHANGED <<idmap, next, index>>
     ELSE /\ IF r.op = "insert"
             THEN PutKeys({<<r.key, r.id>>}) /\ next' = observeDenseId(r.id)
             ELSE UNCHANGED <<idmap, next>>
          /\ live' = [live EXCEPT ![r.id] = r.key] /\ entry' = TRUE
  /\ pos' = pos + 1
  /\ UNCHANGED <<up, req, holder, ckpt, log, logging, gate, bulk, torn, budget>>

\* replayRecord: an insert restores its key even if it was aborted.
ReplayRecord ==
  /\ up = "replay" /\ pos < Len(log)
  /\ LET r == log[pos + 1] IN
     /\ IF r.op = "insert"
        THEN PutKeys({<<r.key, r.id>>}) /\ next' = observeDenseId(r.id)
        ELSE UNCHANGED <<idmap, next>>
     /\ IF r.aborted THEN UNCHANGED index
        ELSE live' = [live EXCEPT ![r.id] = r.key] /\ entry' = TRUE
  /\ pos' = pos + 1
  /\ UNCHANGED <<up, req, holder, ckpt, log, logging, gate, bulk, torn, budget>>

\* The replayed state becomes the checkpoint before Open returns.
FinishRecovery ==
  /\ up = "replay" /\ pos = Len(log)
  /\ up' = "open"
  /\ gate' = IF log # <<>> THEN "sync" ELSE "free"
  /\ UNCHANGED <<req, holder, next, idmap, index, ckpt, logs, bulk, torn, budget>>

Next == \/ \E w \in Writers : \/ Call(w) \/ LookupKey(w) \/ AllocateId(w)
                              \/ PutKey(w) \/ CallFails(w)
                              \/ LogOp(w) \/ DeleteAbsent(w) \/ Apply(w) \/ ApplyFails(w)
        \/ BulkBuild \/ BulkPutKeys \/ BulkPutKeysFails
        \/ Checkpoint \/ SyncWAL \/ WriteMetadataFile
        \/ Crash \/ PowerLoss \/ Reopen \/ ReplayRecord \/ FinishRecovery

Spec == Init /\ [][Next]_vars

(***************************************************************************)
(* Properties                                                              *)
(***************************************************************************)

Record == [op : {"insert", "delete"}, id : Ids, key : Keys \cup {None}, by : Writers,
           aborted : BOOLEAN]

\* Every variable keeps its type.
TypeOK ==
  /\ up \in {"down", "replay", "open"} /\ gate \in {"free", "bulk", "sync", "meta"}
  /\ req \in [Writers -> [pc : {"idle", "resolve", "alloc", "put", "log", "apply"},
                          op : {"insert", "delete", "get"}, key : Keys \cup {None},
                          id : Ids \cup {NoId}]]
  /\ holder \in [Shards -> Writers \cup {None}]
  /\ next \in Nat
  /\ fwd \in [Keys -> Ids \cup {NoId}] /\ rev \in [Ids -> Keys \cup {None}]
  /\ synced \in SUBSET Pairs /\ wal \in Seq(SUBSET Pairs)
  /\ live \in [Ids -> Keys \cup {None}] /\ entry \in BOOLEAN
  /\ ckpt \in [live : [Ids -> Keys \cup {None}], entry : BOOLEAN]
  /\ log \in Seq(Record) /\ pos \in 0..Len(log) /\ logging \in BOOLEAN
  /\ bulk \in Seq(Keys) /\ torn \in BOOLEAN

\* No two keys share a dense id and no key has two: the two directions of the
\* id map are inverse to each other, whatever writers, crashes and replays do.
MapsInverse == /\ \A k \in Keys : fwd[k] # NoId => rev[fwd[k]] = k
               /\ \A d \in Ids : rev[d] # None => fwd[rev[d]] = d

\* A search of an open store returns exactly the keys whose vectors are live,
\* none under another key and none dropped for want of an 'r' row.  (Not after
\* a bulk build whose keys could not be written: its vectors stay in the index.)
HitsAreTheLiveKeys ==
  up = "open" /\ gate # "bulk" /\ ~torn =>
    /\ toPointHits({d \in Ids : live[d] # None}) = {k \in Keys : \E d \in Ids : live[d] = k}
    /\ \A d \in Ids : live[d] # None => rev[d] = live[d]

\* The id of each key, those a replay has still to put back included.
AbsMap == [k \in Keys |->
             IF fwd[k] # NoId THEN fwd[k]
             ELSE IF \E i \in 1..Len(log) : log[i].op = "insert" /\ log[i].key = k
                  THEN log[CHOOSE i \in 1..Len(log) : log[i].op = "insert" /\ log[i].key = k].id
                  ELSE NoId]

Abstract == INSTANCE KeyMap WITH map <- AbsMap, kept <- {p[1] : p \in synced},
                                 serving <- up = "open"

\* The store keeps what KeyMap promises: an assignment is never changed, and a
\* power loss undoes none that a checkpoint covers.
KeyMapSpec == Abstract!Spec
=============================================================================
