---------------------------- MODULE AsterVecDB ----------------------------
(***************************************************************************)
(* The write path and the recovery of AsterVecDB (astervec_db.cc): upserts *)
(* and deletes under the per-real-id lock and the shared write gate,       *)
(* payload calls under the gate alone, checkpoints under the exclusive     *)
(* gate, a process crash at any step, and the replay of the operation log. *)
(*                                                                         *)
(* A real id is the caller's id; an internal id is a real id used directly *)
(* or an update id (>= UpdateBase) handed out for each new version.  The   *)
(* index ix holds what a checkpoint saves: the located vectors, the        *)
(* tombstones, both id maps, the next update id and the live count.        *)
(* Payload rows live in a RocksDB of their own whose write-ahead log makes *)
(* every row write survive a process crash at once, checkpoint or not.     *)
(*                                                                         *)
(* The log is the sequence of the records appended (lsn = index).  That a  *)
(* scan returns exactly the records after the loaded checkpoint is the     *)
(* subject of module OpLog.  A payload is the set of its keys.             *)
(***************************************************************************)
EXTENDS Integers, Sequences, FiniteSets

CONSTANTS
  Writers,      \* application threads
  RealIds,      \* the ids callers use
  UpdateBase,   \* kFirstUpdateId: smaller ids are direct, the others update ids
  Vecs,         \* vectors
  Keys,         \* payload keys
  Absent,       \* no payload argument
  Gone,         \* the vector of an id that is not alive
  LogModes,     \* the values of options_.enable_oplog considered
  Loads,        \* what a bulk load may have put into the store: real ids -> vectors
  MaxCalls,     \* bound: calls begun
  MaxCrashes,   \* bound: process crashes
  MaxFailures,  \* bound: calls that fail after they began to write
  MaxDamage,    \* bound: checkpoint files damaged
  MaxFaults     \* bound: all of these together

ASSUME IdsAssumption ==
  /\ RealIds \subseteq Nat
  /\ UpdateBase \in Nat
  /\ \A r \in RealIds : r < UpdateBase
ASSUME LogModesAssumption == LogModes \subseteq BOOLEAN
ASSUME LoadsAssumption ==
  \A b \in Loads : /\ DOMAIN b \subseteq RealIds /\ IsFiniteSet(DOMAIN b)
                   /\ b \in [DOMAIN b -> Vecs]
ASSUME BoundsAssumption == {MaxCalls, MaxCrashes, MaxFailures, MaxDamage, MaxFaults} \subseteq Nat
ASSUME TokensAssumption == Gone \notin Vecs /\ \A p \in SUBSET Keys : Absent # p

VARIABLES
  enable_oplog, \* whether this store keeps an operation log; fixed at Open
  phase,    \* "open", "down", "replaying", "dropping" or "replayed"
  ix,       \* the in-memory index state
  rows,     \* internal id -> payload: MetadataStore
  log,      \* the operation log
  main,     \* lsm_vec_db.meta
  prev,     \* lsm_vec_db.meta.prev
  dirty,    \* writes_since_checkpoint_ > 0
  at,       \* the lsn replayed next
  local,    \* each thread's call
  want,     \* history: what each id may hold, given the calls that returned
  blurred,  \* history: ids on which a payload call overlapped another write,
            \* or followed an insert that failed but left the vector, or
            \* whose row could not be read when it was to be carried over
  used      \* history: how much of each bound is used

vars == <<enable_oplog, phase, ix, rows, log, main, prev, dirty, at, local,
          want, blurred, used>>

Payloads == SUBSET Keys

\* A checkpoint file that does not exist, and one that fails its checksum.
NoFile == [file |-> "none"]
Damaged == [file |-> "damaged"]

Set(f, k, v) == [x \in DOMAIN f \cup {k} |-> IF x = k THEN v ELSE f[x]]
Without(f, k) == [x \in DOMAIN f \ {k} |-> f[x]]
Empty == [x \in {} |-> x]

EmptyIndex == [vecs |-> Empty, tomb |-> {}, fwd |-> Empty, rev |-> Empty,
               next |-> UpdateBase, count |-> 0]

-----------------------------------------------------------------------------
(* Id translation (astervec_index.cc).                                     *)

is_update_id(i) == i >= UpdateBase

resolve_internal(x, r) == IF r \in DOMAIN x.fwd THEN x.fwd[r] ELSE r

resolve_real(x, i) ==
  IF is_update_id(i) /\ i \in DOMAIN x.rev THEN x.rev[i] ELSE i

is_alive(x, r) ==
  LET i == resolve_internal(x, r) IN i \notin x.tomb /\ i \in DOMAIN x.vecs

\* record_update_mapping drops the reverse entry of the previous version.
record_update_mapping(x, r, i) ==
  [x EXCEPT !.fwd = Set(x.fwd, r, i),
            !.rev = Set(IF r \in DOMAIN x.fwd THEN Without(x.rev, x.fwd[r]) ELSE x.rev, i, r)]

forget_update_mapping(x, r) ==
  [x EXCEPT !.fwd = Without(x.fwd, r),
            !.rev = IF r \in DOMAIN x.fwd THEN Without(x.rev, x.fwd[r]) ELSE x.rev]

tombstone(x, i) == [x EXCEPT !.tomb = @ \cup {i}]

\* Mutant of observe_update_id: the last id seen, not the largest.
ObserveLast(x, i) == IF is_update_id(i) THEN [x EXCEPT !.next = i + 1] ELSE x

observe_update_id(x, i) ==
  [x EXCEPT !.next = IF is_update_id(i) /\ i >= x.next THEN i + 1 ELSE x.next]

insertNode(x, i, v) == [x EXCEPT !.vecs = Set(x.vecs, i, v)]

\* What Get and GetPayload return for r; a missing row reads as "{}".
PayloadOf(x, t, r) ==
  LET i == resolve_internal(x, r) IN IF i \in DOMAIN t THEN t[i] ELSE {}
Value(x, t, r) ==
  IF is_alive(x, r) THEN <<x.vecs[resolve_internal(x, r)], PayloadOf(x, t, r)>>
                    ELSE <<Gone, {}>>

-----------------------------------------------------------------------------
(* Calls in progress.                                                      *)

Idle == [pc |-> "idle"]
Busy(w) == local[w].pc # "idle"
VectorKinds == {"insert", "reinsert", "update", "delete"}
PayloadKinds == {"set", "patch", "dropkeys"}

\* real_id_lock(r): held by the vector call on r for its whole duration.
Locked(r) == \E w \in Writers :
  Busy(w) /\ local[w].kind \in VectorKinds /\ local[w].real = r
Overlaps(r) == \E w \in Writers : Busy(w) /\ local[w].real = r
PayloadCallOn(r) == \E w \in Writers :
  Busy(w) /\ local[w].kind \in PayloadKinds /\ local[w].real = r

\* The payload a payload call writes over p.
Patched(c, p) ==
  CASE c.kind = "set" -> c.arg
    [] c.kind = "patch" -> p \cup c.arg
    [] c.kind = "dropkeys" -> p \ c.arg

\* The values r may hold once the call c has taken effect.
Outcomes(c) ==
  CASE c.kind = "delete" -> {<<Gone, {}>>}
    [] c.kind \in {"insert", "reinsert", "update"} ->
         {<<c.vec, p>> : p \in IF c.arg # Absent THEN {c.arg}
                               ELSE IF c.kind = "update" THEN {u[2] : u \in want[c.real]}
                               ELSE {{}}}
    [] OTHER -> {IF u[1] = Gone THEN u ELSE <<u[1], Patched(c, u[2])>> : u \in want[c.real]}

\* A vector call that failed may have left the vector without its payload.
Partial(c) == Outcomes(c) \cup {<<o[1], {}>> : o \in Outcomes(c)}

TypeOK ==
  /\ enable_oplog \in BOOLEAN
  /\ phase \in {"open", "down", "replaying", "dropping", "replayed"}
  /\ DOMAIN ix.vecs \subseteq Nat /\ \A i \in DOMAIN ix.vecs : ix.vecs[i] \in Vecs
  /\ ix.tomb \subseteq Nat
  /\ DOMAIN ix.fwd \subseteq RealIds
  /\ \A r \in DOMAIN ix.fwd : ix.fwd[r] \in Nat /\ is_update_id(ix.fwd[r])
  /\ \A i \in DOMAIN ix.rev : ix.rev[i] \in RealIds
  /\ ix.next \in Nat /\ ix.count \in Int
  /\ \A i \in DOMAIN rows : i \in Nat /\ rows[i] \in Payloads
  /\ at \in 1..(Len(log) + 1)
  /\ dirty \in BOOLEAN
  /\ blurred \subseteq RealIds

\* bulkBuildImpl: n vectors and the count; no versions, no tombstones.
BulkLoaded(b) == [EmptyIndex EXCEPT !.vecs = b, !.count = Cardinality(DOMAIN b)]

\* The store is new; or a bulk load filled it, each id was given an empty
\* payload, and the last two checkpoints cover all that.
Init ==
  /\ enable_oplog \in LogModes
  /\ phase = "open"
  /\ \E b \in Loads :
       /\ ix = BulkLoaded(b)
       /\ rows = [i \in DOMAIN b |-> {}]
       /\ want = [r \in RealIds |-> {IF r \in DOMAIN b THEN <<b[r], {}>> ELSE <<Gone, {}>>}]
       /\ prev = IF DOMAIN b = {} THEN NoFile ELSE [lsn |-> 0, ix |-> ix]
  /\ main = [lsn |-> 0, ix |-> ix]
  /\ log = <<>>
  /\ dirty = FALSE
  /\ at = 1
  /\ local = [w \in Writers |-> Idle]
  /\ blurred = {}
  /\ used = [calls |-> 0, crashes |-> 0, failures |-> 0, damage |-> 0]

durable == <<enable_oplog, log, main, prev>>
ghosts == <<want, blurred, used>>

\* Step of w: its call moves on to pc.
Goto(w, pc) == local' = [local EXCEPT ![w].pc = pc]

\* The call of w returns OK: from here on its effect is promised.
Acked(w) ==
  /\ local' = [local EXCEPT ![w] = Idle]
  /\ want' = [want EXCEPT ![local[w].real] = Outcomes(local[w])]
  /\ UNCHANGED <<blurred, used>>

\* The call of w returns an error having done part of its work: it may or
\* may not have taken effect.
Failed(w, values) ==
  /\ local' = [local EXCEPT ![w] = Idle]
  /\ want' = [want EXCEPT ![local[w].real] = @ \cup values]
  /\ UNCHANGED blurred

MoreFaults == used.crashes + used.failures + used.damage < MaxFaults

\* The storage refuses a write.
Fault ==
  /\ used.failures < MaxFailures /\ MoreFaults
  /\ used' = [used EXCEPT !.failures = @ + 1]

CanBegin(w) == phase = "open" /\ ~Busy(w) /\ used.calls < MaxCalls
Begun(w, c) ==
  /\ local' = [local EXCEPT ![w] = c]
  /\ used' = [used EXCEPT !.calls = @ + 1]
  /\ dirty' = TRUE

-----------------------------------------------------------------------------
(* Insert and Update, each of which routes to the other on is_alive under  *)
(* the lock it already holds.                                              *)

\* The internal id an upsert writes under: the real id itself only for the
\* first insert of that id.
Target(kind, r) == IF kind = "insert" THEN r ELSE ix.next

\* Takes the gate and the lock of r for a call that writes r under a new
\* internal id.  A call that waits for the lock with the shared gate in hand
\* changes nothing but that checkpoints wait too, so it is as if it had
\* arrived later.
BeginUpsert(w, r, v, p, kind) ==
  /\ CanBegin(w)
  /\ ~Locked(r)
  /\ Begun(w, [pc |-> "log", kind |-> kind, real |-> r, vec |-> v, arg |-> p, lsn |-> 0,
               new |-> Target(kind, r), old |-> resolve_internal(ix, r), read |-> {}])
  /\ ix' = IF kind = "insert" THEN ix ELSE [ix EXCEPT !.next = @ + 1]
  /\ blurred' = IF PayloadCallOn(r) THEN blurred \cup {r} ELSE blurred
  /\ UNCHANGED <<phase, rows, durable, at, want>>

\* insertDense; an id that was deleted is re-inserted under an update id.
BeginInsert(w, r, v, p) ==
  /\ ~is_alive(ix, r)
  /\ BeginUpsert(w, r, v, p, IF r \in ix.tomb THEN "reinsert" ELSE "insert")

\* updateDense.
BeginUpdate(w, r, v, p) ==
  /\ is_alive(ix, r)
  /\ BeginUpsert(w, r, v, p, "update")

\* logOp; with the log off the call just goes on.
LogOp(w) ==
  LET c == local[w] IN
  /\ c.pc = "log"
  /\ IF enable_oplog
     THEN log' = Append(log, [op |-> IF c.kind = "reinsert" THEN "insert" ELSE c.kind,
                              real |-> c.real, new |-> c.new, old |-> c.old,
                              vec |-> c.vec, arg |-> c.arg])
     ELSE UNCHANGED log
  /\ local' = [local EXCEPT ![w].lsn = Len(log'),
                            ![w].pc = CASE c.kind = "reinsert" -> "map"
                                        [] c.kind = "delete" -> "tomb"
                                        [] OTHER -> "node"]
  /\ UNCHANGED <<enable_oplog, phase, ix, rows, main, prev, dirty, at, ghosts>>

\* logOp fails: the call returns; the update id it took stays consumed.
LogOpFails(w) ==
  /\ local[w].pc = "log"
  /\ enable_oplog
  /\ Fault
  /\ Failed(w, {})
  /\ UNCHANGED <<phase, ix, rows, durable, dirty, at>>

\* insertNode succeeds; a new live vector is counted.
InsertNode(w) ==
  LET c == local[w]
      x == insertNode(ix, c.new, c.vec)
  IN
  /\ c.pc = "node"
  /\ ix' = IF c.kind = "update" THEN x ELSE [x EXCEPT !.count = @ + 1]
  /\ Goto(w, IF c.kind = "update" THEN "map" ELSE "row")
  /\ UNCHANGED <<phase, rows, durable, dirty, at, ghosts>>

\* insertNode fails, before or after it stored the vector.
InsertNodeFails(w) ==
  LET c == local[w] IN
  /\ c.pc = "node"
  /\ Fault
  /\ ix' \in {ix, insertNode(ix, c.new, c.vec)}
  /\ Goto(w, "abort")
  /\ UNCHANGED <<phase, rows, durable, dirty, at, want, blurred>>

\* logAbort, whose own failure is only reported; the call returns the error.
LogAbort(w) ==
  LET c == local[w] IN
  /\ c.pc = "abort"
  /\ \/ /\ enable_oplog
        /\ log' = Append(log, [op |-> "abort", aux |-> c.lsn])
        /\ Failed(w, IF c.kind = "update" THEN {} ELSE Partial(c))
        /\ UNCHANGED used
     \/ /\ enable_oplog /\ Fault
        /\ Failed(w, Partial(c))
        /\ UNCHANGED log
     \/ /\ ~enable_oplog
        /\ Failed(w, Partial(c))
        /\ UNCHANGED <<log, used>>
  /\ UNCHANGED <<enable_oplog, phase, ix, rows, main, prev, dirty, at>>

\* record_update_mapping: before the node for a re-insert, after it for an
\* update.
RecordMapping(w) ==
  LET c == local[w] IN
  /\ c.pc = "map"
  /\ ix' = record_update_mapping(ix, c.real, c.new)
  /\ Goto(w, IF c.kind = "update" THEN "tomb" ELSE "node")
  /\ UNCHANGED <<phase, rows, durable, dirty, at, ghosts>>

\* Mutant of Tombstone: an update leaves no tombstone.
TombstoneDeletedOnly(w) ==
  LET c == local[w] IN
  /\ c.pc = "tomb"
  /\ ix' = IF c.kind = "delete" THEN tombstone(ix, c.old) ELSE ix
  /\ Goto(w, IF c.kind = "update" /\ c.arg = Absent THEN "read"
             ELSE IF c.kind = "delete" THEN "drop" ELSE "row")
  /\ UNCHANGED <<phase, rows, durable, dirty, at, ghosts>>

\* tombstone: the previous version of an update, the live one of a delete.
Tombstone(w) ==
  LET c == local[w] IN
  /\ c.pc = "tomb"
  /\ ix' = tombstone(ix, c.old)
  /\ Goto(w, IF c.kind = "update" /\ c.arg = Absent THEN "read"
             ELSE IF c.kind = "delete" THEN "drop" ELSE "row")
  /\ UNCHANGED <<phase, rows, durable, dirty, at, ghosts>>

\* An update without a payload reads the old row to carry it over.
ReadOldRow(w) ==
  LET c == local[w] IN
  /\ c.pc = "read"
  /\ c.kind \in VectorKinds
  /\ local' = [local EXCEPT ![w].pc = IF c.old \in DOMAIN rows THEN "row" ELSE "drop",
                            ![w].read = IF c.old \in DOMAIN rows THEN rows[c.old] ELSE {}]
  /\ UNCHANGED <<phase, ix, rows, durable, dirty, at, ghosts>>

\* The read fails with another status than NotFound: nothing is carried over,
\* the row of the old version is deleted all the same, and the call returns OK.
ReadOldRowFails(w) ==
  LET c == local[w] IN
  /\ c.pc = "read"
  /\ c.kind \in VectorKinds
  /\ Fault
  /\ Goto(w, "drop")
  /\ blurred' = blurred \cup {c.real}
  /\ UNCHANGED <<phase, ix, rows, durable, dirty, at, want>>

\* Writes the row of the new version; an insert without a payload has none.
WriteRow(w) ==
  LET c == local[w] IN
  /\ c.pc = "row"
  /\ rows' = IF c.kind = "update" /\ c.arg = Absent THEN Set(rows, c.new, c.read)
             ELSE IF c.arg # Absent THEN Set(rows, c.new, c.arg) ELSE rows
  /\ IF c.kind = "update" THEN Goto(w, "drop") /\ UNCHANGED ghosts ELSE Acked(w)
  /\ UNCHANGED <<phase, ix, durable, dirty, at>>

\* Deletes the row of the superseded or deleted version.
DropRow(w) ==
  LET c == local[w] IN
  /\ c.pc = "drop"
  /\ rows' = Without(rows, c.old)
  /\ IF c.kind = "delete" THEN Goto(w, "forget") /\ UNCHANGED ghosts ELSE Acked(w)
  /\ UNCHANGED <<phase, ix, durable, dirty, at>>

\* The payload store refuses a write: the call returns at once.
RowFails(w) ==
  LET c == local[w] IN
  /\ c.pc \in {"row", "drop"}
  /\ c.kind \in VectorKinds
  /\ c.pc = "row" => c.kind = "update" \/ c.arg # Absent
  /\ Fault
  /\ Failed(w, Partial(c))
  /\ UNCHANGED <<phase, ix, rows, durable, dirty, at>>

-----------------------------------------------------------------------------
(* Delete.                                                                 *)

\* A vector that is not located is nothing to delete: OK at once.
DeleteNothing(w, r) ==
  /\ CanBegin(w)
  /\ ~Locked(r)
  /\ resolve_internal(ix, r) \notin DOMAIN ix.vecs
  /\ want' = [want EXCEPT ![r] = {<<Gone, {}>>}]
  /\ used' = [used EXCEPT !.calls = @ + 1]
  /\ dirty' = TRUE
  /\ UNCHANGED <<phase, ix, rows, durable, at, local, blurred>>

BeginDelete(w, r) ==
  LET i == resolve_internal(ix, r) IN
  /\ CanBegin(w)
  /\ ~Locked(r)
  /\ i \in DOMAIN ix.vecs
  /\ Begun(w, [pc |-> "log", kind |-> "delete", real |-> r, vec |-> Gone, arg |-> Absent,
               lsn |-> 0, new |-> i, old |-> i, read |-> {}, alive |-> is_alive(ix, r)])
  /\ blurred' = IF PayloadCallOn(r) THEN blurred \cup {r} ELSE blurred
  /\ UNCHANGED <<phase, ix, rows, durable, at, want>>

\* Mutant of ForgetMapping: an id that is not alive is uncounted too.
UncountAlways(w) ==
  LET x == forget_update_mapping(ix, local[w].real) IN
  /\ local[w].pc = "forget"
  /\ ix' = [x EXCEPT !.count = @ - 1]
  /\ Acked(w)
  /\ UNCHANGED <<phase, rows, durable, dirty, at>>

\* The id maps forget r; only a live vector is uncounted.
ForgetMapping(w) ==
  LET c == local[w]
      x == forget_update_mapping(ix, c.real)
  IN
  /\ c.pc = "forget"
  /\ ix' = IF c.alive THEN [x EXCEPT !.count = @ - 1] ELSE x
  /\ Acked(w)
  /\ UNCHANGED <<phase, rows, durable, dirty, at>>

-----------------------------------------------------------------------------
(* SetPayload, UpdatePayload and DeletePayloadKeys: under the write gate   *)
(* but not the lock of the id.                                             *)

BeginPayload(w, r, kind, p) ==
  /\ CanBegin(w)
  /\ kind \in PayloadKinds
  /\ kind # "dropkeys" => is_alive(ix, r)
  /\ Begun(w, [pc |-> IF kind = "set" THEN "put" ELSE "read", kind |-> kind, real |-> r,
               arg |-> p, lsn |-> 0, new |-> resolve_internal(ix, r), read |-> {}])
  /\ blurred' = IF Overlaps(r) \/ (is_alive(ix, r) /\ <<Gone, {}>> \in want[r])
                THEN blurred \cup {r} ELSE blurred
  /\ UNCHANGED <<phase, ix, rows, durable, at, want>>

\* MetadataStore::Update and DeleteKeys read the row before they write it.
ReadRow(w) ==
  LET c == local[w] IN
  /\ c.pc = "read"
  /\ c.kind \in PayloadKinds
  /\ c.new \in DOMAIN rows \/ c.kind = "patch"
  /\ local' = [local EXCEPT ![w].pc = "put",
                            ![w].read = IF c.new \in DOMAIN rows THEN rows[c.new] ELSE {}]
  /\ UNCHANGED <<phase, ix, rows, durable, dirty, at, ghosts>>

\* DeleteKeys of a row that does not exist is NotFound.
NoSuchRow(w) ==
  LET c == local[w] IN
  /\ c.pc = "read"
  /\ c.kind = "dropkeys"
  /\ c.new \notin DOMAIN rows
  /\ local' = [local EXCEPT ![w] = Idle]
  /\ UNCHANGED <<phase, ix, rows, durable, dirty, at, ghosts>>

PutRow(w) ==
  LET c == local[w] IN
  /\ c.pc = "put"
  /\ rows' = Set(rows, c.new, Patched(c, c.read))
  /\ Acked(w)
  /\ UNCHANGED <<phase, ix, durable, dirty, at>>

-----------------------------------------------------------------------------
(* Checkpoints.                                                            *)

\* checkpointLocked up to the installation: the old file becomes .prev.
Installed(x, lsn) ==
  /\ main' = [lsn |-> lsn, ix |-> x]
  /\ prev' = IF main = NoFile THEN prev ELSE main
  /\ dirty' = FALSE

\* The exclusive gate waits for every call and keeps new ones out.
GateFree == \A w \in Writers : ~Busy(w)

\* Mutant of Checkpoint: calls in flight are not waited for.
CheckpointUngated ==
  /\ phase = "open"
  /\ Installed(ix, Len(log))
  /\ UNCHANGED <<enable_oplog, phase, ix, rows, log, at, local, ghosts>>

\* A checkpoint with nothing written since the last is skipped.
Checkpoint ==
  /\ phase = "open"
  /\ GateFree
  /\ dirty \/ main = NoFile
  /\ Installed(ix, Len(log))
  /\ UNCHANGED <<enable_oplog, phase, ix, rows, log, at, local, ghosts>>

-----------------------------------------------------------------------------
(* Crash, load and replay.                                                 *)

\* The calls on r that a crash interrupts after they were logged or, for a
\* payload call, after they began.
Interrupted(r) == {local[w] : w \in {u \in Writers :
  Busy(u) /\ local[u].real = r /\ (local[u].lsn > 0 \/ local[u].kind \in PayloadKinds)}}

\* A process crash: memory is lost; rows, log and checkpoint files stay.
Crash ==
  /\ phase # "down"
  /\ used.crashes < MaxCrashes /\ MoreFaults
  /\ phase' = "down"
  /\ ix' = EmptyIndex
  /\ local' = [w \in Writers |-> Idle]
  /\ want' = [r \in RealIds |-> want[r] \cup UNION {Outcomes(c) : c \in Interrupted(r)}]
  /\ at' = 1 /\ dirty' = FALSE
  /\ used' = [used EXCEPT !.crashes = @ + 1]
  /\ UNCHANGED <<rows, durable, blurred>>

\* The latest checkpoint is found damaged when the store is next opened.
DamageMain ==
  /\ phase = "down"
  /\ main \notin {NoFile, Damaged}
  /\ prev # NoFile
  /\ used.damage < MaxDamage /\ MoreFaults
  /\ main' = Damaged
  /\ used' = [used EXCEPT !.damage = @ + 1]
  /\ UNCHANGED <<enable_oplog, phase, ix, rows, log, prev, dirty, at, local, want, blurred>>

\* Open loads main, or falls back to .prev and removes a damaged main.
LoadCheckpoint ==
  /\ phase = "down"
  /\ LET file == IF main \in {NoFile, Damaged} THEN prev ELSE main
     IN ix' = file.ix /\ at' = file.lsn + 1
  /\ main' = IF main = Damaged THEN NoFile ELSE main
  /\ phase' = "replaying"
  /\ UNCHANGED <<enable_oplog, rows, log, prev, dirty, local, ghosts>>

\* Mutant of Aborted: abort records are not read.
NoneAborted == {}

\* Pass 1 of recoverFromOpLog: the operations that failed after logging.
Aborted == {log[l].aux : l \in {k \in DOMAIN log : log[k].op = "abort"}}

\* replayRecord of an insert or update on the index, up to the tombstone.
UpsertReplayed(x, rec) ==
  LET seen   == observe_update_id(x, rec.new)
      mapped == IF is_update_id(rec.new) THEN record_update_mapping(seen, rec.real, rec.new)
                ELSE seen
      stored == insertNode(mapped, rec.new, rec.vec)
  IN IF is_alive(x, rec.real) THEN stored ELSE [stored EXCEPT !.count = @ + 1]

DeleteReplayed(x, rec) ==
  LET dead == forget_update_mapping(tombstone(x, rec.new), rec.real)
  IN IF is_alive(x, rec.real) THEN [dead EXCEPT !.count = @ - 1] ELSE dead

\* replayRecord on the index, for a record that is not skipped.
Replayed(x, rec) ==
  CASE rec.op = "insert" -> UpsertReplayed(x, rec)
    [] rec.op = "update" -> tombstone(UpsertReplayed(x, rec), rec.old)
    [] rec.op = "delete" -> DeleteReplayed(x, rec)

\* replayRecord on the payload rows: only a missing row is filled.
ReplayedRows(t, rec) ==
  IF rec.op = "delete" THEN Without(t, rec.new)
  ELSE IF rec.new \in DOMAIN t THEN t
  ELSE IF rec.arg # Absent THEN Set(t, rec.new, rec.arg)
  ELSE IF rec.op = "update" /\ rec.old \in DOMAIN t THEN Set(t, rec.new, t[rec.old])
  ELSE t

\* A record that was aborted only keeps its update id consumed.
ReplaySkipped ==
  /\ phase = "replaying"
  /\ at <= Len(log)
  /\ at \in Aborted \/ log[at].op = "abort"
  /\ ix' = IF log[at].op \in {"insert", "update"} THEN observe_update_id(ix, log[at].new) ELSE ix
  /\ at' = at + 1
  /\ dirty' = TRUE
  /\ UNCHANGED <<phase, rows, durable, local, ghosts>>

ReplayRecord ==
  /\ phase = "replaying"
  /\ at <= Len(log)
  /\ at \notin Aborted /\ log[at].op # "abort"
  /\ ix' = Replayed(ix, log[at])
  /\ rows' = ReplayedRows(rows, log[at])
  /\ IF log[at].op = "update" THEN phase' = "dropping" /\ UNCHANGED at
                              ELSE at' = at + 1 /\ UNCHANGED phase
  /\ dirty' = TRUE
  /\ UNCHANGED <<durable, local, ghosts>>

\* Reads of rows fail during the replay of an upsert and count as missing
\* rows: a newer payload is written over, or an old one not carried over.
ReplayReadFails ==
  /\ phase = "replaying"
  /\ at <= Len(log)
  /\ at \notin Aborted /\ log[at].op \in {"insert", "update"}
  /\ Fault
  /\ LET rec == log[at] IN
       \E lost \in SUBSET {rec.new, rec.old} :
         LET new == ReplayedRows([i \in DOMAIN rows \ lost |-> rows[i]], rec) IN
         /\ ix' = Replayed(ix, rec)
         /\ rows' = [i \in DOMAIN rows \cup DOMAIN new |->
                      IF i \in DOMAIN new THEN new[i] ELSE rows[i]]
         /\ blurred' = blurred \cup {rec.real}
         /\ IF rec.op = "update" THEN phase' = "dropping" /\ UNCHANGED at
                                 ELSE at' = at + 1 /\ UNCHANGED phase
  /\ dirty' = TRUE
  /\ UNCHANGED <<durable, local, want>>

\* A scan, replayRecord, OpLog::Open or the final checkpoint fails: so does
\* Open.  What was replayed is forgotten, but for the payload rows.
RecoveryFails ==
  /\ phase \in {"replaying", "dropping", "replayed"}
  /\ Fault
  /\ phase' = "down"
  /\ ix' = EmptyIndex
  /\ at' = 1 /\ dirty' = FALSE
  /\ UNCHANGED <<rows, durable, local, want, blurred>>

\* Mutant of ReplayDropRow: the row of the old version stays.
ReplayKeepsRow ==
  /\ phase = "dropping"
  /\ at' = at + 1
  /\ phase' = "replaying"
  /\ UNCHANGED <<ix, rows, durable, dirty, local, ghosts>>

\* The end of an update's replay: the row of the old version is deleted.
ReplayDropRow ==
  /\ phase = "dropping"
  /\ rows' = Without(rows, log[at].old)
  /\ at' = at + 1
  /\ phase' = "replaying"
  /\ UNCHANGED <<ix, durable, dirty, local, ghosts>>

ReplayEnd ==
  /\ phase = "replaying"
  /\ at > Len(log)
  /\ phase' = "replayed"
  /\ UNCHANGED <<ix, rows, durable, dirty, at, local, ghosts>>

\* Recovery settles whether an interrupted call took effect; a failed call
\* may still come or go when an older checkpoint is replayed.
RecoveredWant(r) == IF used.failures = 0 THEN {Value(ix, rows, r)} ELSE want[r]

\* The end of recoverFromOpLog: what was replayed becomes a checkpoint.
FinishOpen ==
  /\ phase = "replayed"
  /\ IF dirty THEN Installed(ix, Len(log)) ELSE UNCHANGED <<main, prev, dirty>>
  /\ phase' = "open"
  /\ want' = [r \in RealIds |-> RecoveredWant(r)]
  /\ UNCHANGED <<enable_oplog, ix, rows, log, at, local, blurred, used>>

Recover == \/ LoadCheckpoint \/ ReplaySkipped \/ ReplayRecord \/ ReplayReadFails
           \/ ReplayDropRow \/ ReplayEnd \/ FinishOpen \/ RecoveryFails

Step(w) == \/ LogOp(w) \/ LogOpFails(w) \/ InsertNode(w) \/ InsertNodeFails(w)
           \/ LogAbort(w) \/ RecordMapping(w) \/ Tombstone(w) \/ ReadOldRow(w) \/ ReadOldRowFails(w)
           \/ WriteRow(w) \/ DropRow(w) \/ RowFails(w) \/ ForgetMapping(w)
           \/ ReadRow(w) \/ NoSuchRow(w) \/ PutRow(w)

Begin(w) ==
  \E r \in RealIds :
    \/ BeginDelete(w, r) \/ DeleteNothing(w, r)
    \/ \E p \in Payloads :
         \/ \E v \in Vecs, q \in {p, Absent} : BeginInsert(w, r, v, q) \/ BeginUpdate(w, r, v, q)
         \/ \E kind \in PayloadKinds : BeginPayload(w, r, kind, p)

Next == \/ \E w \in Writers : Begin(w) \/ Step(w)
        \/ Checkpoint \/ Crash \/ DamageMain \/ Recover

Spec == Init /\ [][Next]_vars

-----------------------------------------------------------------------------
(* Properties.                                                             *)

Running == phase \in {"open", "replayed"}
Settled(r) == Running /\ ~Overlaps(r)

\* With the log on, what an id holds is what the calls that returned say:
\* the last acknowledged upsert, delete and payload call, whatever crashes,
\* damaged checkpoints and interrupted replays came between; a call cut
\* short by a crash took effect as a whole or not at all, and a failed one
\* may in addition have left the vector without its payload.  (A blurred
\* id is only held to its vector: see PayloadWritesSerialized.)
AckedWritesSurvive ==
  enable_oplog => \A r \in RealIds : Settled(r) =>
    IF r \in blurred THEN Value(ix, rows, r)[1] \in {u[1] : u \in want[r]}
                   ELSE Value(ix, rows, r) \in want[r]

LiveVersions == DOMAIN ix.vecs \ ix.tomb
CurrentVersions == {resolve_internal(ix, r) : r \in {q \in RealIds : is_alive(ix, q)}}

\* Between calls, every version a search can return is the current version
\* of exactly one live id and translates back to it; each fault may leave
\* at most one version behind.
OneLiveVersion ==
  Running /\ GateFree =>
    /\ Cardinality(LiveVersions \ CurrentVersions) <= used.failures
    /\ \A r \in RealIds : is_alive(ix, r) => resolve_real(ix, resolve_internal(ix, r)) = r

\* An update id that the log, a row or the index has ever seen is never
\* handed out again, not even after a crash: the graph may still hold its
\* edges (observe_update_id).
UpdateIdsFresh ==
  phase = "open" /\ enable_oplog =>
    \A i \in DOMAIN rows \cup DOMAIN ix.vecs \cup ix.tomb
             \cup {log[l].new : l \in {k \in DOMAIN log : log[k].op # "abort"}} :
      is_update_id(i) => i < ix.next

\* live_count_ is the number of live ids between calls, also after a crash
\* and a replay; each fault may put it off by one.
CountWithinFaults ==
  Running /\ GateFree =>
    LET alive == Cardinality({r \in RealIds : is_alive(ix, r)})
    IN ix.count - alive \in (-used.failures)..used.failures

OrphanRows == DOMAIN rows \ CurrentVersions

\* Payload rows belong to current versions: no replay and no upsert leaves
\* the row of a dead version behind, but for the one a fault cut short.
RowsBelongToLiveIds ==
  Running /\ GateFree /\ blurred = {} /\ enable_oplog => Cardinality(OrphanRows) <= used.failures

-----------------------------------------------------------------------------
(* What the documents say and the code does not do.                        *)

\* "Writes to the same real id are serialized by the DB layer": no order of
\* whole calls leaves a row under a version that is not current.
PayloadWritesSerialized ==
  phase = "open" /\ GateFree /\ used.failures = 0 => OrphanRows = {}

\* "every acknowledged insert, update and delete survives a process crash":
\* an id whose last call that returned OK deleted it is not alive again.
AckedDeletesSurvive ==
  enable_oplog => \A r \in RealIds :
    Settled(r) /\ want[r] = {<<Gone, {}>>} => ~is_alive(ix, r)
=============================================================================
