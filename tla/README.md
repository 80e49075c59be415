# A TLA+ model of AsterVec

AsterVec is an embedded vector database: an HNSW graph whose layer 0 lives in
a graph store (Aster, a RocksDB derivative), vectors in a paged file of its
own, JSON payloads in a second RocksDB, and an operation log that makes
acknowledged writes survive a process crash; an HTTP server puts it behind a
REST interface. This directory holds the models of the parts where several
threads, a failing write or a crash meet, the TLC runs that check them and the
TLAPS proofs about them. Paths below are relative to `src/`.

## 1. The system

| component | source | state it keeps | operations |
|---|---|---|---|
| write path | `src/astervec_db.cc` | write gate, lock of each real id, live count, checkpoint trigger | Insert, Update, Delete, Get, Set/Update/DeletePayload, Checkpoint, BulkBuild, Close |
| store lifecycle | `src/astervec_db.cc` (`Open`) | checkpoint file, `.prev`, `.reinit_bak`, creating marker | Open, reinit, recovery, Close |
| operation log | `src/oplog.cc` | segment files, next lsn, broken latch | Append, TruncateBelow, Scan, Open |
| id translation | `src/astervec_index.cc`, `include/id_types.h` | real-to-internal and internal-to-real maps, tombstones, next update id | resolve, record, forget, tombstone, observe |
| point ids | `src/astervec_db.cc`, `src/metadata_store.cc`, `include/point_id.h` | key to dense id and back, next dense id | resolve, allocate, observe at replay, bulk load |
| vector storage | `include/disk_vector.h` | pages, open pages, free slots, location tables, write buffers, page cache, capacity | store, read, batch read, flush, sync, serialize, deserialize |
| HNSW index: insert | `src/astervec_index.cc` | `nodes_`, layer-0 edges, `entry_point_`, `max_layer_` | insertNode |
| HNSW index: search | `src/astervec_index.cc`, `include/astervec_index.h` | visited stamps of a thread, Bloom filter of updated ids | knn search, filtered search, direct-I/O switch |
| edge cache | `include/astervec_index.h` | arena, LRU links, open-addressing table | get, put, erase |
| payload store | `src/metadata_store.cc` | rows by internal id | Put, Get, Update, DeleteKeys, Delete |
| Bloom filter, predicates | `src/bloom_filter.cc`, `src/metadata.cc` | bits; parsed filter | insert, query, rebuild; evaluate |
| bulk build | `src/astervec_bulk_build.cc`, `src/astervec_rnn_descent.cc` | graph under construction | bulkBuild |
| HTTP server | `src/astervec_http.cc` | current database, its configuration, bootstrap file | create, delete, data requests, start, shutdown |
| Python binding, utilities | `python/`, `include/logger.h`, ... | none of their own | |

**How they interact.** A public write takes the shared *write gate* and the
lock of its real id (in a keyed store, first the lock of the key's shard, to
find or allocate a dense id), chooses an internal id, appends to the operation
log, calls `insertNode` (which takes a slot in the vector file, writes the
record, and links the node in the graph), updates the id maps and tombstones,
and writes the payload row. A checkpoint takes the gate exclusively, flushes
the vector buffers, syncs the graph and the id map, writes the metadata file
next to its predecessor and truncates the log. `Open` loads the newest readable
metadata file and replays the log after it. Searches take no database lock at
all. The HTTP server holds one database behind a mutex; a request copies the
shared pointer and goes on without it.

**What is hard.** (a) *Crashes*: the graph store and the payload store recover
their own writes at once, the index and the vector locations only up to the
last checkpoint, and the log must close exactly that gap, with a checkpoint
file or a log tail that may be damaged; creating, reinitialising and deleting
a store take many steps on many files. (b) *Partial failure*: a call may fail
after any of its steps; an abort record is then the only thing that keeps the
replay from applying it. (c) *Interleaving*: writers on different ids share
sections, pages, buffers, the id counter and the graph; payload calls do not
take the lock of their id; `entry_point_` and `max_layer_` are separate
atomics; page loads and edge-list loads are read-then-install; a search meets
every intermediate state of an update; an HTTP request may use a database that
a DELETE has replaced. (d) *Limits*: buffer cap, page cache, neighbour lists,
capacity growth, 16-bit visited stamps, the probe sequences of the edge cache,
the largest dense id.

What makes each part correct: the log gives back the whole history and
nothing else; an acknowledged write is still there after any crash and replay;
an id has one live version; an update id is never handed out twice; a key has
one dense id for ever; a slot belongs to one vector; a located vector reads
back; nothing leads a search to a vector that cannot be read; the graph keeps
every node an edge; a search undisturbed by writers returns exactly the
nearest live matching versions it could reach, and a disturbed one only what
was true at some moment while it ran; a crash never leaves a store that cannot
be opened or that mixes the files of two lives; every HTTP request is answered,
and a restart serves the index the last answers spoke of. The full list of
hazards, each with its line and the properties that cover it, is in
`PROJECT.json`.

## 2. The modules

**`OpLog`** models `oplog.cc` with the lsn bookkeeping of checkpoints. A
segment file is a sequence of records, each intact or torn; segments are keyed
by their first lsn, as the files are by name. Actions: `AppendRecord`,
`AppendFails` (a torn tail, cut off or latched `broken`), `RotateFails`,
`Checkpoint` and `CheckpointFails` (up to each rename), `Crash`, `PowerLoss`,
`LoadMain`/`LoadPrev`, the scan record by record (`ScanSegment`, `SkipRecord`,
`StopAtGap`, `AcceptRecord`, `ScanEnd`) and `OpLog::Open` in its two steps
(stale segments removed, then one created). `hist` remembers what was appended
under each lsn, so that a record of an abandoned history is told from a live
one.

**`AsterVecDB`** models the write path and recovery. Every critical step of
insertDense, updateDense, deleteDense and the payload calls is an action of
its own, so that a crash, a fault or another writer may fall between any two:
`LogOp`, `InsertNode`, `RecordMapping`, `Tombstone`, `ReadOldRow`, `WriteRow`,
`DropRow`, `ForgetMapping`, `ReadRow`, `PutRow`, and the failures
`LogOpFails`, `InsertNodeFails`, `LogAbort`, `RowFails`, `ReadOldRowFails`. A
call takes the gate and the lock of its id in one step, since nothing others can
see lies between the two. A record's lsn is its
place in `log`: that a scan returns exactly the suffix after the checkpoint is
what `OpLog` establishes. Replay is step by step too (`ReplaySkipped`,
`ReplayRecord`, `ReplayDropRow`), because a crash during recovery is followed
by another one; it may find its reads failing (`ReplayReadFails`), or end Open
with an error (`RecoveryFails`). `want` is a history variable: for each id the set of values
the calls so far allow it to have. A call that returned OK leaves one; a call
that was cut short or failed leaves the alternatives.

**`SlotAllocator`** models where `PagedVectorStorage` puts a record:
`TakeFree`, `TakeOpen`, and the two-phase allocation of a fresh page
(`FreshPage` under the allocation mutex, `PublishPage` under the section's),
`WriteBytes`/`WriteFails`, `AssignLocation`, `ExpandCapacity`, `Save`
(serializeMetadata) and `Reopen` (deserializeMetadata, which rebuilds free
slots and open pages from the location tables).

**`VectorPages`** extends `SlotAllocator` with the bytes: the section write
buffer (`BufferWrite`, with the eviction of another section's buffer when the
cap is reached), the write that goes round it (`Bypass`, `DirectWrite`), the
cache update that follows, and `loadPageToCache` in its three unlocked steps
(`Pread`, `Overlay`, `Install`). A `Flush` may leave a page short in the file,
as `flushSectionWriteBuf` ignores what `pwrite` returns. `Read` is what
`readVectorFromDisk` returns. Two ghosts remember the pages that may have lost a
record: `torn`, those a flush of which fell short, and `overtaken`, those where
a later slot went straight to the file while the first slot's writer was still
to start the buffer; a cached page is `late` if its load overlapped a change.

**`HnswGraph`** models `insertNode`: publication in `nodes_`, the race to be
the first node, the descent, the search and selection on each layer, the
storing of the vector, the layer-0 edges through the graph store and the edge
cache, the upper links with their shrinks, the layer-0 shrink and the
promotion. Distances are abstracted: a search may stop anywhere, a selection
may be any non-empty set of at most `m_`; the only fact about distances the
model keeps is that a shrink keeps one of the nearest candidates (`Rank`,
`Closest`), as both selection algorithms start with one. Several may be equally
near; which of them a shrink keeps is then left open. A failure (`Fails`) is one of the graph
store, of the storing of the vector, or of a vector read that throws in a search
or a shrink; one in an upper shrink leaves the list one too long (`Unshrunk`).

**`Search`** models `knnSearchK` and `searchLayer` beside the writers they do
not lock out. A search descends, seeds, expands the nearest candidate, visits
its neighbours one by one (`Expand`, `Visit`) with the visited stamps of its
thread, finishes (tombstones and, with a filter, payload rows), and then
checks and translates each hit (`CheckHit`, `ResolveHit`) under separate
locks. Between any two of these steps an update may publish a new version
(`Premap`, `Publish`), map it (`RecordMapping`), tombstone the old one
(`TombstoneOld`) and move its row, or a delete may run. The stamps are counters
of `DenseStamps` and `MapStamps` values and wrap, as the 16-bit ones do; a list is
taken from the edge cache if it is there (`getEdgesCached`), which another thread
fills in two steps (`Load`, `Store`) and a write empties list by list
(`EraseCached`); the
Bloom filter in front of the version map is modelled with its two hash probes
and its rebuild when it is full; predicates are evaluated as `metadata.cc`
does on a row that may be missing. Here distances are real ones: vectors are
points on a line. How an insert chooses neighbours is left to `HnswGraph`, the
eviction of cached lists to `EdgeCache`.

**`EdgeCache`** models one shard of the edge cache at the level of its arena:
intrusive links, free list, table with linear probing and backward-shift
deletion, and the varint encoding of a list. **`LruCache`** says in thirty
lines what a shard promises; `EdgeCache!LruSpec` is the refinement.

**`PointKeys`** models the key map of a keyed store: `LookupKey` under the
shard's lock, `AllocateId` (an atomic counter), `PutKey` (both rows in one
batch), `LogOp`, `Apply`, the failures of each, `BulkBuild`/`BulkPutKeys`,
the checkpoint's `SyncWAL` and `WriteMetadataFile`, `Crash` and `PowerLoss`
(which cuts the two unsynced logs at points of their own), and the replay,
which re-creates rows the id map has lost. **`KeyMap`** says what callers may
rely on: an assignment never changes, no two keys share an id, and a power loss
undoes only assignments that no checkpoint made durable.
`PointKeys!KeyMapSpec` is the refinement.

**`StoreLifecycle`** models `Open` step by step over the files of a store:
`StageMetadata` (renaming the checkpoint away for a reinit, restoring it after
an interrupted one; the older backup goes in a step before, `StageRename`
follows), `ResolveEncoding` (from the main file, its predecessor,
the marker or the environment), `WriteCreateMarker`, `OpenGraph`,
`OpenVectors`, `RemoveOldRows`, `RemoveOldLog`, `LoadMetadata` with its
fallback, `RemoveBackup`, `RemoveMarker`, `OpenMetadataStore`,
`RecoverFromOpLog`, `StartLog`, `DropLog`; the checkpoint file by file
(`WriteTmp`, `LinkPrev`, `RenameTmp`), whose failure ends an Open that needs it
and is survived by a running store; `Close`, `Crash` between any two steps and
`Damage` of the main checkpoint file at any of them. `LinkPrev` is a hard link:
until the rename main and `.prev` are one file (`linked`), and damage of the one
is damage of the other. A store that is created or reinitialised begins a new
*life*, and every file remembers the life that made it. Three ghosts remember how
a store got where it is: `stale`, that a backup outlived its reinit or was put
back all the same; `cutShort`, that a reinit was interrupted and none has
finished since, and with what left of the checkpoint (section 6); and `harm`,
whether damage met the main file beside a `.prev` of its own, as the only copy,
or while nothing could look at it before it becomes `.prev`.

**`HttpServer`** models the server process from `LoadHttpConfigFromEnv` and
`RunHttpServer` to its exit: the pool of workers, `ServerState`, the bootstrap
file, every route, the signal watcher and the graceful shutdown. A data request
takes three steps (copy the handle under the mutex, validate, call the
engine); PUT and DELETE `/v1/index` hold the mutex over several steps, so that
a crash may fall between them. The engine is a set of vectors with a
checkpoint; a handle whose files a DELETE removed is `wiped` and goes on
working on unlinked files. `told` records what answers have promised of each
vector, `served` which index the clients were told of, and `exposed` that since
then a power failure met a bootstrap file no earlier one had shown durable.

Each `MC...` module instantiates its module for TLC (symmetry, the sharing of
sections, distances, hash functions, the graphs a search starts from).
The eight `...Proofs` modules hold the theorems: one each for `OpLog`,
`HnswGraph`, `PointKeys`, `StoreLifecycle` and `HttpServer`;
`VectorPagesProofs` for `SlotAllocator` and for `VectorPages`, which extends it;
and two for `AsterVecDB`, of which `AsterVecDBRecallProofs` (what calls promised)
builds on `AsterVecDBProofs` (that the index is consistent). Every module with
state defines a type invariant `TypeOK` (`AllocTypeOK`); those of the modules
proved about but `HnswGraph` are proved, and all hold on the instances of the
runs.

## 3. The runs

States are distinct states of the complete run.

| run | states | shows |
|---|---|---|
| `oplog` | 385,710 | `ScanComplete`: a scan from either checkpoint file gives every operation of the history that is not in it, unless a power failure took it; `LogCoversCheckpoints`: truncation never cuts what the fallback checkpoint needs; `NoStaleReplay`: no record of an abandoned history is replayed. |
| `db_writers` | 1,565,854 | two writers on two ids and two vectors, from a new or a bulk-loaded store, log on and off, a crash and a damaged checkpoint: `AckedWritesSurvive`, `UpdateIdsFresh`. |
| `db_faults` | 364,956 | two writers of one id with payload calls, two faults of any kind and in any place, recovery included: `AckedWritesSurvive`, `RowsBelongToLiveIds`, `CountWithinFaults`, `OneLiveVersion`. |
| `slots` | 419,675 | two writers that share a section: `SlotsNotShared`, `OpenPagesHaveRoom`, `NoSlotLeaks` (a used slot no one owns is accounted for by a failed store and comes back at the next open). |
| `pages` | 2,515,943 | two threads that share one of two sections, write through one buffer and read through a one-page cache, with a failing flush: `PublishedReadable`, `CheckpointedOnDisk` (each says which pages may have lost a record, and that no other has), `CapsHold`. |
| `graph` | 2,339,968 | two concurrent inserts from the empty graph on, with one failure: `ReachableAreLocated`, `NeverStranded` (of nodes that see no ties), `UpperDegreeBounded`. |
| `search` | 474,411 | a search, with or without a filter, through the edge cache, beside a put or a delete and a thread that fills the cache: `VisitedExact` (the wrapping stamps tell exactly what was visited), `VersionMapSound` (the Bloom filter hides no mapping), `QuietSearchExact` (undisturbed, the nearest live matching points and nothing else, unless a list was put into the cache after its erase), `RacingHitsExplained` (disturbed, nothing the overlapping write does not explain), `SearchReturns`. |
| `edgecache` | 30,122 | every sequence of put, get and erase on one shard: `ShardConsistent` (table, list and free list agree, every key stays reachable from its home slot), `LruSpec` (the shard implements `LruCache`). |
| `keys` | 675,071 | two writers, three keys, a bulk load, crashes and power losses: `MapsInverse`, `HitsAreTheLiveKeys`, `KeyMapSpec` (the store implements `KeyMap`). |
| `lifecycle` | 6,458,534 | create, reinit, reopen, checkpoint, close, a crash between any two steps, a failing checkpoint, a file damaged at any time: `EncodingFits`, `OneLife`, `CrashNeverBricks`, `GoodCopyKept`. |
| `http` | 590,728 | two workers, data and index requests, a signal, a crash or power failure and a restart: `RestartReopens`, `ShutdownKeepsAnswers`, `EveryRequestAnswered`, `SignalStopsRunningServer`. |
| `pages_clobber` | violation | of two writers of a fresh page, the second slot's may write first, straight to the file, and is blanked by the buffer the first one starts (`AlwaysReadable`); the comment the code relies on is quoted in `findings` of `PROJECT.json`. |

Several properties except cases in which the code does lose something, each of
them shown by a counterexample in section 6. `PublishedReadable` and
`CheckpointedOnDisk` except the pages of a failed flush and of an overtaken first
slot, the first also a cached page whose load overlapped a change. `NeverStranded`
speaks of nodes from which no two others are equally far, and
`UpperDegreeBounded` not of a list that names a node `nodes_` lacks after a read
has failed. `QuietSearchExact` excepts a list put back into the cache after its
erase. `OneLife` and `CrashNeverBricks` except a reinit that was cut short,
`EncodingFits` only one that was cut short with `.prev` as the last checkpoint;
`GoodCopyKept` compares the lives of checkpoint and graph outside such a reinit,
and both it and `CrashNeverBricks` except damage of a main file that is also
`.prev` or is loaded already. `RestartReopens` excepts a power failure that met a
bootstrap file nothing had made durable, `AckedWritesSurvive` the payload of an
id whose payload calls overlapped or whose row could not be read, and
`HitsAreTheLiveKeys` a bulk load whose key batch failed.

### Bounds

- `oplog`: two operations (one tells a stale record from a live one under the
  same lsn), three lsns in segments of two records, one damaged item. Rotation,
  truncation of a whole segment, fallback to `.prev` and a reused lsn all occur.
- `db_writers`, `db_faults`: three calls. Two updates of different ids that are
  logged in another order than their update ids were drawn need two ids that
  exist: `Loads` lets the store start bulk-loaded, so that three calls are
  enough. On one id three calls make insert, delete, re-insert and insert,
  update, payload call. At most two faults (`MaxFaults`) of any kind: crash,
  failing read or write, failing recovery, damaged file; at most one of them is a
  failure, since with two an abort
  record can be lost: that is `MCAsterVecDB_lost_delete`, with one writer of one
  id (section 6).
- `slots`, `pages`: two or three slots per page and three or four pages, so
  that pages fill, are reopened half full and a section gets a second page. In
  `pages` one thread writes two sections and the other one of them, both load
  pages, one store fails and one page at a time is short of bytes (`MaxTorn`): the
  race for a fresh page, a late load and a failed flush all occur.
- `graph`: three ids and levels 0 to 2, `m_ = m_max_ = 1`: the second
  neighbour of a node already causes a shrink. The ids are points on a line: the
  middle one sees the other two equally far, the ends see no ties. One operation
  fails. The configuration `m_ = 1` is
  not one a user would choose (the level is drawn with base `m_`); levels are a
  free choice of the model, so it only stands for "the list is full".
- `search`: four real ids of which one has been updated and one deleted, two
  update ids, one graph (a cycle through a tombstone, with another tombstone on
  it and two nodes equally far from the query), three requests (k of two without
  a filter, k of four and of one with a filter that a missing row matches, the last with a scan cap
  of one). The stamps have three values and start at
  the first or the last, so that a search either begins or wraps the counters.
  One search, one write and one list put into the cache by another thread, which
  may read it before the write and put it after: a write has several steps that
  may each fall between any two steps of the search, and before, after or without
  it.
- `edgecache`: capacity three, so a table of 16 slots, and four keys whose
  homes are 14, 15, 15 and 16 (which is 0 again): chains collide, wrap around,
  and a deletion moves entries across the end. The lists are empty or of
  varints of three, two and one byte.
- `keys`: an id space of two with three keys: the counter runs out. Two keys
  share a lock shard.
- `lifecycle`: two lives, two encodings, both id modes, two crashes, the main file
  damaged once, one failing checkpoint.
- `http`: three requests on two workers, two ids, two dimensions, one crash or
  power failure with its restart.
- `CHECK_DEADLOCK FALSE` is used where the bounds on calls end the behaviour.

Threads, vectors and encodings are interchangeable where a cfg declares
`SYMMETRY`, never in a run with a liveness property. `keys` has a refinement
among its properties; it is a safety property and its mapping does not mention
writers, so that permuting them is sound.

### Fairness

Only `Search` and `HttpServer` have liveness properties. Weak fairness is assumed
of code that runs whenever its thread is scheduled, of nothing else: in `Search`
of the walk of a search; in `HttpServer` of each worker inside a request, of the
main thread (start, listen, shutdown) and of the watcher thread, which waits in
`sigwait`. What such a step can wait for is the mutex of `ServerState`, and that
it is released is what the properties are about. No fairness is assumed of
starting searches or writes, of requests or signals arriving, of crashes,
restarts or faults. In the other modules every thread runs through a finite
sequence of steps between locks taken in one step, so that a liveness property
would hold by the shape of the model.

## 4. The proofs

Assumptions are the named ASSUMEs of the modules: bounds are natural numbers;
tokens ("no file", "no location", "no buffer", "nobody") differ from the values
they stand beside; at least one record per segment and one slot per page; the
pool of workers and a bulk load are finite, a dimension is positive; every key
has a shard; the distances from a node to others are integers, ties
allowed, and a set of candidates has a nearest one. Nothing else is assumed about
the number of threads, ids, keys, sections, pages, records or crashes. The
`...UnlessFailed` theorems of `AsterVecDB` have a hypothesis on top, discussed
there.

- `OpLogProofs!TypeCorrect`, `OpLogProofs!ReplayIsFaithful` (`NoStaleReplay`).
  The property is not inductive: an old record is harmless only because of
  where it lies. The invariant adds that an intact record carries the lsn of
  its place in its segment, that the records below `nextLsn` are those of the
  history, that a segment beyond it is behind a gap the scan stops at or will
  be removed before its lsns are handed out again, and where the scan stands in
  this. The steps that lose data (`TruncateBelow`, power loss, a torn tail) all
  only shrink the set of intact records, which one group of lemmas treats
  together.
- `OpLogProofs!LogKeepsWhatCheckpointsNeed` (`LogCoversCheckpoints`) and
  `ScanReturnsEverything` (`ScanComplete`), from `Covered`, which is inductive
  relative to the invariant above. It says that every record of the history
  above the lower of the two checkpoints is intact in its segment (`Kept`), that
  the record after the last one goes where the next append will put it
  (`NextIsOnDisk`), and that a scan has so far returned an unbroken stretch of
  the history (`CompleteScan`), as long as no power failure or damage took a
  record. Truncation is safe because it keeps the segment with the record
  after the *previous* checkpoint; the skip of whole segments is safe because
  the next segment's name bounds the lsns of the one skipped.

- `AsterVecDBProofs!TypeCorrect` and `UpdateIdsAreFresh` (`UpdateIdsFresh`). That
  the next update id is above those of all live versions is not enough: a crash
  falls back to a checkpoint with a smaller counter, and the ids of calls that
  failed or were aborted are in the log and on payload rows. The invariant says
  that an update id found anywhere (index, tombstones, mapping, row, call)
  comes from an insert or update record of the log, which `logOp` wrote before
  anything else, and that the counter of an index lies above the ids of all
  records the index reflects: for the running one all records, for a checkpoint
  those up to its lsn, for an index under replay those replayed. An id that is
  handed out and not logged yet is known to one call only.

- `AsterVecDBProofs!WriteStateConsistent`, `OneLiveVersionUnlessFailed`
  (`OneLiveVersion`) and `CountExactUnlessFailed` (`CountWithinFaults`), while
  `used.failures = 0`: any number of writers, calls, crashes (in recovery too) and
  damaged checkpoints, but no read or write of a storage engine that failed. For the running index the
  invariant is local (`Sound`): the ids of a real id, those of the call that
  holds its lock included, are no other's, and maps, tombstones and count are
  what the step each call is at leaves them. What a replay makes of a
  checkpoint needs more: `hist`, a history of the log, gives for each prefix and
  each id the version, vector and liveness after that prefix, every entry
  following from the one before and one record (`Tells`). It is not a variable of
  the model; the invariant says that there is one, and each `LogOp` extends it.
  Each checkpoint agrees with the entry of its lsn, the index under replay with
  that of its record, and the running index with the last entry but for ids
  whose logged call is under way (`Told`). A checkpoint waits for those calls,
  since it holds the gate exclusively, so nothing is under way in its file.
- `AsterVecDBRecallProofs!PromisesKept`, `AckedWritesSurviveUnlessFailed`
  (`AckedWritesSurvive`) and `RowsBelongUnlessFailed` (`RowsBelongToLiveIds`),
  under the same hypothesis. Payload rows are the difficulty: they are written
  outside the checkpoint, so a replay starts on rows that an earlier run, or an
  interrupted replay, has left ahead of the index. `RowsKept` names the
  records whose effect on the rows of an id may be missing (that of its call in
  flight; after a crash those that every checkpoint leaves to be replayed, `Due`)
  and says that any other row of the id is that of its current version. `FinalRow`
  is what the rows become once these records are carried out, in whatever state
  they are; steps of the replay and crashes leave it as it is, and it is
  one of the values in `want`. A version without a payload must not be filled in
  from the row of an earlier one when a record is replayed a second time:
  `BareRows`. An id on which a payload call overlapped another write is followed
  for its vector only (`KeptVector`), as the property does.
- The hypothesis is not one of convenience. Without it `AckedWritesSurvive` is
  false (`MCAsterVecDB_lost_delete`, section 6), and the bounds of the other
  three grow by one with each call that fails. `UpdateIdsAreFresh` needs it not. With exactly one failure all four
  hold on the instance of `db_faults`; that is only model-checked.

- `VectorPagesProofs!SlotInvariant`, `NoSlotShared` (`SlotsNotShared`),
  `OpenPagesAreOpen` (`OpenPagesHaveRoom`). The invariant is
  `SlotInv`: the types; every located, free, held and saved slot lies below
  its page's count of used slots (`InUse`); a page between its two phases is
  known to its writer only (`FreshPagesPrivate`); the saved image is sound by
  itself, as it comes back at a reopen (`SavedSound`); and the two properties.
  `OpenPagesHaveRoom` makes the defensive fallback of
  `allocateSlotForSection` dead code.
- `VectorPagesProofs!FailedStoresCostTheirSlot` (`NoSlotLeaks`). Each step
  moves a slot from one owner to the next (free list, writer, id) and only a
  failing store drops one, so the set of slots without an owner grows by at most
  one per failure. That `AssignLocation` orphans no slot rests on the callers:
  no id is stored twice at a time, nor while it has a location (`OwnIds`).

- `VectorPagesProofs!TypeCorrect` and `BuffersAndCacheStayWithinCaps`
  (`CapsHold`), for any number of threads. Every live buffer is in the queue of
  its shard, so the search for a victim succeeds; that must survive the requeuing
  of the entries in front of the victim. A buffer lies on a page of its own
  section (`AtHome`), which is what makes "the buffer of a page" one thing.
- `VectorPagesProofs!CheckpointStaysOnDisk` (`CheckpointedOnDisk`) and
  `WhatIsPublishedCanBeRead` (`PublishedReadable`), for any number of writers of a
  section, loads of pages and failing flushes. Records do get lost, in three ways:
  `MCVectorPages_flush`, `MCVectorPages_clobber` and `MCVectorPages_stalecache`
  are the counterexamples. The theorems say that these three are all there is and
  that none reaches beyond the page it happened on: `torn`, `overtaken` and `late`
  are set at the step that does the harm, not where it shows.
  The heart of the invariant is what makes a buffer that starts on a page
  harmless: a writer has the *first* slot of a page to write only right after it
  added the page, which is then empty and younger than the checkpoint
  (`FirstSlots`). First slots never come back from a free list: a reopen finds
  every page's first slot located, because a checkpoint sees no store under way
  and a store into a first slot goes through the buffer and does not fail. Hence no
  buffer covers a page of the checkpoint (`Checkpointed`), and what a reader sees
  of a page, buffer over file, changes in one record per write (`Bytes`). A
  cached page agrees with it for every located id, and for an id about to be
  located as soon as `updateCacheAfterWrite` is through (`CacheFits`); a load that is
  under way holds the bytes of the file, then of the view (`LoadFits`).

- `HnswGraphProofs!NoNodeStranded` (`NeverStranded`), `NothingDangles`
  (`ReachableAreLocated`), `UpperListsStaySmall` (`UpperDegreeBounded`). None
  is inductive: a list is read in one step and used in another, when it may be
  stale. `GraphInv` says that everything that leads anywhere, stale lists
  and candidates of running calls included, leads to *public* nodes, which are
  located and past their linking and only grow in number. A node about to be
  linked is not public, hence on no list that anyone has read; so each linked
  node has an *anchor*, an edge than which no list of that node, stored, cached
  or held by a writer, knows a closer one. `selectNeighbors` keeps one
  of the closest candidates (`KeepFacts`), so no shrink ever dooms an anchor, and
  a closer new neighbour replaces it. That all selections agree on the closest
  candidate is essential, hence the hypothesis `Untied(n)` of `NeverStranded`:
  `selectNeighborsSimple` compares (distance, id) pairs and so agrees;
  `selectNeighborsHeuristic2` sorts by distance alone, and of a node from which two others
  are equally far the theorem says nothing (`MCHnswGraph_ties`). Ties as seen
  from other nodes do no harm. `UpperListsStaySmall` rests on `DegreeInv`: while
  a push is being shrunk its list has at most one entry too many, and only a read
  that throws, of a list with a node `nodes_` does not hold, can leave it so.

- `PointKeysProofs!KeysKeepTheirIds` (`MapsInverse`),
  `SearchesReturnTheLiveKeys` (`HitsAreTheLiveKeys`) and `ImplementsKeyMap`
  (`KeyMapSpec`), all from `KeyInvariant`. That the two directions of the id
  map are inverse is not inductive, because `PutKey` writes what `LookupKey`
  and `AllocateId` found out two steps earlier. `KeyInv` adds what keeps that
  true: the holder of a shard's lock still has an unmapped key
  (`RequestsFit`), an id that was drawn is below the counter, unmapped and
  nobody else's (`NextAbove`), the counter stays above the mapped ids across a
  reopen (`MaxAbove`), and a record of the log never contradicts the id map,
  so that replaying it into a map that a power loss has cut back is safe
  (`LogFits`). For searches, `LiveFits` adds that what a checkpoint holds has
  its keys among the fsynced pairs, which is why `checkpointLocked` must sync
  the id map before it writes the metadata file. For the refinement the
  abstract map is the id map together with the keys a replay has still to put
  back: `AbsMapBacked` says which pairs that is, and each step adds a pair
  (`PutKey`, `BulkPutKeys`), keeps all (`SyncWAL`), loses only unsynced ones
  (`PowerLoss`) or changes none.

- `StoreLifecycleProofs!TypeCorrect`, `GraphReadsBack` (`EncodingFits`),
  `OneLifeAlways` (`OneLife`), `CrashesLeaveItOpenable` (`CrashNeverBricks`) and
  `PrevIsFit` (`GoodCopyKept`), all from one invariant. It goes through the steps
  of an Open: what the process knows at each (`Control`), how the lives of files
  are ordered (`Lives`), what a reinit and a create have removed and written by
  then (`Reinit`, `Create`), that the file the encoding came from is still there
  when it is loaded (`Loading`), what a checkpoint writes (`Saved`, `Copies`), what
  a backup and a leftover marker may be (`Backup`), which files belong to the
  graph's life (`SameLife`) and to its encoding (`Fits`), what damage can have
  reached while main and `.prev` were one file, and when an Open may be
  refused (`Refused`). The theorems have the exceptions of their properties: of a
  reinit that was cut short and not completed since, `OneLifeAlways` and
  `CrashesLeaveItOpenable` say nothing, and `MCStoreLifecycle_reinit` shows
  that there is nothing to say. `EncodingFits` was false as first stated: the proof attempt
  led to the sequence of interrupted reinits described in section 6, which needs
  more crashes than the run allows.

- `HttpServerProofs!TypeCorrect`, `IndexSurvivesRestart` (`RestartReopens`) and
  `ShutdownKeepsWhatWasAnswered` (`ShutdownKeepsAnswers`).
  The invariant ties the pieces a PUT or DELETE of the index changes one after the
  other: which of them is under way holds `mu` (`Locked`), the bootstrap file
  names the index before it is opened (`Booted`), server and clients know of an
  index together (`InStep`), an engine is open only while the server or a request
  refers to it (`Held`) and a new one only after the last (`OneEngine`), and what
  clients were told holds of the engine, or once it is gone of the store
  (`Answers`).

Only model-checked: liveness (fairness and ENABLED are beyond the prover).
`AckedWritesSurvive`, `OneLiveVersion`, `CountWithinFaults` and
`RowsBelongToLiveIds` of `AsterVecDB` once a read or write of a storage engine has failed.
`Search`, `EdgeCache` and `LruCache`, which use recursive operators (sorting,
probing, following links, predicates) and are out of the prover's reach for
that.

## 5. What is not modelled, and what is left

Not modelled:

- the construction of a bulk-built graph (RNN descent, `astervec_bulk_build.cc`
  beyond its preconditions and its effect on ids, vectors, keys and the
  checkpoint): a numeric algorithm in parallel rounds whose only visible
  property is recall, which a small instance does not show;
- the grouping of batch reads and the in-place overwrite of a located record in
  `disk_vector.h`: the first reads what single reads read; the second is not
  reached by Insert or Update, where an id that has a location is alive (and
  updated under a new internal id) or tombstoned (and re-inserted under one);
- the waits of writers for an id lock while they hold the shared gate
  (`astervec_db.cc` 65, 641-647) and of a checkpoint for the gate: every caller
  takes the gate first, and the models take both in one step;
- a failing `pread` of a page, which reads as zeros and may be cached as such;
- the eviction of lists from the edge cache while searches run (`EdgeCache` has
  it by itself; an eviction only makes the next search read the graph);
- renames and removals of files that a power failure undoes, and damage of
  `.prev` or of a backup that is not also the main file;
- the switch of the graph store to direct I/O and the unlocked read of
  `idToPage_` while it is resized: both are races inside an object the models
  treat as atomic. They are listed as hazards without a property;
- the parser of predicates and of JSON, command line and environment text, the
  wording of HTTP answers, the distance kernels and SIMD variants, logging and
  statistics, the Python binding (one call for one call, no state of its own);
- the insides of RocksDB and Aster, whose batch writes are taken as atomic.

Left to do: the last three bounds of `AsterVecDB` for any number of failing
writes, and `AckedWritesSurvive` for calls whose abort record was written, as
theorems; an abstract specification of
the whole store (a map from real ids to values with atomic calls) that
`AsterVecDB` refines while the log is on and no fault occurs; `EdgeCache` without
recursive operators, so that `LruSpec` can be proved.

## 6. Observations

### Configurations that end in a counterexample

Besides `pages_clobber`, these configurations state what a comment or document
says and find a behaviour of the code that does otherwise. They are kept for
reading and are not among the runs.

| configuration | property | what happens |
|---|---|---|
| `MCAsterVecDB_payload_race` | `PayloadWritesSerialized` | the payload calls (`astervec_db.cc` 711-786) resolve the id without its lock; an Update of the same id runs completely, the payload is written under the superseded version and is lost. `docs/API_REFERENCE.md:57`: "Writes to the same real id are serialized by the DB layer". |
| `MCAsterVecDB_lost_delete` | `AckedDeletesSurvive` | an insert fails before its vector is stored and its abort record cannot be appended either (`astervec_db.cc` 404-415 only reports it); a Delete of the id finds no vector, returns OK without a record (891-894), and the replay after a crash carries the insert out. `CHANGELOG.md:20-21`: "every acknowledged insert, update and delete survives a process crash". |
| `MCSlotAllocator_reload` | `CheckpointLoads` | a store reopened with a larger `vec_file_capacity` writes checkpoints whose two sizes disagree (`disk_vector.h` 1959-1997); the next open refuses them. |
| `MCSlotAllocator_reload`, with its invariant replaced | `ArraysCoverCapacity` | in a store reopened that way `idToPage_` has the size of the checkpoint while `totalVectors_` stays larger, so that ids pass the check of `page_of` and index past the array (615-622). |
| `MCVectorPages_flush` | `CheckpointComplete` | `flushSectionWriteBuf` ignores a failed `pwrite` (`disk_vector.h` 965-969), and the checkpoint locates bytes that are not in the file. `astervec_db.cc` 1248-1249 on a checkpoint: "both must be on disk before it is installed". |
| `MCVectorPages_stalecache` | `AlwaysReadable` | a page read before a buffer is flushed and installed in the cache after it keeps the old bytes (`disk_vector.h` 1185-1243), against the guarantee of 1552-1555. |
| `MCHnswGraph_entry` | `EntryAtMaxLayer` | the first node stores `max_layer_` over a promotion that came in between, or the lower of two promotions stores its entry point last (`astervec_index.cc` 930-935, 1132-1143); `astervec_index.h` 878-881 calls the disagreement transient. |
| `MCHnswGraph_ties` | `NobodyStranded` | two concurrent shrinks of a node with two equally near neighbours each delete the one the other keeps. The model lets the two shrinks order the tie differently; in the code the order is that in which Aster returns the edges, so this shows what `NeverStranded` rests on rather than a run of the program. |
| `MCHnswGraph_unshrunk` | `UpperDegreeAlwaysBounded` | an insert that begins after a promotion has raised `max_layer_` and before it stores its entry point starts from the old one, of level 0, and puts it on an upper list though `nodes_` lacks it; a later shrink of the list reads its vector, the read throws, and the list keeps one entry too many. Four ids, guided by a constraint; the theorem `UpperListsStaySmall` covers the rest. |
| `MCSearch_window` | `HitsHaveMappings` | a search between `insertNode` and `record_update_mapping` returns the raw update id, where `astervec_index.cc` says "defensive; should not happen". |
| `MCSearch_stalelist` | `LaterSearchExact` | a list read from the graph before a write links to its node, and put into the cache after the write has erased it there (`astervec_index.cc` 1380-1392, 1343), hides the new node from a search that starts after everything has returned. |
| `MCSearch_filtered` | `FilteredSearchExact` | matching tombstones take the k places of the result while a filtered search expands (2067-2098), so it ends before it has met a live match that is there. The comment at 2092: "only matching nodes enter results", of a search for k matches. |
| `MCStoreLifecycle_link` | `FallsBackToPrev` | a crash or failure between the hard link and the rename of a checkpoint (1222-1226) leaves main and `.prev` one file; damage then takes both, and Open is refused. Likewise a main file damaged after its load is rotated over the whole `.prev` by the next checkpoint. The comment at 259-260 promises the fallback. |
| `MCStoreLifecycle_reinit` | `ReinitRecoverable` | a reinit that crashes after it emptied the graph: the next Open puts the old checkpoint back beside files that are gone, or is refused. The comment at 157-161: "a failed reinit must leave the store's metadata recoverable". |
| `MCHttpServer_powerloss` | `ExistingIndexReopens` | a power failure tears the bootstrap file, which is never fsynced; the index whose creation was answered 200 is not found again. `astervec_http.cc` 256-260: "the server must be able to reopen an existing index regardless of how the environment is configured". |
| `MCHttpServer_delete` | `NoFalseDelete` | a request in flight keeps the engine of a deleted index; its checkpoint writes files into the directory DELETE has reported empty. |
| `MCHttpServer_signal` | `RunsUntilSignal` | a signal that arrives before the server listens is lost: `stop()` does nothing yet, and the watcher has ended. |

### Write path, index and storage

- With two failing writes an abort record can be lost (`logAbort` only
  reports). If the failed insert left no located vector, a later Delete finds
  nothing, is acknowledged without a record, and a crash brings the insert
  back (`MCAsterVecDB_lost_delete`; `AckedWritesSurvive` fails likewise).
- An insert that fails after it stored its vector leaves the id alive and
  uncounted; `CountWithinFaults` allows one per fault for that reason.
- A read of the old payload row that fails with another status than `NotFound`
  (`astervec_db.cc` 861-871) is taken for a missing row: the update deletes the
  old row, returns OK, and the payload is gone. The reads of `replayRecord`
  (524-534) do the same.
- With the log off, payload rows newer than the checkpoint survive a crash that
  takes the index back.
- A bulk load is not logged: if the checkpoint it writes is damaged, the
  fallback is the empty store before it.
- A list of edges read before an insert links to its node, and cached after the
  insert erased it, stays stale until the next erase. `NeverStranded` shows
  that shrinks computed from such lists are harmless; the new edge is
  invisible to searches, though (`MCSearch_stalelist`).
- A node with several upper layers is reachable on the higher one before its
  own list on the lower one is assigned; edges that others pushed to it in
  between are dropped by the assignment.
- A shard of the edge cache holds `max(1, capacity / 64)` entries, so a
  capacity below 64 still allows 64 lists.

### Search

- Versions without a payload row match `$ne`, `$nin` and `$exists: false`, though
  the comment at `astervec_index.cc` 2021-2022 says that nothing matches a missing row
  unless the predicate is empty; tombstones, whose rows are gone, are such versions
  (`MCSearch_filtered`).
- Between the mapping and the tombstone of an update a search can return the
  same id twice, once for each version.

### Point ids

- A key batch that fails after `bulkBuild` filled the index leaves vectors no
  key names and a counter of 0 (`torn` in `PointKeys`).
- A crash between the key batch and the checkpoint of a bulk load leaves keys
  without vectors; the store then refuses another `BulkBuild`.
- The Bloom filter counts insertions, so repeated updates of one id double its
  capacity as new ids would.

### Store lifecycle

- A reinit whose main file is missing deletes `.prev` before the graph store is
  constructed, whose failure is `exit(1)`; and a backup may be put back although
  the reinit completed (`RestoresOnlyUnfinished` states the comment at
  `astervec_db.cc` 157-161). Both are what `stale` and `cutShort` except.
- A reinit of a store whose only checkpoint is `.prev`, without a backup, removes
  that file first (`astervec_db.cc` 183). If it is then cut short before the graph
  is emptied and the marker of an older, interrupted create is still there, the
  next Open finds no checkpoint, takes the encoding from that marker and reads
  the old graph with it, though the graph may have been written with another
  (`cutShort = "lost"`). The comment at 157-161 rules such an outcome out. It takes
  an interrupted create, a reinit with another encoding that crashes before it
  removes the marker, a lost main file and a second interrupted reinit; it was
  found in proving `EncodingFits` and is beyond the bounds of the run.
- A marker left behind after the first checkpoint makes a later Open take an
  old graph for an interrupted create; a first Open with `reinit = true` writes
  no marker.
- An Open in the wrong id mode removes a damaged main file before it refuses.
- Two error returns of `Open` (274-289, 318-320) do not reset `*db`, where the
  comment at 335 says "API contract: *db is null on error".

### HTTP server

- A torn bootstrap file is treated as absent, so that the environment decides the
  index again (`MCHttpServer_powerloss`).
- A DELETE that fails half way, followed by a restart with `ASTERVEC_DIM` set,
  opens what is left.
- A create while a request in flight still holds the deleted engine meets the
  lock of its RocksDB and ends the process.
- `PUT /v1/vectors` does not check the largest id that inserts are checked
  against.
- `astervec_http.h` says persisted values "are validated against the env
  values"; the code ignores the environment once the file exists.
- The status of `Close` at shutdown is ignored, and a data request reads the
  configured dimension without the mutex, so it may be refused with 400 for a
  dimension that was valid when it arrived.
