----------------------------- MODULE HttpServer -----------------------------
(***************************************************************************)
(* The HTTP server of src/src/astervec_http.cc: the process from           *)
(* LoadHttpConfigFromEnv through RunHttpServer to its exit, its pool of    *)
(* workers, ServerState (mu, db, cfg), the bootstrap file, the signal      *)
(* watcher and every route.                                                *)
(*                                                                         *)
(* The engine (specified in AsterVecDB) appears as the server uses it: a   *)
(* handle that serves vectors (their payload rows are left to AsterVecDB). *)
(* The operation log is off, the server's default, so data_dir holds what  *)
(* the last checkpoint wrote.                                              *)
(* A handle whose files a DELETE removed is `wiped': it goes on working on *)
(* unlinked files.                                                         *)
(*                                                                         *)
(* A data request takes three steps: dbShared, under mu; validation, which *)
(* reads cfg_.dim without mu; the engine calls.  PUT and DELETE /v1/index  *)
(* hold mu over several steps, so that a crash can fall between them.      *)
(***************************************************************************)
EXTENDS Integers, FiniteSets

CONSTANTS Workers,      \* threads of the httplib pool (http_threads)
          Dims,         \* dimensions of indexes
          Metrics,
          Ids,          \* vector ids in requests; a bulk build loads all of them
          Envs,         \* ASTERVEC_DIM (0: unset) and ASTERVEC_METRIC
          Interval,     \* checkpoint_interval_ops > 0: a write may checkpoint
          NoFile, Torn, \* states of a file or directory
          None,
          MaxCalls,     \* bound: requests accepted
          MaxSignals,   \* bound: SIGTERM/SIGINT sent
          MaxFaults     \* bound: crashes, and errors of the engine or file system

VARIABLES phase,   \* how far main has come
          cfg,     \* state.cfg.dim and .metric; dim 0 is uninitialized
          db,      \* state.db: a handle, or None
          mu,      \* the worker that holds state.mu, or None
          handles, \* the open engines, shared by db and the requests
          req,     \* the request each worker is serving
          sig,     \* "none", "pending", or "taken" by the watcher thread
          boot,    \* the bootstrap file
          bootNew, \* written since the last power failure; it is never fsynced
          store,   \* what AsterVecDB::Open would find in data_dir
          budget,  \* what is left of the bounds
          served,  \* ghost: the index the clients were last told exists
          exposed, \* ghost: since then a power failure met a bootstrap file
                   \* that was not fsynced
          told,    \* ghost: what the clients were last told of each id
          wipedOk  \* ghost: the last change of the index was a DELETE answered 200

disk == <<boot, bootNew, store>>
ghosts == <<served, exposed, told, wipedOk>>
vars == <<phase, cfg, db, mu, handles, req, sig, disk, budget, ghosts>>

Uninit == [dim |-> 0, metric |-> "l2"]
Handles == 1..(Cardinality(Workers) + 1)
Stores == [dim : Dims, metric : Metrics, vecs : SUBSET Ids, used : BOOLEAN]
NewStore(p) == [dim |-> p.dim, metric |-> p.metric, vecs |-> {}, used |-> FALSE]
Requests == [pc : {"take", "parse", "engine", "rows", "open", "unboot", "wipe"},
             op : {"insert", "batch", "put", "bulk", "delete", "payload", "read",
                   "create", "drop", "getindex"},
             todo : SUBSET Ids, dim : Dims, metric : Metrics, h : Handles \cup {None}]
Idle == [pc |-> "idle", op |-> "none", todo |-> {}, dim |-> 0, metric |-> "l2",
         h |-> None]
NothingTold == [i \in Ids |-> "unknown"]

ASSUME ParametersAssumption ==
  /\ IsFiniteSet(Workers) /\ Dims \subseteq Nat \ {0} /\ "l2" \in Metrics
  /\ Envs \subseteq [dim : Dims \cup {0}, metric : Metrics]
ASSUME BoundsAssumption == MaxCalls \in Nat /\ MaxSignals \in Nat /\ MaxFaults \in Nat
ASSUME NothingAssumption ==
  /\ NoFile # Torn
  /\ {NoFile, Torn} \cap (Stores \cup [dim : Dims \cup {0}, metric : Metrics]) = {}
  /\ None \notin Handles \cup Workers \cup Stores \cup [s : Stores, wiped : BOOLEAN]
              \cup [dim : Dims \cup {0}, metric : Metrics]

\* The routes.  Get, GetPayload, Search and /v1/stats are "read".
VectorOps == {"insert", "batch", "put", "bulk"}
DataOps == VectorOps \cup {"delete", "payload", "read"}
IndexOps == {"create", "drop", "getindex"}

Spend(what) == /\ budget[what] > 0
               /\ budget' = [budget EXCEPT ![what] = @ - 1]

(***************************************************************************)
(* The engine, as this file uses it                                        *)
(***************************************************************************)

\* What AsterVecDB::Open finds for parameters p, or None for an error status.
\* The engine checks the dimension and does not record the metric.  A
\* half-removed directory is refused, or opens with whatever is left in it.
OpenOutcomes(p) ==
  CASE store = NoFile -> {NewStore(p)}
    [] store = Torn -> {None} \cup {[NewStore(p) EXCEPT !.vecs = v, !.used = TRUE] : v \in SUBSET Ids}
    [] OTHER -> IF store.dim = p.dim THEN {[store EXCEPT !.metric = p.metric]} ELSE {None}

\* A new store writes its first checkpoint before Open returns; what a
\* half-removed one opened with is what it opens with again.
StoreAfterOpen(e) == IF store \in {NoFile, Torn} THEN e ELSE store

\* A worker returns from its handler: its shared_ptr goes, and the engine with
\* the last one.  The destructor does not checkpoint.
Released(hs, w) ==
  LET h == req[w].h IN
  IF h = None \/ h = db \/ \E u \in Workers \ {w} : req[u].h = h
  THEN hs ELSE [hs EXCEPT ![h] = None]

Answer(w, hs) == /\ req' = [req EXCEPT ![w] = Idle]
                 /\ handles' = Released(hs, w)

(***************************************************************************)
(* The bootstrap file                                                      *)
(***************************************************************************)

readBootstrap == boot \notin {NoFile, Torn}

writeBootstrap(p) == boot' = p /\ bootNew' = TRUE

(***************************************************************************)
(* Start                                                                   *)
(***************************************************************************)

Init == /\ phase = "down" /\ cfg = Uninit /\ db = None /\ mu = None
        /\ handles = [h \in Handles |-> None]
        /\ req = [w \in Workers |-> Idle]
        /\ sig = "none" /\ boot = NoFile /\ bootNew = FALSE /\ store = NoFile
        /\ budget = [calls |-> MaxCalls, sigs |-> MaxSignals,
                     faults |-> MaxFaults]
        /\ served = None /\ exposed = FALSE /\ told = NothingTold /\ wipedOk = FALSE

\* A bootstrap file wins over the environment; without one that reads, this is
\* a first boot and ASTERVEC_DIM, when set, is persisted.
LoadHttpConfigFromEnv ==
  /\ phase \in {"down", "exited"}
  /\ IF readBootstrap
     THEN cfg' = boot /\ UNCHANGED <<boot, bootNew>>
     ELSE \E env \in Envs :
            /\ cfg' = env
            /\ IF env.dim > 0 THEN writeBootstrap(env) ELSE UNCHANGED <<boot, bootNew>>
  /\ phase' = "config"
  /\ UNCHANGED <<db, mu, handles, req, sig, store, budget, ghosts>>

\* RunHttpServer blocks the signals, opens the engine if a dimension is known
\* and ends by starting the watcher.  A failed Open ends the process.
RunHttpServer ==
  /\ phase = "config"
  /\ \/ /\ cfg.dim = 0
        /\ phase' = "opened"
        /\ UNCHANGED <<db, handles, store, served, exposed, wipedOk>>
     \/ /\ cfg.dim > 0
        /\ \E e \in OpenOutcomes(cfg) :
             IF e = None
             THEN phase' = "down" /\ UNCHANGED <<db, handles, store, served, exposed, wipedOk>>
             ELSE /\ phase' = "opened"
                  /\ db' = 1
                  /\ handles' = [handles EXCEPT ![1] = [s |-> e, wiped |-> FALSE]]
                  /\ store' = StoreAfterOpen(e)
                  /\ served' = cfg /\ exposed' = FALSE /\ wipedOk' = FALSE
  /\ sig' = IF phase' = "down" THEN "none" ELSE sig
  /\ UNCHANGED <<cfg, mu, req, boot, bootNew, budget, told>>

\* srv.listen: from here stop() has something to stop.  If the port cannot be
\* bound the process ends, gracefully only if a signal has been taken.
Listen ==
  /\ phase = "opened"
  /\ \/ phase' = "running" /\ UNCHANGED <<db, handles, sig, budget, told>>
     \/ /\ Spend("faults")
        /\ IF sig = "taken"
           THEN phase' = "closing" /\ UNCHANGED <<db, handles, sig, told>>
           ELSE /\ phase' = "down" /\ sig' = "none" /\ told' = NothingTold
                /\ db' = None /\ handles' = [h \in Handles |-> None]
  /\ UNCHANGED <<cfg, mu, req, disk, served, exposed, wipedOk>>

(***************************************************************************)
(* Requests                                                                *)
(***************************************************************************)

\* The pool accepts a request; its body is any of the inputs of its route.
Accept(w) ==
  /\ phase = "running" /\ req[w] = Idle
  /\ Spend("calls")
  /\ \E op \in DataOps \cup IndexOps, d \in Dims, m \in Metrics, ids \in SUBSET Ids :
       /\ op # "create" => d = CHOOSE x \in Dims : TRUE
       /\ op # "create" => m = CHOOSE x \in Metrics : TRUE
       /\ Cardinality(ids) = CASE op \in {"insert", "put", "delete"} -> 1
                               [] op = "batch" -> 2
                               [] OTHER -> 0
       /\ req' = [req EXCEPT ![w] = [pc |-> "take", op |-> op, todo |-> ids,
                                     dim |-> d, metric |-> m, h |-> None]]
  /\ UNCHANGED <<phase, cfg, db, mu, handles, sig, disk, ghosts>>

\* A data handler copies the shared_ptr under mu, or answers 409.
requireInit(w) ==
  /\ req[w].pc = "take" /\ req[w].op \in DataOps /\ mu = None
  /\ IF db = None
     THEN Answer(w, handles)
     ELSE req' = [req EXCEPT ![w].pc = "parse", ![w].h = db] /\ UNCHANGED handles
  /\ UNCHANGED <<phase, cfg, db, mu, sig, disk, budget, ghosts>>

\* The checks before the first engine call.  A body that is malformed, or whose
\* vector does not have the dimension of the index the request holds, is always
\* refused.  One that fits is refused if cfg_.dim, read without mu, has changed.
WellFormed(r) == r.op \in VectorOps => cfg.dim = handles[r.h].s.dim

ParseRequest(w) ==
  /\ req[w].pc = "parse"
  /\ \/ WellFormed(req[w]) /\ req' = [req EXCEPT ![w].pc = "engine"] /\ UNCHANGED handles
     \/ Answer(w, handles)                                \* any 400, 413
  /\ UNCHANGED <<phase, cfg, db, mu, sig, disk, budget, ghosts>>

\* The engine's state after a call, and the automatic checkpoint that the end
\* of a write may take (on a wiped handle it creates the file anew).
Engine(w) == handles[req[w].h].s
Apply(w, s) == [handles EXCEPT ![req[w].h].s = s]
AutoCheckpoint(s) == \/ UNCHANGED store
                     \/ Interval /\ store' = s
Tell(w, ids, what) ==
  told' = IF req[w].h = db THEN [i \in Ids |-> IF i \in ids THEN what ELSE told[i]] ELSE told

EngineStep(w, ops) == req[w].pc = "engine" /\ req[w].op \in ops
EngineFrame == UNCHANGED <<phase, cfg, db, mu, sig, boot, bootNew, served, exposed, wipedOk>>

\* One Insert (or Update, which inserts an id that is not alive).  After an
\* error the vector may be in, without its payload row.
InsertOne(w, i) ==
  LET in == [Engine(w) EXCEPT !.vecs = @ \cup {i}, !.used = TRUE] IN
  \/ /\ AutoCheckpoint(in)
     /\ IF req[w].todo = {i} THEN Answer(w, Apply(w, in))
        ELSE handles' = Apply(w, in) /\ req' = [req EXCEPT ![w].todo = @ \ {i}]
     /\ Tell(w, {i}, "stored")
     /\ UNCHANGED budget
  \/ /\ Spend("faults")
     /\ \E s \in {in, Engine(w)} : Answer(w, Apply(w, s)) /\ AutoCheckpoint(s)
     /\ IF told[i] = "deleted" THEN Tell(w, {i}, "unknown") ELSE UNCHANGED told

handleInsert(w) ==
  /\ EngineStep(w, {"insert"})
  /\ \E i \in req[w].todo : InsertOne(w, i)
  /\ EngineFrame

\* Every item was validated before the first is written, in the order of the
\* body; a failing item ends the batch.
handleInsertBatch(w) ==
  /\ EngineStep(w, {"batch"})
  /\ \E i \in req[w].todo : InsertOne(w, i)
  /\ EngineFrame

handlePut(w) ==
  /\ EngineStep(w, {"put"})
  /\ \E i \in req[w].todo : InsertOne(w, i)
  /\ EngineFrame

handleDelete(w) ==
  /\ EngineStep(w, {"delete"})
  /\ \E i \in req[w].todo :
       LET out == [Engine(w) EXCEPT !.vecs = @ \ {i}] IN
       \/ /\ Answer(w, Apply(w, out)) /\ AutoCheckpoint(out)
          /\ Tell(w, {i}, "deleted") /\ UNCHANGED budget
       \/ /\ Spend("faults")
          /\ \E s \in {out, Engine(w)} : Answer(w, Apply(w, s)) /\ AutoCheckpoint(s)
          /\ Tell(w, {i}, "unknown")
  /\ EngineFrame

\* handleSetPayload and handlePatchPayload write a row of the payload store;
\* like any write they may end in a checkpoint.
handlePayload(w) ==
  /\ EngineStep(w, {"payload"})
  /\ Answer(w, handles) /\ AutoCheckpoint(Engine(w))
  /\ UNCHANGED <<budget, told>> /\ EngineFrame

\* handleGet, handleGetPayload, /v1/stats and handleSearch change nothing.
handleRead(w) ==
  /\ EngineStep(w, {"read"})
  /\ Answer(w, handles)
  /\ UNCHANGED <<store, budget, told>> /\ EngineFrame

\* BulkBuild needs an index that never held a vector and checkpoints; the
\* payload rows of the body's tail are a second engine call.  When it fails,
\* any of the vectors may be in, and all of them in the checkpoint.
handleBulkBuild(w) ==
  /\ EngineStep(w, {"bulk"})
  /\ LET built(v) == [Engine(w) EXCEPT !.vecs = v, !.used = TRUE]
         full == built(Ids) IN
     \/ /\ ~Engine(w).used
        /\ store' = full
        /\ Tell(w, Ids, "stored")
        /\ \/ Answer(w, Apply(w, full))
           \/ handles' = Apply(w, full) /\ req' = [req EXCEPT ![w].pc = "rows"]
        /\ UNCHANGED budget
     \/ /\ Engine(w).used
        /\ Answer(w, handles)
        /\ UNCHANGED <<store, budget, told>>
     \/ /\ ~Engine(w).used /\ Spend("faults")
        /\ \E s \in {Engine(w)} \cup {built(v) : v \in SUBSET Ids} :
             Answer(w, Apply(w, s)) /\ store' \in IF s = full THEN {store, full} ELSE {store}
        /\ Tell(w, Ids, "unknown")
  /\ EngineFrame

\* SetPayloadBatch, one atomic batch; answered 200, or payloads_failed if a
\* vector was deleted meanwhile or the write fails.
bulkPayloads(w) ==
  /\ req[w].pc = "rows"
  /\ Answer(w, handles) /\ AutoCheckpoint(Engine(w))
  /\ UNCHANGED <<budget, told>> /\ EngineFrame

(***************************************************************************)
(* The index's own routes                                                  *)
(***************************************************************************)

\* Mutant of handleCreateIndex: no check for an index that is already open.
CreateUnchecked(w) ==
  /\ req[w].pc = "take" /\ req[w].op = "create" /\ mu = None
  /\ mu' = w /\ req' = [req EXCEPT ![w].pc = "open"]
  /\ writeBootstrap([dim |-> req[w].dim, metric |-> req[w].metric])
  /\ UNCHANGED <<phase, cfg, db, handles, sig, store, budget, ghosts>>

\* PUT /v1/index: take mu; refuse if there is an index; write the bootstrap.
handleCreateIndex(w) ==
  /\ req[w].pc = "take" /\ req[w].op = "create" /\ mu = None
  /\ \/ /\ db # None
        /\ Answer(w, handles) /\ UNCHANGED <<mu, boot, bootNew, budget>>
     \/ /\ db = None
        /\ mu' = w /\ req' = [req EXCEPT ![w].pc = "open"]
        /\ writeBootstrap([dim |-> req[w].dim, metric |-> req[w].metric])
        /\ UNCHANGED <<handles, budget>>
     \/ /\ db = None /\ Spend("faults")
        /\ Answer(w, handles) /\ UNCHANGED <<mu, boot, bootNew>>
  /\ UNCHANGED <<phase, cfg, db, sig, store, ghosts>>

\* What every death of the process does.
ProcessDies ==
  /\ phase' = "down" /\ cfg' = Uninit /\ db' = None /\ mu' = None /\ sig' = "none"
  /\ handles' = [h \in Handles |-> None]
  /\ req' = [w \in Workers |-> Idle]
  /\ told' = NothingTold

\* ... then AsterVecDB::Open.  RocksDB's lock of the directory is still held
\* if an older request has the previous index open, and then Aster's
\* constructor calls exit(1).
createOpens(w) ==
  /\ req[w].pc = "open"
  /\ \/ /\ \E h \in Handles : handles[h] # None
        /\ ProcessDies
        /\ UNCHANGED <<disk, served, exposed, wipedOk>>
     \/ /\ \A h \in Handles : handles[h] = None
        /\ mu' = None
        /\ req' = [req EXCEPT ![w] = Idle]
        /\ LET p == [dim |-> req[w].dim, metric |-> req[w].metric] IN
           \E e \in OpenOutcomes(p) :
             IF e = None
             THEN /\ boot' = NoFile
                  /\ UNCHANGED <<cfg, db, handles, store, bootNew, served, exposed, told, wipedOk>>
             ELSE /\ cfg' = p /\ db' = 1
                  /\ handles' = [handles EXCEPT ![1] = [s |-> e, wiped |-> FALSE]]
                  /\ store' = StoreAfterOpen(e)
                  /\ served' = p /\ exposed' = FALSE /\ told' = NothingTold /\ wipedOk' = FALSE
                  /\ UNCHANGED <<boot, bootNew>>
        /\ UNCHANGED <<phase, sig>>
  /\ UNCHANGED budget

\* DELETE /v1/index: take mu and drop the server's reference ...
handleDeleteIndex(w) ==
  /\ req[w].pc = "take" /\ req[w].op = "drop" /\ mu = None
  /\ mu' = w
  /\ db' = None
  /\ handles' = IF db = None \/ \E u \in Workers : req[u].h = db THEN handles
                ELSE [handles EXCEPT ![db] = None]
  /\ req' = [req EXCEPT ![w].pc = "unboot"]
  /\ served' = None /\ exposed' = FALSE /\ told' = NothingTold
  /\ UNCHANGED <<phase, cfg, sig, disk, budget, wipedOk>>

\* Mutant of DeleteAnswered: mu is not released on this return.
DeleteAnsweredLocked(w) == /\ cfg' = Uninit /\ UNCHANGED mu
                           /\ req' = [req EXCEPT ![w] = Idle]

DeleteAnswered(w) == /\ cfg' = Uninit /\ mu' = None
                     /\ req' = [req EXCEPT ![w] = Idle]

\* ... remove the bootstrap file, first ...
deleteBootstrap(w) ==
  /\ req[w].pc = "unboot"
  /\ \/ /\ boot' = NoFile /\ req' = [req EXCEPT ![w].pc = "wipe"]
        /\ UNCHANGED <<cfg, mu, budget>>
     \/ boot # NoFile /\ Spend("faults") /\ DeleteAnswered(w) /\ UNCHANGED boot
  /\ UNCHANGED <<phase, db, handles, sig, bootNew, store, ghosts>>

\* ... then everything else in data_dir: 200, or 500 at the first error.
deleteContents(w) ==
  /\ req[w].pc = "wipe"
  /\ DeleteAnswered(w)
  /\ \/ store' = NoFile /\ wipedOk' = TRUE /\ UNCHANGED budget
     \/ store # NoFile /\ Spend("faults") /\ store' \in {store, Torn} /\ UNCHANGED wipedOk
  /\ handles' = [h \in Handles |-> IF handles[h] # None /\ store' # store
                                   THEN [handles[h] EXCEPT !.wiped = TRUE] ELSE handles[h]]
  /\ UNCHANGED <<phase, db, sig, boot, bootNew, served, exposed, told>>

\* GET /v1/index and /ready look at db under mu.
handleGetIndex(w) ==
  /\ req[w].pc = "take" /\ req[w].op = "getindex" /\ mu = None
  /\ Answer(w, handles)
  /\ UNCHANGED <<phase, cfg, db, mu, sig, disk, budget, ghosts>>

(***************************************************************************)
(* Signals, shutdown and crashes                                           *)
(***************************************************************************)

\* SIGTERM or SIGINT; it is blocked in every thread and waits for the watcher.
Signal ==
  /\ phase \notin {"down", "exited"} /\ sig = "none"
  /\ Spend("sigs")
  /\ sig' = "pending"
  /\ UNCHANGED <<phase, cfg, db, mu, handles, req, disk, ghosts>>

\* Mutant of ShutdownWatcher: it sets g_shutting_down and does not call stop().
WatcherSetsFlagOnly ==
  /\ phase \in {"opened", "running"} /\ sig = "pending"
  /\ sig' = "taken"
  /\ UNCHANGED <<phase, cfg, db, mu, handles, req, disk, budget, ghosts>>

\* The watcher takes one signal and calls stop(), which does nothing unless
\* the server is running; then the thread ends.
ShutdownWatcher ==
  /\ phase \in {"opened", "running"} /\ sig = "pending"
  /\ sig' = "taken"
  /\ phase' = IF phase = "running" THEN "draining" ELSE phase
  /\ UNCHANGED <<cfg, db, mu, handles, req, disk, budget, ghosts>>

\* listen returns once the pool has finished what it had accepted.
ListenReturns ==
  /\ phase = "draining"
  /\ \A w \in Workers : req[w] = Idle
  /\ phase' = "closing"
  /\ UNCHANGED <<cfg, db, mu, handles, req, sig, disk, budget, ghosts>>

\* Mutant of GracefulShutdown: the engine is dropped without Close.
ShutdownWithoutClose ==
  /\ phase = "closing" /\ mu = None
  /\ phase' = "exited" /\ db' = None /\ cfg' = Uninit /\ sig' = "none"
  /\ handles' = IF db = None THEN handles ELSE [handles EXCEPT ![db] = None]
  /\ UNCHANGED <<mu, req, disk, budget, ghosts>>

\* flushVectorWrites and Close under mu; Close's status is not looked at.
GracefulShutdown ==
  /\ phase = "closing" /\ mu = None
  /\ \/ /\ store' = IF db = None THEN store ELSE handles[db].s
        /\ UNCHANGED <<budget, told>>
     \/ /\ db # None /\ Spend("faults")
        /\ told' = NothingTold /\ UNCHANGED store
  /\ phase' = "exited" /\ db' = None /\ cfg' = Uninit /\ sig' = "none"
  /\ handles' = IF db = None THEN handles ELSE [handles EXCEPT ![db] = None]
  /\ UNCHANGED <<mu, req, boot, bootNew, served, exposed, wipedOk>>

\* The process dies; a directory being wiped is left half removed.
Dies == /\ Spend("faults")
        /\ ProcessDies
        /\ \/ UNCHANGED store
           \/ (\E w \in Workers : req[w].pc = "wipe") /\ store # NoFile /\ store' = Torn

\* The process is killed.
Crash ==
  /\ phase \notin {"down", "exited"}
  /\ Dies
  /\ UNCHANGED <<boot, bootNew, served, exposed, wipedOk>>

\* The machine goes down, whether the server runs or not: a bootstrap file that
\* was never fsynced may be torn or absent.
PowerLoss ==
  /\ Dies
  /\ boot' \in IF bootNew THEN {boot, Torn, NoFile} ELSE {boot}
  /\ exposed' = (exposed \/ bootNew)
  /\ bootNew' = FALSE
  /\ UNCHANGED <<served, wipedOk>>

Request(w) ==
  \/ requireInit(w) \/ ParseRequest(w)
  \/ handleInsert(w) \/ handleInsertBatch(w) \/ handlePut(w) \/ handleDelete(w)
  \/ handlePayload(w) \/ handleRead(w) \/ handleBulkBuild(w) \/ bulkPayloads(w)
  \/ handleCreateIndex(w) \/ createOpens(w)
  \/ handleDeleteIndex(w) \/ deleteBootstrap(w) \/ deleteContents(w)
  \/ handleGetIndex(w)

MainThread == RunHttpServer \/ Listen \/ ListenReturns \/ GracefulShutdown

Next == \/ LoadHttpConfigFromEnv \/ MainThread \/ ShutdownWatcher \/ Signal \/ Crash \/ PowerLoss
        \/ \E w \in Workers : Accept(w) \/ Request(w)

Spec == Init /\ [][Next]_vars

\* The operating system runs every thread of the process, and delivers a
\* pending signal to the thread that waits for it.
FairSpec == /\ Spec
            /\ \A w \in Workers : WF_vars(Request(w))
            /\ WF_vars(MainThread) /\ WF_vars(ShutdownWatcher)

(***************************************************************************)
(* Properties                                                              *)
(***************************************************************************)

Config == [dim : Dims \cup {0}, metric : Metrics]

\* Every variable keeps its type; a request past requireInit holds an engine
\* that is open, and so does the server.
TypeOK ==
  /\ phase \in {"down", "config", "opened", "running", "draining", "closing", "exited"}
  /\ cfg \in Config /\ served \in Config \cup {None}
  /\ db \in Handles \cup {None} /\ mu \in Workers \cup {None}
  /\ handles \in [Handles -> {None} \cup [s : Stores, wiped : BOOLEAN]]
  /\ req \in [Workers -> Requests \cup {Idle}]
  /\ \A w \in Workers :
       /\ req[w].h # None => handles[req[w].h] # None
       /\ req[w].pc \in {"parse", "engine", "rows"} <=> req[w].h # None
  /\ db # None => handles[db] # None
  /\ sig \in {"none", "pending", "taken"}
  /\ boot \in Config \cup {NoFile, Torn} /\ store \in Stores \cup {NoFile, Torn}
  /\ bootNew \in BOOLEAN /\ exposed \in BOOLEAN /\ wipedOk \in BOOLEAN
  /\ budget \in [calls : 0..MaxCalls, sigs : 0..MaxSignals, faults : 0..MaxFaults]
  /\ told \in [Ids -> {"unknown", "stored", "deleted"}]

\* An index the clients were told exists (PUT answered 200, or opened at boot)
\* and have not begun to delete can be reopened after the process dies at any
\* moment, and after a power failure once an earlier one has found the bootstrap
\* file durable: the file names the index and a store of its dimension is in
\* data_dir.  A power failure before then is excepted, as nothing fsyncs the
\* file (ExistingIndexReopens is the claim without the exception).
Reopens == boot = served /\ store \notin {NoFile, Torn} /\ store.dim = served.dim
RestartReopens == served # None /\ ~exposed => Reopens

\* A DELETE /v1/index answered 200 left no store behind: until the next index
\* is opened nothing of the old one can come back, whatever requests were in
\* flight when its files were removed.
NoFalseDelete == wipedOk => store = NoFile

\* After exit status 0 with a Close that succeeded, the next start serves what
\* the clients were told: every id answered as stored, no id answered as
\* deleted.
ShutdownKeepsAnswers ==
  phase = "exited" /\ served # None =>
    \A i \in Ids : /\ told[i] = "stored" => i \in store.vecs
                   /\ told[i] = "deleted" => i \notin store.vecs

\* Every request that was accepted is answered (or the process dies): no route
\* waits for a lock that is not released.  Stated of one worker of the pool, as
\* the workers are interchangeable.
EveryRequestAnswered == LET w == CHOOSE w \in Workers : TRUE IN
                        req[w] # Idle ~> req[w] = Idle

\* A signal that arrives while the server is running ends the process.
SignalStopsRunningServer ==
  (phase = "running" /\ sig = "pending") ~> phase \in {"exited", "down"}

\* "Run the HTTP server until SIGTERM/SIGINT": a signal, whenever it arrives,
\* ends the process.
RunsUntilSignal == sig = "pending" ~> phase \in {"exited", "down"}

\* "the server must be able to reopen an existing index regardless of how the
\* environment is configured": LoadHttpConfigFromEnv, of the bootstrap file.
ExistingIndexReopens == served # None => Reopens

=============================================================================
