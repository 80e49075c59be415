-------------------------- MODULE HttpServerProofs --------------------------
(***************************************************************************)
(* Proofs about HttpServer, for every pool of workers and every value of   *)
(* the other constants.                                                    *)
(***************************************************************************)
EXTENDS HttpServer, FiniteSetTheorems, TLAPS

(***************************************************************************)
(* The inductive invariant                                                 *)
(***************************************************************************)

\* The process is up and has dealt with its store; it can have requests.
Live == {"opened", "running", "draining", "closing"}
Serving == {"running", "draining"}

Opened == [dim : Dims, metric : Metrics]

\* No requests but while listen runs, no engine in a process that is not up.
Quiet ==
  /\ phase \notin Serving => mu = None /\ \A w \in Workers : req[w] = Idle
  /\ phase \notin Live => db = None /\ \A h \in Handles : handles[h] = None

\* An engine is open only while the server or a request has a reference to it.
Held == \A h \in Handles : handles[h] # None => \/ h = db
                                               \/ \E w \in Workers : req[w].h = h

\* PUT and DELETE /v1/index work alone, under mu, on a server without an index;
\* a PUT has written the bootstrap file of the index it is about to open.
Locked ==
  \A w \in Workers :
    /\ req[w].pc \in {"open", "unboot", "wipe"} <=> mu = w
    /\ mu = w => db = None
    /\ req[w].pc = "open" => boot = [dim |-> req[w].dim, metric |-> req[w].metric]

\* The server's engine is the only one that is open: a new one is opened only
\* when every request on an older one has ended.
OneEngine == db # None => \A h \in Handles \ {db} : handles[h] = None

\* The bootstrap file names an index; main has read it.
Booted ==
  /\ boot \in Opened \cup {NoFile, Torn}
  /\ phase = "config" => IF cfg.dim = 0 THEN boot \in {NoFile, Torn} ELSE boot = cfg

\* A server has an index exactly while the clients know of one, unless a power
\* failure took the bootstrap file; its engine has the dimension of the store.
InStep ==
  /\ phase \in Live /\ ~exposed => (db # None <=> served # None)
  /\ db # None => served # None /\ ~exposed /\ handles[db].s.dim = served.dim

\* What the clients were told of the vectors holds of s.
Keeps(s) == \A i \in Ids : /\ told[i] = "stored" => i \in s.vecs
                           /\ told[i] = "deleted" => i \notin s.vecs

\* The clients were told what the engine holds, and once it is gone, what the
\* store holds.
Answers ==
  /\ served = None \/ exposed => told = NothingTold
  /\ db # None => Keeps(handles[db].s)
  /\ phase \notin Live /\ served # None => Keeps(store)

IInv == /\ TypeOK /\ Quiet /\ Held /\ Locked /\ OneEngine /\ Booted /\ InStep
        /\ RestartReopens /\ Answers

(***************************************************************************)
(* Facts about the operators                                               *)
(***************************************************************************)

LEMMA OneHandle == 1 \in Handles
  BY FS_CardinalityType, ParametersAssumption DEF Handles

\* What Open finds: a store of the dimension asked for, with the vectors of the
\* one that was there.
LEMMA OpenFinds ==
  ASSUME TypeOK, NEW p \in Opened, NEW e \in OpenOutcomes(p), e # None
  PROVE  /\ e \in Stores /\ e.dim = p.dim
         /\ StoreAfterOpen(e) \in Stores /\ StoreAfterOpen(e).dim = p.dim
         /\ StoreAfterOpen(e).vecs = e.vecs
         /\ store \notin {NoFile, Torn} => StoreAfterOpen(e) = store
<1>1. CASE store = NoFile
  <2>1. e = NewStore(p)
    BY <1>1, NothingAssumption DEF OpenOutcomes
  <2>2. e \in Stores /\ e.dim = p.dim
    BY <2>1 DEF NewStore, Stores, Opened
  <2> QED BY <1>1, <2>2 DEF StoreAfterOpen
<1>2. CASE store = Torn
  <2>1. PICK v \in SUBSET Ids : e = [NewStore(p) EXCEPT !.vecs = v, !.used = TRUE]
    BY <1>2, NothingAssumption DEF OpenOutcomes
  <2>2. e \in Stores /\ e.dim = p.dim
    BY <2>1 DEF NewStore, Stores, Opened
  <2> QED BY <1>2, <2>2 DEF StoreAfterOpen
<1>3. CASE store \notin {NoFile, Torn}
  <2>1. store \in Stores
    BY <1>3 DEF TypeOK
  <2>2. e = [store EXCEPT !.metric = p.metric] /\ store.dim = p.dim
    BY <1>3 DEF OpenOutcomes
  <2> QED BY <1>3, <2>1, <2>2 DEF Stores, Opened, StoreAfterOpen
<1> QED BY <1>1, <1>2, <1>3

\* A request's engine call: the engine goes to s, the store stays or takes s,
\* the clients are told nothing that s does not hold.
KeptAfter(s) == \A i \in Ids : /\ told'[i] = "stored" => i \in s.vecs
                               /\ told'[i] = "deleted" => i \notin s.vecs

EngineCall(w, s) ==
  /\ req[w].pc \in {"engine", "rows"}
  /\ s \in Stores /\ s.dim = Engine(w).dim
  /\ \/ Answer(w, Apply(w, s))
     \/ /\ handles' = Apply(w, s)
        /\ \E r \in Requests : /\ r.pc \in {"engine", "rows"} /\ r.h = req[w].h
                               /\ req' = [req EXCEPT ![w] = r]
  /\ store' \in {store, s}
  /\ told' \in [Ids -> {"unknown", "stored", "deleted"}]
  /\ IF req[w].h = db THEN KeptAfter(s) ELSE told' = told
  /\ budget' \in [calls : 0..MaxCalls, sigs : 0..MaxSignals, faults : 0..MaxFaults]
  /\ EngineFrame

LEMMA EngineCallInv ==
  ASSUME IInv, NEW w \in Workers, NEW s \in Stores, EngineCall(w, s)
  PROVE  IInv'
<1> DEFINE h == req[w].h
<1>1. /\ h \in Handles /\ handles[h] # None /\ handles[h] \in [s : Stores, wiped : BOOLEAN]
      /\ s.dim = handles[h].s.dim
  BY DEF IInv, TypeOK, EngineCall, Engine, Requests, Idle
<1>2. /\ phase' = phase /\ cfg' = cfg /\ db' = db /\ mu' = mu /\ sig' = sig /\ boot' = boot
      /\ bootNew' = bootNew /\ served' = served /\ exposed' = exposed /\ wipedOk' = wipedOk
  BY DEF EngineCall, EngineFrame
<1>3. PICK r \in Requests \cup {Idle} :
         /\ req' = [req EXCEPT ![w] = r]
         /\ r.h \in {None, h} /\ r.pc \in {"idle", "engine", "rows"}
         /\ r.h = None => r = Idle
  <2>1. CASE Answer(w, Apply(w, s))
    <3>1. req' = [req EXCEPT ![w] = Idle] /\ Idle.h = None /\ Idle.pc = "idle"
      BY <2>1 DEF Answer, Idle
    <3> QED BY <3>1
  <2>2. CASE \E r \in Requests : /\ r.pc \in {"engine", "rows"} /\ r.h = h
                                 /\ req' = [req EXCEPT ![w] = r]
    <3>1. h # None
      BY <1>1, NothingAssumption
    <3> QED BY <2>2, <3>1
  <2> QED BY <2>1, <2>2 DEF EngineCall
<1>4. \A g \in Handles : handles'[g] = IF g = h THEN (IF handles'[h] = None THEN None
                                                   ELSE [handles[h] EXCEPT !.s = s])
                                    ELSE handles[g]
  BY <1>1 DEF EngineCall, Answer, Released, Apply, IInv, TypeOK
<1>5. handles'[h] = None => h # db /\ r = Idle /\ \A u \in Workers \ {w} : req[u].h # h
  <2>1. req'[w] = r
    BY <1>3 DEF IInv, TypeOK
  <2>2. Apply(w, s)[h] # None
    BY <1>1, NothingAssumption DEF Apply
  <2> QED BY <1>1, <2>1, <2>2 DEF EngineCall, Answer, Released, IInv, TypeOK
<1>6. handles' \in [Handles -> {None} \cup [s : Stores, wiped : BOOLEAN]]
  BY <1>1 DEF EngineCall, Answer, Released, Apply, IInv, TypeOK
<1>7. req' \in [Workers -> Requests \cup {Idle}]
  BY <1>3 DEF IInv, TypeOK
<1>8. phase \in Serving
  BY DEF EngineCall, IInv, Quiet, Idle
<1>9. db # None => db = h
  BY <1>1 DEF IInv, OneEngine
<1>10. /\ store' \in Stores \cup {NoFile, Torn}
       /\ told' \in [Ids -> {"unknown", "stored", "deleted"}]
       /\ budget' \in [calls : 0..MaxCalls, sigs : 0..MaxSignals, faults : 0..MaxFaults]
  BY DEF EngineCall, IInv, TypeOK
<1> HIDE DEF h
<1>11. \A u \in Workers : /\ req'[u].h # None => handles'[req'[u].h] # None
                          /\ req'[u].pc \in {"parse", "engine", "rows"} <=> req'[u].h # None
  BY <1>1, <1>3, <1>4, <1>5, <1>7 DEF IInv, TypeOK, Requests, Idle
<1>12. db # None => handles'[db] # None
  BY <1>4, <1>5, <1>9
<1>13. TypeOK'
  BY <1>2, <1>6, <1>7, <1>10, <1>11, <1>12 DEF IInv, TypeOK
<1>14. Quiet'
  BY <1>2, <1>8 DEF Quiet, Serving, Live
<1>15. Locked'
  <2>1. \A u \in Workers : req'[u] = IF u = w THEN r ELSE req[u]
    BY <1>3 DEF IInv, TypeOK
  <2>2. mu # w
    BY DEF EngineCall, IInv, Locked
  <2> QED BY <1>2, <1>3, <2>1, <2>2 DEF IInv, Locked
<1>16. OneEngine'
  BY <1>2, <1>4, <1>9 DEF IInv, OneEngine
<1>17. Booted'
  BY <1>2 DEF IInv, Booted
<1>18. db # None => handles'[db].s = s /\ s.dim = served.dim
  BY <1>1, <1>4, <1>9, <1>12 DEF IInv, InStep
<1>19. InStep'
  BY <1>2, <1>18 DEF IInv, InStep
<1>20. served # None /\ ~exposed => db # None
  BY <1>8 DEF IInv, InStep, Serving, Live
<1>21. RestartReopens'
  <2>1. store' \in {store, s}
    BY DEF EngineCall
  <2> QED BY <1>2, <1>18, <1>20, <2>1, NothingAssumption DEF IInv, RestartReopens, Reopens
<1>22. Answers'
  <2>1. db # None => Keeps(handles[db].s)'
    BY <1>2, <1>9, <1>18 DEF EngineCall, Keeps, KeptAfter, h
  <2>2. served = None \/ exposed => told' = told
    BY <1>1, <1>8, <1>9, NothingAssumption
       DEF EngineCall, IInv, InStep, Serving, Live, h
  <2> QED BY <1>2, <1>8, <2>1, <2>2 DEF IInv, Answers, Serving, Live
<1>23. Held'
  <2> SUFFICES ASSUME NEW g \in Handles, handles'[g] # None, g # db
               PROVE  \E u \in Workers : req'[u].h = g
    BY <1>2 DEF Held
  <2>1. \A u \in Workers : req'[u] = IF u = w THEN r ELSE req[u]
    BY <1>3 DEF IInv, TypeOK
  <2>2. CASE g # h
    <3>1. PICK u \in Workers : req[u].h = g
      BY <1>4, <2>2 DEF IInv, Held
    <3> QED BY <2>1, <2>2, <3>1 DEF h
  <2>3. CASE g = h /\ r.h = h
    BY <2>1, <2>3
  <2>4. CASE g = h /\ r.h = None
    <3>1. r = Idle /\ req'[w].h = None
      BY <1>3, <2>1, <2>4
    <3>2. handles' = Released(Apply(w, s), w)
      <4>1. CASE Answer(w, Apply(w, s))
        BY <4>1 DEF Answer
      <4>2. CASE \E q \in Requests : q.h = req[w].h /\ req' = [req EXCEPT ![w] = q]
        <5>1. req'[w].h = req[w].h
          BY <4>2
        <5> QED BY <1>1, <3>1, <5>1, NothingAssumption DEF h
      <4> QED BY <4>1, <4>2 DEF EngineCall
    <3>3. \E u \in Workers \ {w} : req[u].h = h
      BY <1>1, <2>4, <3>2, NothingAssumption DEF Released, Apply, IInv, TypeOK, h
    <3> QED BY <2>1, <2>4, <3>3
  <2> QED BY <1>3, <2>2, <2>3, <2>4
<1> QED BY <1>23, <1>13, <1>14, <1>15, <1>16, <1>17, <1>19, <1>21, <1>22 DEF IInv

\* One Insert of a request is an engine call that adds the vector, or fails
\* having added it or not.
LEMMA InsertOneInv ==
  ASSUME IInv, NEW w \in Workers, NEW i \in Ids, req[w].pc = "engine", InsertOne(w, i),
         EngineFrame
  PROVE  IInv'
<1> DEFINE in == [Engine(w) EXCEPT !.vecs = @ \cup {i}, !.used = TRUE]
<1>1. /\ req[w].h \in Handles /\ req[w] \in Requests
      /\ Engine(w) \in Stores
      /\ req[w].h = db => Keeps(Engine(w))
  BY DEF IInv, TypeOK, Answers, Engine, Requests, Idle
<1>2. in \in Stores /\ in.dim = Engine(w).dim /\ in.vecs = Engine(w).vecs \cup {i}
  BY <1>1 DEF Stores
<1>3. told \in [Ids -> {"unknown", "stored", "deleted"}]
  BY DEF IInv, TypeOK
<1>4. budget \in [calls : 0..MaxCalls, sigs : 0..MaxSignals, faults : 0..MaxFaults]
  BY DEF IInv, TypeOK
<1> HIDE DEF in
<1>5. CASE /\ AutoCheckpoint(in)
           /\ IF req[w].todo = {i} THEN Answer(w, Apply(w, in))
              ELSE handles' = Apply(w, in) /\ req' = [req EXCEPT ![w].todo = @ \ {i}]
           /\ Tell(w, {i}, "stored")
           /\ UNCHANGED budget
  <2>1. \/ Answer(w, Apply(w, in))
        \/ /\ handles' = Apply(w, in)
           /\ \E r \in Requests : /\ r.pc \in {"engine", "rows"} /\ r.h = req[w].h
                                  /\ req' = [req EXCEPT ![w] = r]
    <3> DEFINE r == [req[w] EXCEPT !.todo = @ \ {i}]
    <3>1. r \in Requests /\ r.pc = "engine" /\ r.h = req[w].h
      BY <1>1 DEF Requests
    <3>2. [req EXCEPT ![w].todo = @ \ {i}] = [req EXCEPT ![w] = r]
      OBVIOUS
    <3> QED BY <1>5, <3>1, <3>2
  <2>2. told' \in [Ids -> {"unknown", "stored", "deleted"}]
    BY <1>3, <1>5 DEF Tell
  <2>3. IF req[w].h = db THEN KeptAfter(in) ELSE told' = told
    BY <1>1, <1>2, <1>3, <1>5 DEF Tell, KeptAfter, Keeps
  <2>4. store' \in {store, in} /\ budget' = budget
    BY <1>5 DEF AutoCheckpoint
  <2>5. EngineCall(w, in)
    BY <1>2, <1>4, <2>1, <2>2, <2>3, <2>4 DEF EngineCall
  <2> QED BY <1>2, <2>5, EngineCallInv
<1>6. CASE /\ Spend("faults")
           /\ \E s \in {in, Engine(w)} : Answer(w, Apply(w, s)) /\ AutoCheckpoint(s)
           /\ IF told[i] = "deleted" THEN Tell(w, {i}, "unknown") ELSE UNCHANGED told
  <2>1. PICK s \in {in, Engine(w)} : Answer(w, Apply(w, s)) /\ AutoCheckpoint(s)
    BY <1>6
  <2>2. s \in Stores /\ s.dim = Engine(w).dim /\ Engine(w).vecs \subseteq s.vecs
        /\ s.vecs \subseteq Engine(w).vecs \cup {i}
    BY <1>1, <1>2
  <2>3. told' \in [Ids -> {"unknown", "stored", "deleted"}]
    BY <1>3, <1>6 DEF Tell
  <2>4. IF req[w].h = db THEN KeptAfter(s) ELSE told' = told
    BY <1>1, <1>3, <1>6, <2>2 DEF Tell, KeptAfter, Keeps
  <2>5. budget' \in [calls : 0..MaxCalls, sigs : 0..MaxSignals, faults : 0..MaxFaults]
    BY <1>4, <1>6, BoundsAssumption DEF Spend
  <2>6. EngineCall(w, s)
    BY <2>1, <2>2, <2>3, <2>4, <2>5 DEF EngineCall, AutoCheckpoint
  <2> QED BY <2>2, <2>6, EngineCallInv
<1> QED BY <1>5, <1>6 DEF InsertOne, in

\* A call that leaves the engine as it is.
LEMMA NoChangeInv ==
  ASSUME IInv, NEW w \in Workers, req[w].pc \in {"engine", "rows"}, Answer(w, handles),
         store' \in {store, Engine(w)}, UNCHANGED <<budget, told>>, EngineFrame
  PROVE  IInv'
<1>1. /\ req[w].h \in Handles
      /\ Engine(w) \in Stores
      /\ handles[req[w].h] \in [s : Stores, wiped : BOOLEAN]
      /\ req[w].h = db => Keeps(Engine(w))
  BY DEF IInv, TypeOK, Answers, Engine, Requests, Idle
<1>2. Apply(w, Engine(w)) = handles
  BY <1>1 DEF Apply, Engine, IInv, TypeOK
<1>3. IF req[w].h = db THEN KeptAfter(Engine(w)) ELSE told' = told
  BY <1>1 DEF KeptAfter, Keeps
<1>4. EngineCall(w, Engine(w))
  BY <1>1, <1>2, <1>3 DEF EngineCall, IInv, TypeOK
<1> QED BY <1>1, <1>4, EngineCallInv

LEMMA handleInsertInv == \A w \in Workers : IInv /\ handleInsert(w) => IInv'
<1> SUFFICES ASSUME NEW w \in Workers, IInv, handleInsert(w) PROVE IInv' OBVIOUS
<1>1. PICK i \in req[w].todo : InsertOne(w, i)
  BY DEF handleInsert
<1>2. i \in Ids
  BY DEF IInv, TypeOK, Requests, Idle
<1> QED BY <1>1, <1>2, InsertOneInv DEF handleInsert, EngineStep

LEMMA handleInsertBatchInv == \A w \in Workers : IInv /\ handleInsertBatch(w) => IInv'
<1> SUFFICES ASSUME NEW w \in Workers, IInv, handleInsertBatch(w) PROVE IInv' OBVIOUS
<1>1. PICK i \in req[w].todo : InsertOne(w, i)
  BY DEF handleInsertBatch
<1>2. i \in Ids
  BY DEF IInv, TypeOK, Requests, Idle
<1> QED BY <1>1, <1>2, InsertOneInv DEF handleInsertBatch, EngineStep

LEMMA handlePutInv == \A w \in Workers : IInv /\ handlePut(w) => IInv'
<1> SUFFICES ASSUME NEW w \in Workers, IInv, handlePut(w) PROVE IInv' OBVIOUS
<1>1. PICK i \in req[w].todo : InsertOne(w, i)
  BY DEF handlePut
<1>2. i \in Ids
  BY DEF IInv, TypeOK, Requests, Idle
<1> QED BY <1>1, <1>2, InsertOneInv DEF handlePut, EngineStep

LEMMA handleDeleteInv == \A w \in Workers : IInv /\ handleDelete(w) => IInv'
<1> SUFFICES ASSUME NEW w \in Workers, IInv, handleDelete(w) PROVE IInv' OBVIOUS
<1>1. PICK i \in req[w].todo :
        LET out == [Engine(w) EXCEPT !.vecs = @ \ {i}] IN
        \/ /\ Answer(w, Apply(w, out)) /\ AutoCheckpoint(out)
           /\ Tell(w, {i}, "deleted") /\ UNCHANGED budget
        \/ /\ Spend("faults")
           /\ \E s \in {out, Engine(w)} : Answer(w, Apply(w, s)) /\ AutoCheckpoint(s)
           /\ Tell(w, {i}, "unknown")
  BY DEF handleDelete
<1> DEFINE out == [Engine(w) EXCEPT !.vecs = @ \ {i}]
<1>2. PICK s \in {out, Engine(w)} :
        /\ Answer(w, Apply(w, s)) /\ AutoCheckpoint(s)
        /\ \/ s = out /\ Tell(w, {i}, "deleted") /\ UNCHANGED budget
           \/ Spend("faults") /\ Tell(w, {i}, "unknown")
  BY <1>1
<1>3. /\ req[w].pc = "engine" /\ req[w].h \in Handles
      /\ Engine(w) \in Stores
      /\ req[w].h = db => Keeps(Engine(w))
  BY DEF handleDelete, EngineStep, IInv, TypeOK, Answers, Engine, Requests, Idle
<1>4. out \in Stores /\ out.dim = Engine(w).dim /\ out.vecs = Engine(w).vecs \ {i}
  BY <1>3 DEF Stores
<1>5. told \in [Ids -> {"unknown", "stored", "deleted"}]
  BY DEF IInv, TypeOK
<1> HIDE DEF out
<1>6. s \in Stores /\ s.dim = Engine(w).dim
  BY <1>3, <1>4
<1>7. told' \in [Ids -> {"unknown", "stored", "deleted"}]
  BY <1>2, <1>5 DEF Tell
<1>8. IF req[w].h = db THEN KeptAfter(s) ELSE told' = told
  BY <1>2, <1>3, <1>4, <1>5 DEF Tell, KeptAfter, Keeps
<1>9. budget' \in [calls : 0..MaxCalls, sigs : 0..MaxSignals, faults : 0..MaxFaults]
  BY <1>2, BoundsAssumption DEF Spend, IInv, TypeOK
<1>10. EngineCall(w, s)
  BY <1>2, <1>3, <1>6, <1>7, <1>8, <1>9 DEF EngineCall, AutoCheckpoint, handleDelete
<1> QED BY <1>6, <1>10, EngineCallInv

LEMMA handleBulkBuildInv == \A w \in Workers : IInv /\ handleBulkBuild(w) => IInv'
<1> SUFFICES ASSUME NEW w \in Workers, IInv, handleBulkBuild(w) PROVE IInv' OBVIOUS
<1> DEFINE built(v) == [Engine(w) EXCEPT !.vecs = v, !.used = TRUE]
           full == built(Ids)
<1>0. /\ req[w].pc = "engine" /\ EngineFrame
      /\ UNCHANGED budget \/ Spend("faults")
  BY DEF handleBulkBuild, EngineStep
<1>1. /\ req[w].pc = "engine" /\ req[w].h \in Handles /\ req[w] \in Requests
      /\ Engine(w) \in Stores
      /\ handles[req[w].h] \in [s : Stores, wiped : BOOLEAN]
      /\ req[w].h = db => Keeps(Engine(w))
  BY <1>0 DEF IInv, TypeOK, Answers, Engine, Requests, Idle
<1>2. /\ \A v \in SUBSET Ids : built(v) \in Stores /\ built(v).dim = Engine(w).dim
      /\ full \in Stores /\ full.dim = Engine(w).dim /\ full.vecs = Ids
  BY <1>1 DEF Stores
<1>3. told \in [Ids -> {"unknown", "stored", "deleted"}]
  BY DEF IInv, TypeOK
<1>4. budget' \in [calls : 0..MaxCalls, sigs : 0..MaxSignals, faults : 0..MaxFaults]
  BY <1>0, BoundsAssumption DEF Spend, IInv, TypeOK
<1> HIDE DEF built
<1>5. CASE /\ store' = full
           /\ Tell(w, Ids, "stored")
           /\ \/ Answer(w, Apply(w, full))
              \/ handles' = Apply(w, full) /\ req' = [req EXCEPT ![w].pc = "rows"]
  <2> HIDE DEF full
  <2>1. \/ Answer(w, Apply(w, full))
        \/ /\ handles' = Apply(w, full)
           /\ \E r \in Requests : /\ r.pc \in {"engine", "rows"} /\ r.h = req[w].h
                                  /\ req' = [req EXCEPT ![w] = r]
    <3> DEFINE r == [req[w] EXCEPT !.pc = "rows"]
    <3>1. r \in Requests /\ r.pc = "rows" /\ r.h = req[w].h
      BY <1>1 DEF Requests
    <3>2. [req EXCEPT ![w].pc = "rows"] = [req EXCEPT ![w] = r]
      OBVIOUS
    <3> QED BY <1>5, <3>1, <3>2
  <2>2. told' \in [Ids -> {"unknown", "stored", "deleted"}]
    BY <1>3, <1>5 DEF Tell
  <2>3. IF req[w].h = db THEN KeptAfter(full) ELSE told' = told
    BY <1>2, <1>5 DEF Tell, KeptAfter
  <2>4. EngineCall(w, full)
    BY <1>1, <1>2, <1>4, <1>5, <2>1, <2>2, <2>3 DEF EngineCall, handleBulkBuild
  <2> QED BY <1>2, <2>4, EngineCallInv
<1>6. CASE Answer(w, handles) /\ UNCHANGED <<store, budget, told>>
  BY <1>1, <1>6, NoChangeInv DEF handleBulkBuild
<1>7. CASE /\ \E s \in {Engine(w)} \cup {built(v) : v \in SUBSET Ids} :
                Answer(w, Apply(w, s)) /\ store' \in IF s = full THEN {store, full} ELSE {store}
           /\ Tell(w, Ids, "unknown")
  <2>1. PICK s \in {Engine(w)} \cup {built(v) : v \in SUBSET Ids} :
          Answer(w, Apply(w, s)) /\ store' \in {store, s}
    BY <1>7
  <2>2. s \in Stores /\ s.dim = Engine(w).dim
    BY <1>1, <1>2
  <2>3. told' \in [Ids -> {"unknown", "stored", "deleted"}]
    BY <1>3, <1>7 DEF Tell
  <2>4. IF req[w].h = db THEN KeptAfter(s) ELSE told' = told
    BY <1>7 DEF Tell, KeptAfter
  <2>5. EngineCall(w, s)
    BY <1>1, <1>4, <2>1, <2>2, <2>3, <2>4 DEF EngineCall, handleBulkBuild
  <2> QED BY <2>2, <2>5, EngineCallInv
<1> QED BY <1>5, <1>6, <1>7 DEF handleBulkBuild, built

LEMMA handlePayloadInv == \A w \in Workers : IInv /\ handlePayload(w) => IInv'
  BY NoChangeInv DEF handlePayload, EngineStep, AutoCheckpoint

LEMMA handleReadInv == \A w \in Workers : IInv /\ handleRead(w) => IInv'
  BY NoChangeInv DEF handleRead, EngineStep

LEMMA bulkPayloadsInv == \A w \in Workers : IInv /\ bulkPayloads(w) => IInv'
  BY NoChangeInv DEF bulkPayloads, AutoCheckpoint

\* A request that is answered without touching an engine.
LEMMA AnsweredTypes ==
  ASSUME IInv, NEW w \in Workers, Answer(w, handles), db' = db
  PROVE  /\ handles' \in [Handles -> {None} \cup [s : Stores, wiped : BOOLEAN]]
         /\ req' \in [Workers -> Requests \cup {Idle}]
         /\ \A u \in Workers : /\ req'[u].h # None => handles'[req'[u].h] # None
                               /\ req'[u].pc \in {"parse", "engine", "rows"} <=> req'[u].h # None
         /\ db # None => handles'[db] # None
<1>1. /\ handles' \in [Handles -> {None} \cup [s : Stores, wiped : BOOLEAN]]
      /\ \A g \in Handles : \/ handles'[g] = handles[g]
                            \/ g # db /\ \A u \in Workers \ {w} : req[u].h # g
  BY DEF Answer, Released, IInv, TypeOK
<1>2. /\ req' \in [Workers -> Requests \cup {Idle}]
      /\ \A u \in Workers : req'[u] = IF u = w THEN Idle ELSE req[u]
  BY DEF Answer, IInv, TypeOK
<1>3. \A u \in Workers : req[u].h \in Handles \cup {None}
  BY DEF IInv, TypeOK, Requests, Idle
<1> QED BY <1>1, <1>2, <1>3 DEF IInv, TypeOK, Idle

LEMMA LoadHttpConfigFromEnvInv == IInv /\ LoadHttpConfigFromEnv => IInv'
<1> SUFFICES ASSUME IInv, LoadHttpConfigFromEnv PROVE IInv' OBVIOUS
<1>1. TypeOK'
  <2>1. cfg' \in Config /\ boot' \in Config \cup {NoFile, Torn} /\ bootNew' \in BOOLEAN
    <3>1. CASE readBootstrap
      BY <3>1 DEF LoadHttpConfigFromEnv, readBootstrap, IInv, TypeOK
    <3>2. CASE ~readBootstrap
      <4>1. PICK env \in Envs :
              /\ cfg' = env
              /\ IF env.dim > 0 THEN writeBootstrap(env) ELSE UNCHANGED <<boot, bootNew>>
        BY <3>2 DEF LoadHttpConfigFromEnv
      <4>2. env \in Config
        BY ParametersAssumption DEF Config
      <4> QED BY <4>1, <4>2 DEF writeBootstrap, IInv, TypeOK
    <3> QED BY <3>1, <3>2
  <2> QED BY <2>1 DEF IInv, TypeOK, LoadHttpConfigFromEnv, ghosts
<1>2. Quiet'
  BY DEF IInv, TypeOK, Quiet, LoadHttpConfigFromEnv, Live, Serving
<1>3. Held'
  BY DEF IInv, Held, LoadHttpConfigFromEnv
<1>4. Locked'
  BY DEF IInv, Quiet, Locked, LoadHttpConfigFromEnv, Idle, Serving
<1>5. OneEngine'
  BY DEF IInv, OneEngine, LoadHttpConfigFromEnv
<1>6. Booted'
  <2>1. CASE readBootstrap
    BY <2>1, ParametersAssumption DEF LoadHttpConfigFromEnv, IInv, Booted, Opened
  <2>2. CASE ~readBootstrap
    <3>1. PICK env \in Envs :
            /\ cfg' = env
            /\ IF env.dim > 0 THEN writeBootstrap(env) ELSE UNCHANGED <<boot, bootNew>>
      BY <2>2 DEF LoadHttpConfigFromEnv
    <3>2. env \in [dim : Dims \cup {0}, metric : Metrics]
      BY ParametersAssumption
    <3>3. CASE env.dim = 0
      BY <2>2, <3>1, <3>3 DEF readBootstrap, Booted
    <3>4. CASE env.dim # 0
      <4>1. env.dim \in Dims /\ env.dim > 0
        <5>1. env.dim \in Dims
          BY <3>2, <3>4
        <5>2. env.dim \in Nat \ {0}
          BY <5>1, ParametersAssumption
        <5> QED BY <5>1, <5>2
      <4>2. env \in Opened
        BY <3>2, <4>1 DEF Opened
      <4> QED BY <3>1, <3>4, <4>1, <4>2 DEF writeBootstrap, Booted
    <3> QED BY <3>3, <3>4
  <2> QED BY <2>1, <2>2
<1>7. InStep'
  BY DEF IInv, InStep, LoadHttpConfigFromEnv, ghosts, Live
<1>8. RestartReopens'
  BY NothingAssumption
     DEF IInv, TypeOK, RestartReopens, Reopens, LoadHttpConfigFromEnv, readBootstrap, ghosts,
         Config
<1>9. Answers'
  BY DEF IInv, Answers, LoadHttpConfigFromEnv, ghosts, Live, Keeps
<1> QED BY <1>1, <1>2, <1>3, <1>4, <1>5, <1>6, <1>7, <1>8, <1>9 DEF IInv

LEMMA ListenInv == IInv /\ Listen => IInv'
<1> SUFFICES ASSUME IInv, Listen PROVE IInv' OBVIOUS
<1>1. TypeOK'
  BY BoundsAssumption
     DEF IInv, TypeOK, Quiet, Listen, Spend, disk, Idle, NothingTold, Serving
<1>2. Quiet'
  BY DEF IInv, TypeOK, Quiet, Listen, Live, Serving
<1>3. Held'
  BY DEF IInv, Held, Listen
<1>4. Locked'
  BY DEF IInv, Locked, Listen, disk
<1>5. OneEngine'
  BY DEF IInv, OneEngine, Listen
<1>6. Booted'
  BY DEF IInv, Booted, Listen, disk
<1>7. InStep'
  BY DEF IInv, InStep, Listen, Live
<1>8. RestartReopens'
  BY DEF IInv, RestartReopens, Reopens, Listen, disk
<1>9. Answers'
  BY DEF IInv, Answers, Listen, NothingTold, Live, Keeps
<1> QED BY <1>1, <1>2, <1>3, <1>4, <1>5, <1>6, <1>7, <1>8, <1>9 DEF IInv

LEMMA SignalInv == IInv /\ Signal => IInv'
<1> SUFFICES ASSUME IInv, Signal PROVE IInv' OBVIOUS
<1>1. TypeOK'
  BY BoundsAssumption DEF IInv, TypeOK, Signal, Spend, disk, ghosts
<1>2. Quiet'
  BY DEF IInv, TypeOK, Quiet, Signal
<1>3. Held'
  BY DEF IInv, Held, Signal
<1>4. Locked'
  BY DEF IInv, Locked, Signal, disk
<1>5. OneEngine'
  BY DEF IInv, OneEngine, Signal
<1>6. Booted'
  BY DEF IInv, Booted, Signal, disk
<1>7. InStep'
  BY DEF IInv, InStep, Signal, ghosts
<1>8. RestartReopens'
  BY DEF IInv, RestartReopens, Reopens, Signal, disk, ghosts
<1>9. Answers'
  BY DEF IInv, Answers, Signal, disk, ghosts, Keeps
<1> QED BY <1>1, <1>2, <1>3, <1>4, <1>5, <1>6, <1>7, <1>8, <1>9 DEF IInv

LEMMA ShutdownWatcherInv == IInv /\ ShutdownWatcher => IInv'
<1> SUFFICES ASSUME IInv, ShutdownWatcher PROVE IInv' OBVIOUS
<1>1. TypeOK'
  BY DEF IInv, TypeOK, ShutdownWatcher, disk, ghosts
<1>2. Quiet'
  BY DEF IInv, TypeOK, Quiet, ShutdownWatcher, Live, Serving
<1>3. Held'
  BY DEF IInv, Held, ShutdownWatcher
<1>4. Locked'
  BY DEF IInv, Locked, ShutdownWatcher, disk
<1>5. OneEngine'
  BY DEF IInv, OneEngine, ShutdownWatcher
<1>6. Booted'
  BY DEF IInv, Booted, ShutdownWatcher, disk
<1>7. InStep'
  BY DEF IInv, InStep, ShutdownWatcher, ghosts, Live
<1>8. RestartReopens'
  BY DEF IInv, RestartReopens, Reopens, ShutdownWatcher, disk, ghosts
<1>9. Answers'
  BY DEF IInv, Answers, ShutdownWatcher, ghosts, Live, Keeps
<1> QED BY <1>1, <1>2, <1>3, <1>4, <1>5, <1>6, <1>7, <1>8, <1>9 DEF IInv

LEMMA ListenReturnsInv == IInv /\ ListenReturns => IInv'
<1> SUFFICES ASSUME IInv, ListenReturns PROVE IInv' OBVIOUS
<1>1. TypeOK'
  BY DEF IInv, TypeOK, ListenReturns, disk, ghosts
<1>2. Quiet'
  BY DEF IInv, TypeOK, Quiet, Locked, ListenReturns, Idle, Live
<1>3. Held'
  BY DEF IInv, Held, ListenReturns
<1>4. Locked'
  BY DEF IInv, Locked, ListenReturns, Idle
<1>5. OneEngine'
  BY DEF IInv, OneEngine, ListenReturns
<1>6. Booted'
  BY DEF IInv, Booted, ListenReturns, disk
<1>7. InStep'
  BY DEF IInv, InStep, ListenReturns, ghosts, Live
<1>8. RestartReopens'
  BY DEF IInv, RestartReopens, Reopens, ListenReturns, disk, ghosts
<1>9. Answers'
  BY DEF IInv, Answers, ListenReturns, ghosts, Live, Keeps
<1> QED BY <1>1, <1>2, <1>3, <1>4, <1>5, <1>6, <1>7, <1>8, <1>9 DEF IInv

LEMMA GracefulShutdownInv == IInv /\ GracefulShutdown => IInv'
<1> SUFFICES ASSUME IInv, GracefulShutdown PROVE IInv' OBVIOUS
<1>1. TypeOK'
  BY OneHandle, ParametersAssumption, BoundsAssumption
     DEF IInv, TypeOK, Quiet, GracefulShutdown, Spend, Uninit, Idle, NothingTold, Config,
         Serving
<1>2. Quiet'
  <2>1. mu' = None /\ \A w \in Workers : req'[w] = Idle
    BY DEF GracefulShutdown, IInv, Quiet, Serving
  <2>2. \A h \in Handles : handles[h] # None => h = db
    BY <2>1, NothingAssumption DEF GracefulShutdown, IInv, Held, Idle
  <2>3. db' = None /\ \A h \in Handles : handles'[h] = None
    <3>1. CASE db = None
      BY <2>2, <3>1, NothingAssumption DEF GracefulShutdown
    <3>2. CASE db # None
      <4>1. handles' = [handles EXCEPT ![db] = None] /\ db' = None
        BY <3>2 DEF GracefulShutdown
      <4> QED BY <2>2, <4>1 DEF IInv, TypeOK
    <3> QED BY <3>1, <3>2
  <2> QED BY <2>1, <2>3 DEF Quiet
<1>3. Held'
  BY DEF IInv, TypeOK, Held, GracefulShutdown
<1>4. Locked'
  BY DEF IInv, Locked, GracefulShutdown
<1>5. OneEngine'
  BY DEF OneEngine, GracefulShutdown
<1>6. Booted'
  BY DEF IInv, Booted, GracefulShutdown
<1>7. InStep'
  BY DEF InStep, GracefulShutdown, Live
<1>8. RestartReopens'
  BY NothingAssumption DEF IInv, TypeOK, InStep, RestartReopens, Reopens, GracefulShutdown
<1>9. Answers'
  BY DEF IInv, InStep, Answers, GracefulShutdown, NothingTold, Keeps
<1> QED BY <1>1, <1>2, <1>3, <1>4, <1>5, <1>6, <1>7, <1>8, <1>9 DEF IInv

\* What both ways to die leave of the invariant, but for the bootstrap file.
LEMMA DiesInv ==
  ASSUME IInv, Dies, boot' \in {boot, Torn, NoFile}, bootNew' \in BOOLEAN,
         exposed' \in BOOLEAN, UNCHANGED <<served, wipedOk>>,
         ~exposed' => ~exposed /\ boot' = boot
  PROVE  IInv'
<1>1. TypeOK'
  <2>1. budget' \in [calls : 0..MaxCalls, sigs : 0..MaxSignals, faults : 0..MaxFaults]
    BY BoundsAssumption DEF Dies, Spend, IInv, TypeOK
  <2>2. cfg' \in Config /\ boot' \in Config \cup {NoFile, Torn} /\ store' \in Stores \cup {NoFile, Torn}
    BY ParametersAssumption DEF Dies, ProcessDies, Uninit, Config, IInv, TypeOK
  <2>3. handles' \in [Handles -> {None} \cup [s : Stores, wiped : BOOLEAN]]
        /\ req' \in [Workers -> Requests \cup {Idle}]
        /\ told' \in [Ids -> {"unknown", "stored", "deleted"}]
    BY DEF Dies, ProcessDies, NothingTold
  <2>4. served' \in Config \cup {None} /\ wipedOk' \in BOOLEAN
    BY DEF IInv, TypeOK
  <2>5. \A w \in Workers : req'[w] = Idle
    BY DEF Dies, ProcessDies
  <2> QED BY <2>1, <2>2, <2>3, <2>4, <2>5 DEF Dies, ProcessDies, TypeOK, Idle
<1>2. Quiet'
  BY DEF Quiet, Dies, ProcessDies
<1>3. Held'
  BY DEF Held, Dies, ProcessDies
<1>4. Locked'
  BY NothingAssumption DEF Locked, Dies, ProcessDies, Idle
<1>5. OneEngine'
  BY DEF OneEngine, Dies, ProcessDies
<1>6. Booted'
  BY DEF IInv, Booted, Dies, ProcessDies
<1>7. InStep'
  BY DEF InStep, Dies, ProcessDies, Live
<1>8. RestartReopens'
  BY DEF IInv, Quiet, Locked, InStep, RestartReopens, Reopens, Dies, Idle, Live, Serving
<1>9. Answers'
  BY DEF Answers, Dies, ProcessDies, NothingTold, Keeps
<1> QED BY <1>1, <1>2, <1>3, <1>4, <1>5, <1>6, <1>7, <1>8, <1>9 DEF IInv

LEMMA CrashInv == IInv /\ Crash => IInv'
  BY DiesInv DEF Crash, IInv, TypeOK

LEMMA PowerLossInv == IInv /\ PowerLoss => IInv'
<1> SUFFICES ASSUME IInv, PowerLoss PROVE IInv' OBVIOUS
<1>1. exposed \in BOOLEAN /\ bootNew \in BOOLEAN
  BY DEF IInv, TypeOK
<1> QED BY <1>1, DiesInv DEF PowerLoss

LEMMA AcceptInv == \A w \in Workers : IInv /\ Accept(w) => IInv'
<1> SUFFICES ASSUME NEW w \in Workers, IInv, Accept(w) PROVE IInv' OBVIOUS
<1>1. TypeOK'
  BY BoundsAssumption
     DEF IInv, TypeOK, Accept, Spend, DataOps, IndexOps, VectorOps, disk, ghosts, Requests
<1>2. Quiet'
  BY DEF Quiet, Accept, Live, Serving
<1>3. Held'
  BY DEF IInv, Held, Accept, Idle
<1>4. Locked'
  BY DEF IInv, Locked, Accept, disk, Idle
<1>5. OneEngine'
  BY DEF IInv, OneEngine, Accept
<1>6. Booted'
  BY DEF IInv, Booted, Accept, disk
<1>7. InStep'
  BY DEF IInv, InStep, Accept, ghosts
<1>8. RestartReopens'
  BY DEF IInv, RestartReopens, Reopens, Accept, disk, ghosts
<1>9. Answers'
  BY DEF IInv, Answers, Accept, ghosts, Live, Keeps
<1> QED BY <1>1, <1>2, <1>3, <1>4, <1>5, <1>6, <1>7, <1>8, <1>9 DEF IInv

LEMMA requireInitInv == \A w \in Workers : IInv /\ requireInit(w) => IInv'
<1> SUFFICES ASSUME NEW w \in Workers, IInv, requireInit(w) PROVE IInv' OBVIOUS
<1>1. TypeOK'
  BY DEF IInv, TypeOK, requireInit, Answer, Released, disk, ghosts, Idle, Requests
<1>2. Quiet'
  BY DEF IInv, Quiet, requireInit, Idle, Live, Serving
<1>3. Held'
  BY DEF IInv, TypeOK, Held, requireInit, Answer, Released, Idle, Requests
<1>4. Locked'
  BY DEF IInv, TypeOK, Locked, requireInit, Answer, disk, Idle, Requests
<1>5. OneEngine'
  BY DEF IInv, OneEngine, requireInit
<1>6. Booted'
  BY DEF IInv, Booted, requireInit, disk
<1>7. InStep'
  BY DEF IInv, InStep, requireInit, ghosts
<1>8. RestartReopens'
  BY DEF IInv, RestartReopens, Reopens, requireInit, disk, ghosts
<1>9. Answers'
  BY DEF IInv, Answers, requireInit, disk, ghosts, Keeps
<1> QED BY <1>1, <1>2, <1>3, <1>4, <1>5, <1>6, <1>7, <1>8, <1>9 DEF IInv

LEMMA ParseRequestInv == \A w \in Workers : IInv /\ ParseRequest(w) => IInv'
<1> SUFFICES ASSUME NEW w \in Workers, IInv, ParseRequest(w) PROVE IInv' OBVIOUS
<1>1. TypeOK'
  <2>1. CASE Answer(w, handles)
    BY <2>1, AnsweredTypes DEF IInv, TypeOK, ParseRequest, disk, ghosts
  <2>2. CASE req' = [req EXCEPT ![w].pc = "engine"] /\ UNCHANGED handles
    <3>1. [req[w] EXCEPT !.pc = "engine"] \in Requests
      BY DEF IInv, TypeOK, ParseRequest, Idle, Requests
    <3>2. req' = [req EXCEPT ![w] = [req[w] EXCEPT !.pc = "engine"]]
      BY <2>2
    <3> QED
      BY <2>2, <3>1, <3>2 DEF IInv, TypeOK, ParseRequest, disk, ghosts
  <2> QED BY <2>1, <2>2 DEF ParseRequest
<1>2. Quiet'
  BY DEF IInv, Quiet, ParseRequest, Idle, Live, Serving
<1>3. Held'
  <2>1. CASE Answer(w, handles)
    <3>1. handles' = Released(handles, w) /\ db' = db
          /\ \A u \in Workers : u # w => req'[u] = req[u]
      BY <2>1 DEF IInv, TypeOK, Answer, ParseRequest
    <3>2. \A u \in Workers : req[u].h \in Handles \cup {None}
      BY DEF IInv, TypeOK, Requests, Idle
    <3>3. ASSUME NEW g \in Handles, handles'[g] # None
          PROVE  g = db \/ \E u \in Workers : req'[u].h = g
      <4>1. handles[g] # None
        BY <3>1, <3>2, <3>3 DEF IInv, TypeOK, Released
      <4>2. CASE \E u \in Workers \ {w} : req[u].h = g
        BY <3>1, <4>2
      <4>3. CASE g # db /\ ~ \E u \in Workers \ {w} : req[u].h = g
        <5>1. req[w].h = g /\ g # None
          BY <4>1, <4>3, NothingAssumption DEF IInv, Held
        <5>2. handles' = [handles EXCEPT ![g] = None]
          BY <3>1, <4>3, <5>1 DEF Released
        <5> QED BY <3>3, <5>2 DEF IInv, TypeOK
      <4> QED BY <4>2, <4>3
    <3> QED BY <3>1, <3>3 DEF Held
  <2>2. CASE req' = [req EXCEPT ![w].pc = "engine"] /\ UNCHANGED handles
    <3>1. \A u \in Workers : req'[u].h = req[u].h
      BY <2>2 DEF IInv, TypeOK, Requests, Idle
    <3> QED BY <2>2, <3>1 DEF IInv, Held, ParseRequest
  <2> QED BY <2>1, <2>2 DEF ParseRequest
<1>4. Locked'
  BY NothingAssumption DEF IInv, TypeOK, Locked, ParseRequest, disk, Answer, Idle, Requests
<1>5. OneEngine'
  BY DEF IInv, TypeOK, OneEngine, ParseRequest, Answer, Released
<1>6. Booted'
  BY DEF IInv, Booted, ParseRequest, disk
<1>7. InStep'
  BY DEF IInv, TypeOK, InStep, ParseRequest, Answer, Released, ghosts
<1>8. RestartReopens'
  BY DEF IInv, RestartReopens, Reopens, ParseRequest, disk, ghosts
<1>9. Answers'
  BY DEF IInv, TypeOK, Answers, ParseRequest, Answer, Released, disk, ghosts, Keeps
<1> QED BY <1>1, <1>2, <1>3, <1>4, <1>5, <1>6, <1>7, <1>8, <1>9 DEF IInv

LEMMA handleCreateIndexInv == \A w \in Workers : IInv /\ handleCreateIndex(w) => IInv'
<1> SUFFICES ASSUME NEW w \in Workers, IInv, handleCreateIndex(w) PROVE IInv' OBVIOUS
<1>1. TypeOK'
  <2>1. req[w] \in Requests
    BY DEF IInv, TypeOK, handleCreateIndex, Idle
  <2>2. [dim |-> req[w].dim, metric |-> req[w].metric] \in Config
    BY <2>1 DEF Requests, Config
  <2>3. [req[w] EXCEPT !.pc = "open"] \in Requests
    BY <2>1 DEF Requests
  <2>4. CASE /\ Answer(w, handles) /\ UNCHANGED <<mu, boot, bootNew>>
             /\ budget' \in [calls : 0..MaxCalls, sigs : 0..MaxSignals, faults : 0..MaxFaults]
    BY <2>4, AnsweredTypes DEF IInv, TypeOK, handleCreateIndex, ghosts
  <2>5. CASE /\ mu' = w /\ req' = [req EXCEPT ![w].pc = "open"]
             /\ writeBootstrap([dim |-> req[w].dim, metric |-> req[w].metric])
             /\ UNCHANGED <<handles, budget>>
    <3>1. req' = [req EXCEPT ![w] = [req[w] EXCEPT !.pc = "open"]]
      BY <2>5
    <3> QED
      BY <2>2, <2>3, <2>5, <3>1
         DEF IInv, TypeOK, handleCreateIndex, writeBootstrap, ghosts
  <2> QED BY <2>4, <2>5, BoundsAssumption DEF handleCreateIndex, Spend, IInv, TypeOK
<1>2. Quiet'
  BY DEF IInv, Quiet, handleCreateIndex, Idle, Live, Serving
<1>3. Held'
  BY DEF IInv, TypeOK, Held, handleCreateIndex, Answer, Released, Idle
<1>4. Locked'
  BY NothingAssumption
     DEF IInv, TypeOK, Locked, handleCreateIndex, writeBootstrap, Answer, Idle, Requests
<1>5. OneEngine'
  BY DEF IInv, TypeOK, OneEngine, handleCreateIndex, Answer, Released
<1>6. Booted'
  BY DEF IInv, TypeOK, Quiet, Booted, handleCreateIndex, writeBootstrap, Idle, Requests,
         Serving, Opened
<1>7. InStep'
  BY DEF IInv, TypeOK, InStep, handleCreateIndex, Answer, Released, ghosts
<1>8. RestartReopens'
  BY DEF IInv, Quiet, InStep, RestartReopens, Reopens, handleCreateIndex, ghosts, Idle, Live,
         Serving
<1>9. Answers'
  BY DEF IInv, TypeOK, Answers, handleCreateIndex, Answer, Released, ghosts, Keeps
<1> QED BY <1>1, <1>2, <1>3, <1>4, <1>5, <1>6, <1>7, <1>8, <1>9 DEF IInv

LEMMA handleDeleteIndexInv == \A w \in Workers : IInv /\ handleDeleteIndex(w) => IInv'
<1> SUFFICES ASSUME NEW w \in Workers, IInv, handleDeleteIndex(w) PROVE IInv' OBVIOUS
<1>1. TypeOK'
  <2>1. /\ req[w] \in Requests /\ req[w].h = None
        /\ [req[w] EXCEPT !.pc = "unboot"] \in Requests
    BY DEF IInv, TypeOK, handleDeleteIndex, Idle, Requests
  <2>2. /\ req' \in [Workers -> Requests \cup {Idle}]
        /\ \A u \in Workers : /\ req'[u].h = req[u].h
                              /\ u # w => req'[u] = req[u]
                              /\ req'[w].pc = "unboot"
    <3>1. req' = [req EXCEPT ![w] = [req[w] EXCEPT !.pc = "unboot"]]
      BY DEF handleDeleteIndex
    <3> QED BY <2>1, <3>1 DEF IInv, TypeOK, Requests
  <2>3. /\ handles' \in [Handles -> {None} \cup [s : Stores, wiped : BOOLEAN]]
        /\ \A h \in Handles : h # db \/ (\E u \in Workers : req[u].h = db) =>
                                handles'[h] = handles[h]
    BY DEF IInv, TypeOK, handleDeleteIndex
  <2>4. \A u \in Workers : req[u].h \in Handles \cup {None}
    BY DEF IInv, TypeOK, Requests, Idle
  <2>5. \A u \in Workers : /\ req'[u].h # None => handles'[req'[u].h] # None
                           /\ req'[u].pc \in {"parse", "engine", "rows"} <=> req'[u].h # None
    <3> SUFFICES ASSUME NEW u \in Workers
                 PROVE  /\ req'[u].h # None => handles'[req'[u].h] # None
                        /\ req'[u].pc \in {"parse", "engine", "rows"} <=> req'[u].h # None
      OBVIOUS
    <3>1. req[u].h # None => handles'[req[u].h] = handles[req[u].h]
      BY <2>3, <2>4
    <3> QED BY <2>1, <2>2, <3>1 DEF IInv, TypeOK
  <2> QED BY <2>2, <2>3, <2>5 DEF IInv, TypeOK, handleDeleteIndex, disk, NothingTold
<1>2. Quiet'
  BY DEF IInv, Quiet, handleDeleteIndex, Idle
<1>3. Held'
  BY DEF IInv, TypeOK, Held, handleDeleteIndex
<1>4. Locked'
  BY NothingAssumption DEF IInv, TypeOK, Locked, handleDeleteIndex
<1>5. OneEngine'
  BY DEF OneEngine, handleDeleteIndex
<1>6. Booted'
  BY DEF IInv, Booted, handleDeleteIndex, disk
<1>7. InStep'
  BY DEF InStep, handleDeleteIndex
<1>8. RestartReopens'
  BY DEF RestartReopens, Reopens, handleDeleteIndex
<1>9. Answers'
  BY DEF Answers, handleDeleteIndex
<1> QED BY <1>1, <1>2, <1>3, <1>4, <1>5, <1>6, <1>7, <1>8, <1>9 DEF IInv

LEMMA deleteBootstrapInv == \A w \in Workers : IInv /\ deleteBootstrap(w) => IInv'
<1> SUFFICES ASSUME NEW w \in Workers, IInv, deleteBootstrap(w) PROVE IInv' OBVIOUS
<1>1. TypeOK'
  BY ParametersAssumption, BoundsAssumption
     DEF IInv, TypeOK, RestartReopens, Reopens, Answers, deleteBootstrap, Spend, DeleteAnswered,
         ghosts, Uninit, Idle, Requests, Config
<1>2. Quiet'
  BY DEF IInv, Quiet, deleteBootstrap, Idle
<1>3. Held'
  BY DEF IInv, TypeOK, Held, deleteBootstrap, DeleteAnswered, Idle, Requests
<1>4. Locked'
  BY NothingAssumption
     DEF IInv, TypeOK, Locked, deleteBootstrap, DeleteAnswered, Idle, Requests
<1>5. OneEngine'
  BY DEF IInv, OneEngine, deleteBootstrap
<1>6. Booted'
  BY DEF IInv, Quiet, Booted, deleteBootstrap, Idle, Serving
<1>7. InStep'
  BY DEF IInv, InStep, deleteBootstrap, ghosts
<1>8. RestartReopens'
  BY DEF IInv, Quiet, Locked, InStep, RestartReopens, Reopens, deleteBootstrap, ghosts, Idle, Live,
         Serving
<1>9. Answers'
  BY DEF IInv, Answers, deleteBootstrap, ghosts, Keeps
<1> QED BY <1>1, <1>2, <1>3, <1>4, <1>5, <1>6, <1>7, <1>8, <1>9 DEF IInv

LEMMA deleteContentsInv == \A w \in Workers : IInv /\ deleteContents(w) => IInv'
<1> SUFFICES ASSUME NEW w \in Workers, IInv, deleteContents(w) PROVE IInv' OBVIOUS
<1>1. TypeOK'
  <2>1. budget' \in [calls : 0..MaxCalls, sigs : 0..MaxSignals, faults : 0..MaxFaults]
    BY BoundsAssumption DEF deleteContents, Spend, IInv, TypeOK
  <2>2. store' \in Stores \cup {NoFile, Torn} /\ wipedOk' \in BOOLEAN
    BY DEF deleteContents, IInv, TypeOK
  <2>3. /\ handles' \in [Handles -> {None} \cup [s : Stores, wiped : BOOLEAN]]
        /\ \A h \in Handles : handles[h] # None => handles'[h] # None
    <3>1. \A h \in Handles : handles[h] # None => [handles[h] EXCEPT !.wiped = TRUE] \in [s : Stores, wiped : BOOLEAN]
      BY DEF IInv, TypeOK
    <3> QED BY <3>1, NothingAssumption DEF deleteContents, IInv, TypeOK
  <2>4. cfg' \in Config /\ mu' = None
    BY ParametersAssumption DEF deleteContents, DeleteAnswered, Uninit, Config
  <2>5. /\ req' \in [Workers -> Requests \cup {Idle}]
        /\ \A u \in Workers : req'[u] = IF u = w THEN Idle ELSE req[u]
    BY DEF deleteContents, DeleteAnswered, IInv, TypeOK
  <2>6. \A u \in Workers : /\ req'[u].h # None => handles'[req'[u].h] # None
                           /\ req'[u].pc \in {"parse", "engine", "rows"} <=> req'[u].h # None
    BY <2>3, <2>5 DEF IInv, TypeOK, Requests, Idle
  <2>7. db' # None => handles'[db'] # None
    BY <2>3 DEF deleteContents, IInv, TypeOK
  <2> QED
    BY <2>1, <2>2, <2>3, <2>4, <2>5, <2>6, <2>7 DEF deleteContents, IInv, TypeOK
<1>2. Quiet'
  BY DEF IInv, Quiet, deleteContents, Idle
<1>3. Held'
  BY DEF IInv, TypeOK, Held, deleteContents, DeleteAnswered, Idle
<1>4. Locked'
  BY NothingAssumption DEF IInv, TypeOK, Locked, deleteContents, DeleteAnswered, Idle
<1>5. OneEngine'
  BY DEF IInv, OneEngine, deleteContents
<1>6. Booted'
  BY DEF IInv, Quiet, Booted, deleteContents, Idle, Serving
<1>7. InStep'
  BY DEF IInv, Locked, InStep, deleteContents
<1>8. RestartReopens'
  BY DEF IInv, Quiet, Locked, InStep, RestartReopens, Reopens, deleteContents, Idle, Live, Serving
<1>9. Answers'
  BY DEF IInv, Quiet, Locked, Answers, deleteContents, Idle, Live, Serving
<1> QED BY <1>1, <1>2, <1>3, <1>4, <1>5, <1>6, <1>7, <1>8, <1>9 DEF IInv

LEMMA handleGetIndexInv == \A w \in Workers : IInv /\ handleGetIndex(w) => IInv'
<1> SUFFICES ASSUME NEW w \in Workers, IInv, handleGetIndex(w) PROVE IInv' OBVIOUS
<1>1. TypeOK'
  BY DEF IInv, TypeOK, handleGetIndex, Answer, Released, disk, ghosts, Idle
<1>2. Quiet'
  BY DEF IInv, Quiet, handleGetIndex, Idle, Live, Serving
<1>3. Held'
  BY DEF IInv, TypeOK, Held, handleGetIndex, Answer, Released, Idle
<1>4. Locked'
  BY DEF IInv, Locked, handleGetIndex, Answer, disk, Idle
<1>5. OneEngine'
  BY DEF IInv, OneEngine, handleGetIndex, Answer, Released
<1>6. Booted'
  BY DEF IInv, Booted, handleGetIndex, disk
<1>7. InStep'
  BY DEF IInv, InStep, handleGetIndex, Answer, Released, ghosts
<1>8. RestartReopens'
  BY DEF IInv, RestartReopens, Reopens, handleGetIndex, disk, ghosts
<1>9. Answers'
  BY DEF IInv, Answers, handleGetIndex, Answer, Released, disk, ghosts, Keeps
<1> QED BY <1>1, <1>2, <1>3, <1>4, <1>5, <1>6, <1>7, <1>8, <1>9 DEF IInv

\* The parameters main or a PUT opens the engine with name an index, and the
\* engine that opens is the only one.
LEMMA OpensInStep ==
  ASSUME IInv, NEW p \in Opened, NEW e \in OpenOutcomes(p), e # None, boot = p,
         db' = 1, handles' = [handles EXCEPT ![1] = [s |-> e, wiped |-> FALSE]],
         \A h \in Handles : handles[h] = None,
         store' = StoreAfterOpen(e), served' = p, exposed' = FALSE, UNCHANGED boot
  PROVE  /\ handles' \in [Handles -> {None} \cup [s : Stores, wiped : BOOLEAN]]
         /\ db' \in Handles /\ db' # None /\ served' \in Config /\ served' # None
         /\ store' \in Stores /\ store'.dim = p.dim /\ store'.vecs = e.vecs
         /\ handles'[db'] = [s |-> e, wiped |-> FALSE] /\ handles'[db'] # None
         /\ handles'[db'].s = e /\ e.dim = p.dim
         /\ Held' /\ OneEngine' /\ RestartReopens'
<1>1. /\ e \in Stores /\ e.dim = p.dim
      /\ store' \in Stores /\ store'.dim = p.dim /\ store'.vecs = e.vecs
  BY OpenFinds DEF IInv
<1>2. db' \in Handles /\ db' # None
  BY OneHandle, NothingAssumption
<1>3. served' \in Config /\ served' # None
  BY NothingAssumption DEF Opened, Config
<1>4. [s |-> e, wiped |-> FALSE] \in [s : Stores, wiped : BOOLEAN]
  BY <1>1
<1>5. /\ handles' \in [Handles -> {None} \cup [s : Stores, wiped : BOOLEAN]]
      /\ \A h \in Handles : handles'[h] = IF h = 1 THEN [s |-> e, wiped |-> FALSE] ELSE None
  BY <1>4 DEF IInv, TypeOK
<1>6. handles'[db'] = [s |-> e, wiped |-> FALSE] /\ handles'[db'] # None
  BY <1>2, <1>4, <1>5, NothingAssumption
<1>7. Held' /\ OneEngine'
  BY <1>5 DEF Held, OneEngine
<1>8. RestartReopens'
  BY <1>1, NothingAssumption DEF RestartReopens, Reopens
<1> QED BY <1>1, <1>2, <1>3, <1>5, <1>6, <1>7, <1>8

LEMMA RunHttpServerInv == IInv /\ RunHttpServer => IInv'
<1> SUFFICES ASSUME IInv, RunHttpServer PROVE IInv' OBVIOUS
<1>1. /\ phase = "config" /\ db = None /\ mu = None
      /\ \A h \in Handles : handles[h] = None
      /\ \A w \in Workers : req[w] = Idle
  BY DEF RunHttpServer, IInv, Quiet, Live, Serving
<1>2. UNCHANGED <<cfg, mu, req, boot, bootNew, budget, told>> /\ sig' \in {"none", sig}
  BY DEF RunHttpServer
<1>3. CASE phase' \in {"opened", "down"} /\ UNCHANGED <<db, handles, store, served, exposed, wipedOk>>
           /\ (phase' = "opened" => cfg.dim = 0)
  <2>1. phase' = "opened" => served = None \/ exposed
    BY <1>1, <1>3, NothingAssumption DEF IInv, Booted, RestartReopens, Reopens, TypeOK, Config
  <2>2. TypeOK'
    BY <1>2, <1>3 DEF IInv, TypeOK
  <2>3. Quiet' /\ Held' /\ Locked' /\ OneEngine'
    BY <1>1, <1>2, <1>3 DEF IInv, Quiet, Held, Locked, OneEngine, Live, Serving, Idle
  <2>4. Booted' /\ InStep' /\ RestartReopens'
    BY <1>1, <1>2, <1>3, <2>1 DEF IInv, Booted, InStep, RestartReopens, Reopens, Live
  <2>5. Answers'
    BY <1>1, <1>2, <1>3, <2>1 DEF IInv, Answers, Live, Keeps
  <2> QED BY <2>2, <2>3, <2>4, <2>5 DEF IInv
<1>4. CASE /\ cfg.dim > 0
           /\ \E e \in OpenOutcomes(cfg) :
                /\ e # None
                /\ phase' = "opened" /\ db' = 1
                /\ handles' = [handles EXCEPT ![1] = [s |-> e, wiped |-> FALSE]]
                /\ store' = StoreAfterOpen(e)
                /\ served' = cfg /\ exposed' = FALSE /\ wipedOk' = FALSE
  <2>1. PICK e \in OpenOutcomes(cfg) :
          /\ e # None
          /\ phase' = "opened" /\ db' = 1
          /\ handles' = [handles EXCEPT ![1] = [s |-> e, wiped |-> FALSE]]
          /\ store' = StoreAfterOpen(e)
          /\ served' = cfg /\ exposed' = FALSE /\ wipedOk' = FALSE
    BY <1>4
  <2>2. cfg \in Opened /\ boot = cfg
    <3>1. boot = cfg
      BY <1>1, <1>4 DEF IInv, Booted
    <3>2. cfg \in Config
      BY DEF IInv, TypeOK
    <3> QED BY <1>4, <3>1, <3>2 DEF Config, Opened
  <2>3. /\ handles' \in [Handles -> {None} \cup [s : Stores, wiped : BOOLEAN]]
        /\ db' \in Handles /\ db' # None /\ served' \in Config /\ served' # None
        /\ store' \in Stores /\ store'.dim = cfg.dim /\ store'.vecs = e.vecs
        /\ handles'[db'] # None
        /\ handles'[db'].s = e /\ e.dim = cfg.dim
        /\ Held' /\ OneEngine' /\ RestartReopens'
    BY <1>1, <1>2, <2>1, <2>2, OpensInStep
  <2>4. TypeOK'
    <3>1. \A w \in Workers : req'[w] = Idle /\ mu' = mu
      BY <1>1, <1>2
    <3>2. sig' \in {"none", "pending", "taken"} /\ phase' = "opened" /\ wipedOk' \in BOOLEAN
      BY <1>2, <2>1 DEF IInv, TypeOK
    <3>3. req' = req /\ cfg' = cfg /\ boot' = boot /\ bootNew' = bootNew
          /\ budget' = budget /\ told' = told /\ mu' = mu /\ exposed' \in BOOLEAN
      BY <1>2, <2>1
    <3> QED BY <1>1, <2>3, <3>1, <3>2, <3>3 DEF IInv, TypeOK, Idle
  <2>5. Quiet' /\ Locked' /\ Booted' /\ InStep'
    <3>1. Quiet' /\ Locked'
      <4>1. phase' = "opened" /\ mu' = None /\ \A w \in Workers : req'[w] = Idle
        BY <1>1, <1>2, <2>1
      <4>2. Quiet'
        BY <4>1 DEF Quiet, Live, Serving
      <4>3. Locked'
        BY <4>1, NothingAssumption DEF Locked, Idle
      <4> QED BY <4>2, <4>3
    <3>2. Booted'
      BY <1>2, <2>1 DEF IInv, Booted
    <3>3. InStep'
      <4>1. db' # None /\ served' # None /\ exposed' = FALSE /\ served' = cfg
        BY <2>1, <2>3
      <4>2. handles'[db'].s.dim = served'.dim
        BY <2>3, <4>1
      <4> QED BY <4>1, <4>2 DEF InStep
    <3> QED BY <3>1, <3>2, <3>3
  <2>6. Keeps(e)
    <3>1. CASE served = None \/ exposed
      BY <3>1 DEF IInv, Answers, NothingTold, Keeps
    <3>2. CASE served # None /\ ~exposed
      <4>1. store \notin {NoFile, Torn} /\ Keeps(store)
        BY <1>1, <3>2 DEF IInv, RestartReopens, Reopens, Answers, Live
      <4>2. store' = store
        BY <2>1, <4>1 DEF StoreAfterOpen
      <4> QED BY <2>3, <4>1, <4>2 DEF Keeps
    <3> QED BY <3>1, <3>2
  <2>7. Answers'
    BY <1>2, <2>1, <2>3, <2>6 DEF Answers, Keeps
  <2> QED BY <2>3, <2>4, <2>5, <2>7 DEF IInv
<1> QED BY <1>3, <1>4 DEF RunHttpServer

LEMMA createOpensInv == \A w \in Workers : IInv /\ createOpens(w) => IInv'
<1> SUFFICES ASSUME NEW w \in Workers, IInv, createOpens(w) PROVE IInv' OBVIOUS
<1> DEFINE p == [dim |-> req[w].dim, metric |-> req[w].metric]
<1>1. /\ req[w].pc = "open" /\ mu = w /\ db = None /\ boot = p
      /\ phase \in Serving /\ (served = None \/ exposed)
      /\ req[w].h = None /\ p \in Opened
  <2>1. req[w].pc = "open" /\ mu = w /\ db = None /\ boot = p
    BY DEF createOpens, IInv, Locked
  <2>2. phase \in Serving
    BY <2>1 DEF IInv, Quiet, Idle
  <2>3. req[w].h = None /\ req[w] \in Requests
    BY <2>1 DEF IInv, TypeOK, Idle
  <2> QED BY <2>1, <2>2, <2>3 DEF IInv, InStep, Serving, Live, Requests, Opened
<1>2. budget' = budget
  BY DEF createOpens
<1>3. CASE ProcessDies /\ UNCHANGED <<disk, served, exposed, wipedOk>>
  <2>1. TypeOK'
    BY <1>2, <1>3, ParametersAssumption
       DEF ProcessDies, disk, IInv, TypeOK, Uninit, Config, Idle, NothingTold
  <2>2. Quiet' /\ Held' /\ Locked' /\ OneEngine'
    BY <1>3, NothingAssumption DEF ProcessDies, Quiet, Held, Locked, OneEngine, Idle
  <2>3. Booted' /\ InStep' /\ RestartReopens' /\ Answers'
    BY <1>1, <1>3
       DEF IInv, ProcessDies, disk, Booted, InStep, RestartReopens, Reopens, Answers,
           NothingTold, Keeps, Live
  <2> QED BY <2>1, <2>2, <2>3 DEF IInv
<1>4. CASE \A h \in Handles : handles[h] = None
  <2>1. /\ mu' = None /\ req' = [req EXCEPT ![w] = Idle] /\ phase' = phase /\ sig' = sig
        /\ \E e \in OpenOutcomes(p) :
             IF e = None
             THEN /\ boot' = NoFile
                  /\ UNCHANGED <<cfg, db, handles, store, bootNew, served, exposed, told, wipedOk>>
             ELSE /\ cfg' = p /\ db' = 1
                  /\ handles' = [handles EXCEPT ![1] = [s |-> e, wiped |-> FALSE]]
                  /\ store' = StoreAfterOpen(e)
                  /\ served' = p /\ exposed' = FALSE /\ told' = NothingTold /\ wipedOk' = FALSE
                  /\ UNCHANGED <<boot, bootNew>>
    BY <1>4 DEF createOpens
  <2>2. /\ req' \in [Workers -> Requests \cup {Idle}]
        /\ \A u \in Workers : req'[u] = IF u = w THEN Idle ELSE req[u]
    BY <2>1 DEF IInv, TypeOK
  <2>3. \A u \in Workers : req[u].h = None
    BY <1>4 DEF IInv, TypeOK, Requests, Idle
  <2>4. Quiet' /\ Locked'
    BY <1>1, <2>1, <2>2, NothingAssumption DEF IInv, Quiet, Locked, Serving, Live, Idle
  <2>5. CASE boot' = NoFile /\ UNCHANGED <<cfg, db, handles, store, bootNew, served, exposed, told, wipedOk>>
    <3>1. TypeOK'
      BY <1>2, <2>1, <2>2, <2>5 DEF IInv, TypeOK, Idle
    <3>2. Held' /\ OneEngine' /\ Booted' /\ InStep' /\ RestartReopens' /\ Answers'
      BY <1>1, <1>4, <2>1, <2>5
         DEF IInv, Held, OneEngine, Booted, InStep, RestartReopens, Reopens, Answers, Serving,
             Live, Keeps, NothingTold
    <3> QED BY <2>4, <3>1, <3>2 DEF IInv
  <2>6. CASE \E e \in OpenOutcomes(p) :
               /\ e # None
               /\ cfg' = p /\ db' = 1
               /\ handles' = [handles EXCEPT ![1] = [s |-> e, wiped |-> FALSE]]
               /\ store' = StoreAfterOpen(e)
               /\ served' = p /\ exposed' = FALSE /\ told' = NothingTold /\ wipedOk' = FALSE
               /\ UNCHANGED <<boot, bootNew>>
    <3>1. PICK e \in OpenOutcomes(p) :
            /\ e # None
            /\ cfg' = p /\ db' = 1
            /\ handles' = [handles EXCEPT ![1] = [s |-> e, wiped |-> FALSE]]
            /\ store' = StoreAfterOpen(e)
            /\ served' = p /\ exposed' = FALSE /\ told' = NothingTold /\ wipedOk' = FALSE
            /\ UNCHANGED <<boot, bootNew>>
      BY <2>6
    <3> HIDE DEF p
    <3>2. /\ handles' \in [Handles -> {None} \cup [s : Stores, wiped : BOOLEAN]]
          /\ db' \in Handles /\ db' # None /\ served' \in Config /\ served' # None
          /\ store' \in Stores
          /\ handles'[db'] # None
          /\ handles'[db'].s = e /\ e.dim = p.dim
          /\ Held' /\ OneEngine' /\ RestartReopens'
      BY <1>1, <1>4, <3>1, OpensInStep
    <3>3. TypeOK'
      BY <1>2, <2>1, <2>2, <2>3, <3>1, <3>2 DEF IInv, TypeOK, Idle, NothingTold
    <3>4. Booted' /\ InStep'
      BY <1>1, <2>1, <3>1, <3>2 DEF Booted, InStep, Serving
    <3>5. Answers'
      BY <1>1, <2>1, <3>1, <3>2 DEF Answers, Keeps, NothingTold
    <3> QED BY <2>4, <3>2, <3>3, <3>4, <3>5 DEF IInv
  <2> QED BY <2>1, <2>5, <2>6
<1> QED BY <1>3, <1>4 DEF createOpens

LEMMA InitInv == Init => IInv
<1> SUFFICES ASSUME Init PROVE IInv OBVIOUS
<1>1. TypeOK
  <2>1. budget \in [calls : 0..MaxCalls, sigs : 0..MaxSignals, faults : 0..MaxFaults]
    BY BoundsAssumption DEF Init
  <2>2. cfg \in Config
    BY ParametersAssumption DEF Init, Uninit, Config
  <2>3. /\ handles \in [Handles -> {None} \cup [s : Stores, wiped : BOOLEAN]]
        /\ req \in [Workers -> Requests \cup {Idle}]
        /\ told \in [Ids -> {"unknown", "stored", "deleted"}]
    BY DEF Init, NothingTold
  <2>4. \A w \in Workers : req[w] = Idle
    BY DEF Init
  <2> QED BY <2>1, <2>2, <2>3, <2>4 DEF Init, TypeOK, Idle
<1>2. Quiet /\ Held /\ Locked /\ OneEngine
  BY NothingAssumption DEF Init, Quiet, Held, Locked, OneEngine, Idle
<1>3. Booted /\ InStep /\ RestartReopens /\ Answers
  BY DEF Init, Booted, InStep, RestartReopens, Reopens, Answers
<1> QED BY <1>1, <1>2, <1>3 DEF IInv

LEMMA NextInv == IInv /\ [Next]_vars => IInv'
<1> SUFFICES ASSUME IInv, [Next]_vars PROVE IInv' OBVIOUS
<1>1. CASE MainThread
  BY <1>1, RunHttpServerInv, ListenInv, ListenReturnsInv, GracefulShutdownInv
     DEF MainThread
<1>2. CASE LoadHttpConfigFromEnv
  BY <1>2, LoadHttpConfigFromEnvInv
<1>3. CASE ShutdownWatcher
  BY <1>3, ShutdownWatcherInv
<1>4. CASE Signal
  BY <1>4, SignalInv
<1>5. CASE Crash \/ PowerLoss
  BY <1>5, CrashInv, PowerLossInv
<1>6. ASSUME NEW w \in Workers, Accept(w) PROVE IInv'
  BY <1>6, AcceptInv
<1>7. ASSUME NEW w \in Workers, Request(w) PROVE IInv'
  BY <1>7, requireInitInv, ParseRequestInv, handleInsertInv, handleInsertBatchInv,
     handlePutInv, handleDeleteInv, handlePayloadInv, handleReadInv, handleBulkBuildInv,
     bulkPayloadsInv, handleCreateIndexInv, createOpensInv, handleDeleteIndexInv,
     deleteBootstrapInv, deleteContentsInv, handleGetIndexInv
     DEF Request
<1>8. CASE UNCHANGED vars
  BY <1>8
     DEF vars, disk, ghosts, IInv, TypeOK, Quiet, Held, Locked, OneEngine, Booted, InStep,
         RestartReopens, Reopens, Answers, Keeps
<1> QED BY <1>1, <1>2, <1>3, <1>4, <1>5, <1>6, <1>7, <1>8 DEF Next

(***************************************************************************)
(* The theorems                                                            *)
(***************************************************************************)

\* The inductive invariant holds in every state of the server.
THEOREM Invariance == Spec => []IInv
<1>1. Init => IInv
  BY InitInv
<1>2. IInv /\ [Next]_vars => IInv'
  BY NextInv
<1> QED BY <1>1, <1>2, PTL DEF Spec

\* Every variable of RunHttpServer and its handlers keeps its type, and no request
\* works on an engine that has been closed under it.
THEOREM TypeCorrect == Spec => []TypeOK
<1>1. IInv => TypeOK
  BY DEF IInv
<1> QED BY <1>1, Invariance, PTL

\* An index whose PUT was answered 200 is found again by LoadHttpConfigFromEnv and
\* by AsterVecDB::Open after the process dies at any moment, whatever requests on
\* an index deleted before it are still at work, for every number of workers; and
\* after a power failure, if the bootstrap file, which writeBootstrap does not
\* fsync, had reached the disk before an earlier one.
THEOREM IndexSurvivesRestart == Spec => []RestartReopens
<1>1. IInv => RestartReopens
  BY DEF IInv
<1> QED BY <1>1, Invariance, PTL

\* What handleInsert, handleInsertBatch, handlePut, handleDelete and
\* handleBulkBuild answered 200 is what the store holds after an exit whose Close
\* succeeded.
THEOREM ShutdownKeepsWhatWasAnswered == Spec => []ShutdownKeepsAnswers
<1>1. IInv => ShutdownKeepsAnswers
  BY DEF IInv, Answers, Keeps, Live, ShutdownKeepsAnswers
<1> QED BY <1>1, Invariance, PTL

=============================================================================
