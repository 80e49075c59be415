------------------------------- MODULE Search -------------------------------
(***************************************************************************)
(* Search beside the writers it does not lock out (src/src/astervec_index.cc *)
(* knnSearchK, searchLayer; src/src/astervec_db.cc searchDense).  A search *)
(* walks the graph step by step with its thread's visited stamps, drops    *)
(* tombstoned versions and translates versions to the ids of the caller;   *)
(* meanwhile an update publishes a new version, maps it, tombstones the    *)
(* old one and moves the payload row.  Neighbour lists come through the    *)
(* edge cache, which other threads fill too: they read a list and put it   *)
(* there, and a write may come between.                                    *)
(*                                                                         *)
(* Vectors are points on a line.  How an insert picks neighbours is        *)
(* HnswGraph's subject: here any non-empty set will do, and there is one   *)
(* layer above 0, whose nodes are linked there as on layer 0.              *)
(***************************************************************************)
EXTENDS Integers, FiniteSets, SequencesExt

CONSTANTS Reals,        \* ids of the caller
          UpdateIds,    \* internal ids of updated versions, ascending
          Points,       \* vectors
          Queries, NewPoints,  \* those of queries and of writes
          MaxLinks,     \* bound: neighbours of a new node
          Start,        \* the vector each version starts with, or None
          StartMap,     \* the version an updated real id starts with, or None
          StartDead,    \* the versions that start tombstoned
          StartEdges,   \* sets of layer-0 edges to start with
          StartUpper,   \* sets of upper-layer nodes to start with
          StartRows,    \* sets of versions to start with a row
          Values,       \* values of the payload field a filter looks at
          Requests,     \* what a search may ask: k, filter, max_scan_candidates
          Ef,           \* ef_search
          Hash(_, _),   \* Hash(r, c): the bits of r in a Bloom filter of capacity c
          BloomCapacity,\* initial capacity of update_bloom_
          DenseStamps, MapStamps,  \* 2^16 and 2^32: range of the visited stamps
          None,
          MaxSearches,  \* bound: searches begun
          MaxWrites,    \* bound: writes begun
          MaxLoads      \* bound: neighbour lists other threads load

ASSUME SearchAssumption == /\ Reals \cap UpdateIds = {} /\ None \notin Reals \cup UpdateIds
                           /\ {DenseStamps, MapStamps} \subseteq Nat \ {0, 1}

VARIABLES nodes,    \* versions whose vector is stored
          point,    \* the vector of each
          adj,      \* layer-0 neighbours
          upper,    \* the nodes above layer 0
          cache,    \* edge_cache_: the list it holds of each node, or None
          load,     \* another thread's getEdgesCached: node and list it read
          dead,     \* tombstoned_internal_ids_
          toInt,    \* updated_real_to_internal_
          toReal,   \* updated_internal_to_real_
          bloom,    \* update_bloom_: capacity, inserts, bits
          rows,     \* payload row of each version: a value, or None
          write,    \* the write in progress: step, real id, versions, row,
                    \* neighbours whose cached list is still to be erased
          scratch,  \* SearchScratch of the thread: versions and stamps
          search,   \* the search in progress
          seen,     \* ghost: ids visited by the search
          during,   \* ghost: real ids live at some moment of the search
          racing,   \* ghost: real ids written at some moment of the search
          owner,    \* ghost: the real id each version was made for
          overtaken,\* ghost: nodes whose list was put into the cache by a thread
                    \* that had read it before a write erased it there
          budget

graph == <<nodes, point, adj, upper>>
ids == <<dead, toInt, toReal, bloom>>
lists == <<cache, load, overtaken>>
ghosts == <<seen, during, racing>>
vars == <<graph, lists, ids, rows, write, scratch, search, ghosts, owner, budget>>

Versions == Reals \cup UpdateIds
NoFilter == [kind |-> "all"]
Spend(what) == budget[what] > 0 /\ budget' = [budget EXCEPT ![what] = @ - 1]

(***************************************************************************)
(* Id translation                                                          *)
(***************************************************************************)

\* BloomFilter: add sets every bit of the id, reset forgets them all.
add(b, r) == [b EXCEPT !.bits = @ \cup Hash(r, b.capacity), !.inserts = @ + 1]
might_contain(r) == Hash(r, bloom.capacity) \subseteq bloom.bits

\* Mutant of rebuild_bloom_to: the surviving ids are not added again.
rebuild_bloom_empty(c, mapped) == [capacity |-> c, inserts |-> 0, bits |-> {}]

rebuild_bloom_to(c, mapped) == [capacity |-> c, inserts |-> Cardinality(mapped),
                                bits |-> UNION {Hash(r, c) : r \in mapped}]

resolve_internal(r) == IF ~might_contain(r) \/ toInt[r] = None THEN r ELSE toInt[r]

\* A version without a mapping is returned as it is.
resolve_real(i) == IF i \in Reals \/ toReal[i] = None THEN i ELSE toReal[i]

is_alive(r) == LET i == resolve_internal(r) IN i \notin dead /\ i \in nodes
LiveReals == {r \in Reals : is_alive(r)}

\* The fill ratio counts add calls, also of an id that is in already.
record_update_mapping(r, i) ==
  /\ toReal' = [j \in UpdateIds |-> IF j = i THEN r ELSE IF j = toInt[r] THEN None
                                    ELSE toReal[j]]
  /\ toInt' = [toInt EXCEPT ![r] = i]
  /\ LET b == add(bloom, r) IN
     bloom' = IF 10 * b.inserts >= 7 * b.capacity
              THEN rebuild_bloom_to(2 * b.capacity, {s \in Reals : s = r \/ toInt[s] # None})
              ELSE b

forget_update_mapping(r) ==
  /\ toReal' = [j \in UpdateIds |-> IF j = toInt[r] THEN None ELSE toReal[j]]
  /\ toInt' = [toInt EXCEPT ![r] = None]
  /\ UNCHANGED bloom

(***************************************************************************)
(* Filters                                                                 *)
(***************************************************************************)

\* Predicate::matches on the one field, a number; a missing row is an empty
\* document, and contains_any and contains_all ask for an array.
RECURSIVE Matches(_, _)
Matches(p, v) ==
  CASE p.kind = "eq" -> v = p.value
    [] p.kind = "ne" -> v # p.value
    [] p.kind = "in" -> v \in p.values
    [] p.kind = "nin" -> v \notin p.values
    [] p.kind = "gt" -> v # None /\ v > p.value
    [] p.kind = "gte" -> v # None /\ v >= p.value
    [] p.kind = "lt" -> v # None /\ v < p.value
    [] p.kind = "lte" -> v # None /\ v <= p.value
    [] p.kind = "exists" -> (v # None) = p.expected
    [] p.kind = "and" -> \A c \in p.children : Matches(c, v)
    [] p.kind = "or" -> \E c \in p.children : Matches(c, v)
    [] p.kind \in {"contains_any", "contains_all"} -> FALSE
    [] p.kind = "all" -> TRUE

(***************************************************************************)
(* A write                                                                 *)
(***************************************************************************)

NoWrite == [pc |-> "idle", real |-> None, old |-> None, new |-> None, row |-> None, links |-> {}]
Created == {n \in Versions : Start[n] # None}
NoSearch == [pc |-> "idle"]
NoLoad == [node |-> None, list |-> {}, late |-> FALSE]

\* A store that has seen updates and deletes: the current versions may have
\* rows, the thread's scratch for filtered searches is new and the other is about
\* to wrap around, with stamps left by the first search of the round.
Init == /\ nodes = Created
        /\ point = Start
        /\ \E E \in StartEdges : adj = [n \in Versions |-> {m \in Versions : {m, n} \in E}]
        /\ upper \in StartUpper
        /\ cache = [n \in Versions |-> None] /\ load = NoLoad /\ overtaken = {}
        /\ dead = StartDead /\ toInt = StartMap
        /\ toReal = [i \in UpdateIds |-> IF \E r \in Reals : StartMap[r] = i
                                         THEN CHOOSE r \in Reals : StartMap[r] = i ELSE None]
        /\ bloom = rebuild_bloom_to(BloomCapacity, {r \in Reals : StartMap[r] # None})
        /\ \E S \in StartRows, v \in Values :
             rows = [n \in Versions |-> IF n \in S THEN v ELSE None]
        /\ write = NoWrite
        /\ scratch = [f \in BOOLEAN |->
             [dense |-> IF f THEN 0 ELSE DenseStamps - 1, map |-> IF f THEN 0 ELSE MapStamps - 1,
              stamp |-> [n \in Versions |-> IF n \in Created /\ ~f THEN 1 ELSE 0]]]
        /\ search = NoSearch
        /\ seen = {} /\ during = {} /\ racing = {} /\ owner = toReal
        /\ budget = [searches |-> MaxSearches, writes |-> MaxWrites, loads |-> MaxLoads]

\* What the ghosts note at every step of a write.
Note == IF search.pc = "idle" THEN UNCHANGED ghosts
        ELSE /\ during' = during \cup LiveReals'
             /\ racing' = (racing \cup {write.real, write'.real}) \ {None}
             /\ UNCHANGED seen
Writes == /\ UNCHANGED <<scratch, search>> /\ Note
          /\ owner' = [i \in UpdateIds |-> IF i = write'.new THEN write'.real ELSE owner[i]]

\* allocate_update_id: ids are handed out in ascending order.
FreeId == CHOOSE i \in UpdateIds : i \notin nodes /\ \A j \in UpdateIds : j < i => j \in nodes

\* insertDense and updateDense up to their first change of the index.
Put(r) ==
  /\ write.pc = "idle" /\ Spend("writes")
  /\ \E v \in Values \cup {None} :
       LET old == resolve_internal(r) IN
       \/ /\ is_alive(r) /\ ~ UpdateIds \subseteq nodes
          /\ write' = [pc |-> "publish", real |-> r, old |-> old, new |-> FreeId, row |-> v,
                        links |-> {}]
       \/ /\ ~is_alive(r) /\ r \in dead /\ ~ UpdateIds \subseteq nodes
          /\ write' = [pc |-> "premap", real |-> r, old |-> None, new |-> FreeId, row |-> v,
                        links |-> {}]
       \/ /\ ~is_alive(r) /\ r \notin dead
          /\ write' = [pc |-> "publish", real |-> r, old |-> None, new |-> r, row |-> v,
                        links |-> {}]
  /\ UNCHANGED <<graph, lists, ids, rows>> /\ Writes

\* A re-insert maps its version first, ...
Premap ==
  /\ write.pc = "premap"
  /\ record_update_mapping(write.real, write.new)
  /\ write' = [write EXCEPT !.pc = "publish"]
  /\ UNCHANGED <<graph, lists, dead, rows, budget>> /\ Writes

\* ... an update after insertNode has stored it and linked it both ways ...
Publish ==
  /\ write.pc = "publish"
  /\ \E p \in NewPoints, S \in SUBSET nodes :
       /\ S # {} /\ Cardinality(S) <= MaxLinks
       /\ point' = [point EXCEPT ![write.new] = p]
       /\ adj' = [n \in Versions |-> IF n = write.new THEN S
                                     ELSE IF n \in S THEN adj[n] \cup {write.new} ELSE adj[n]]
       /\ write' = [write EXCEPT !.pc = "uncache", !.links = S]
  /\ nodes' = nodes \cup {write.new}
  /\ UNCHANGED <<upper, lists, ids, rows, budget>> /\ Writes

\* Mutant of EraseCached: the lists that gained an edge stay in the cache.
KeepCached ==
  /\ write.pc = "uncache"
  /\ write' = [write EXCEPT !.links = {}, !.pc = IF write.old = None THEN "row" ELSE "map"]
  /\ UNCHANGED <<graph, lists, ids, rows, budget>> /\ Writes

\* ... and erased, one by one, the cached lists that have gained an edge.
EraseCached ==
  /\ write.pc = "uncache"
  /\ \E n \in write.links :
       /\ cache' = [cache EXCEPT ![n] = None]
       /\ load' = [load EXCEPT !.late = @ \/ load.node = n]
       /\ overtaken' = overtaken \ {n}
       /\ write' = [write EXCEPT !.links = @ \ {n},
                                 !.pc = IF write.links # {n} THEN "uncache"
                                        ELSE IF write.old = None THEN "row" ELSE "map"]
  /\ UNCHANGED <<graph, ids, rows, budget>> /\ Writes

RecordMapping ==
  /\ write.pc = "map"
  /\ record_update_mapping(write.real, write.new)
  /\ write' = [write EXCEPT !.pc = "tomb"]
  /\ UNCHANGED <<graph, lists, dead, rows, budget>> /\ Writes

TombstoneOld ==
  /\ write.pc = "tomb"
  /\ dead' = dead \cup {write.old}
  /\ write' = [write EXCEPT !.pc = "row"]
  /\ UNCHANGED <<graph, lists, toInt, toReal, bloom, rows, budget>> /\ Writes

\* The new row, or the old one carried over; then the old row goes.
PutRow ==
  /\ write.pc = "row"
  /\ rows' = [rows EXCEPT ![write.new] = IF write.row # None THEN write.row
                                         ELSE IF write.old # None THEN rows[write.old] ELSE @]
  /\ write' = IF write.old = None THEN NoWrite ELSE [write EXCEPT !.pc = "unrow"]
  /\ UNCHANGED <<graph, lists, ids, budget>> /\ Writes

DeleteRow ==
  /\ write.pc = "unrow"
  /\ rows' = [rows EXCEPT ![write.old] = None]
  /\ write' = NoWrite
  /\ UNCHANGED <<graph, lists, ids, budget>> /\ Writes

\* Mutant of Delete: the mapping goes first and the version is not tombstoned.
DeleteForgetsFirst(r) ==
  /\ write.pc = "idle" /\ Spend("writes")
  /\ resolve_internal(r) \in nodes
  /\ forget_update_mapping(r)
  /\ write' = [NoWrite EXCEPT !.pc = "delrow", !.real = r, !.old = resolve_internal(r)]
  /\ UNCHANGED <<graph, lists, dead, rows>> /\ Writes

\* deleteDense: tombstone, row, mapping.
Delete(r) ==
  /\ write.pc = "idle" /\ Spend("writes")
  /\ resolve_internal(r) \in nodes
  /\ dead' = dead \cup {resolve_internal(r)}
  /\ write' = [NoWrite EXCEPT !.pc = "delrow", !.real = r, !.old = resolve_internal(r)]
  /\ UNCHANGED <<graph, lists, toInt, toReal, bloom, rows>> /\ Writes

DeleteRest ==
  /\ \/ /\ write.pc = "delrow"
        /\ rows' = [rows EXCEPT ![write.old] = None]
        /\ write' = [write EXCEPT !.pc = "forget"]
        /\ UNCHANGED ids
     \/ /\ write.pc = "forget"
        /\ forget_update_mapping(write.real)
        /\ write' = NoWrite
        /\ UNCHANGED <<dead, rows>>
  /\ UNCHANGED <<graph, lists, budget>> /\ Writes

(***************************************************************************)
(* Visited stamps                                                          *)
(***************************************************************************)

\* Mutant of beginSearch: the stamps are kept when the version wraps.
beginSearchKeepsStamps(sc) ==
  [sc EXCEPT !.map = IF (@ + 1) % MapStamps = 0 THEN 1 ELSE @ + 1,
             !.dense = IF (@ + 1) % DenseStamps = 0 THEN 1 ELSE @ + 1]

\* Both versions advance; one that wraps to 0 clears its stamps and restarts at 1.
beginSearch(sc) ==
  LET wrapM == (sc.map + 1) % MapStamps = 0
      wrapD == (sc.dense + 1) % DenseStamps = 0 IN
  [map |-> IF wrapM THEN 1 ELSE sc.map + 1, dense |-> IF wrapD THEN 1 ELSE sc.dense + 1,
   stamp |-> [n \in Versions |-> IF IF n \in Reals THEN wrapD ELSE wrapM
                                 THEN 0 ELSE sc.stamp[n]]]

\* Direct ids are stamped in the dense array, update ids in the map.
Version(sc, n) == IF n \in Reals THEN sc.dense ELSE sc.map
Visited(sc) == {n \in Versions : sc.stamp[n] = Version(sc, n)}
visitedInsert(sc, S) == [sc EXCEPT !.stamp = [n \in Versions |-> IF n \in S THEN Version(sc, n)
                                                                 ELSE @[n]]]

(***************************************************************************)
(* A search                                                                *)
(***************************************************************************)

\* The cached list of a node, or the one in the graph, which is then cached.
getEdgesCached(n) == IF cache[n] # None THEN cache[n] ELSE adj[n]


Abs(x) == IF x < 0 THEN -x ELSE x
Dist(q, n) == Abs(q - point[n])
Nearest(q, S) == {n \in S : \A m \in S : Dist(q, n) <= Dist(q, m)}
Farthest(q, S) == {n \in S : \A m \in S : Dist(q, m) <= Dist(q, n)}
Sorted(q, S) == SetToSortSeq(S, LAMBDA m, n : \/ Dist(q, m) < Dist(q, n)
                                              \/ Dist(q, m) = Dist(q, n) /\ m < n)

Mine == scratch[search.filter # NoFilter]
Reads == UNCHANGED <<graph, ids, rows, write, owner>>
Searches == Reads /\ UNCHANGED lists
Step(s) == search' = s
\* nearest (ef) and results (k) are bounded heaps.
Cap == IF search.filter = NoFilter THEN IF Ef > search.k THEN Ef ELSE search.k ELSE search.k
Improves(n) == \/ Cardinality(search.best) < Cap
               \/ \A m \in Farthest(search.q, search.best) : Dist(search.q, n) < Dist(search.q, m)

UpperNeighbours(n) == adj[n] \cap upper

\* entry_point_ is a node of the top layer.
Begin ==
  /\ search.pc = "idle" /\ Spend("searches")
  /\ \E q \in Queries, r \in Requests, e \in upper :
       Step([pc |-> "descend", q |-> q, k |-> r.k, filter |-> r.filter,
             maxScan |-> IF r.maxScan = 0 THEN 50 * r.k ELSE r.maxScan, cur |-> e, cand |-> {}, best |-> {},
             todo |-> {}, scanned |-> 0, list |-> <<>>, out |-> <<>>])
  /\ seen' = {} /\ during' = LiveReals /\ racing' = {write.real} \ {None}
  /\ UNCHANGED scratch /\ Searches

\* Mutant of greedySearchUpperLayer: moves on to a node as near as this one.
greedySearchTies ==
  /\ search.pc = "descend"
  /\ LET near == Nearest(search.q, UpperNeighbours(search.cur)) IN
     IF \E n \in near : Dist(search.q, n) <= Dist(search.q, search.cur)
     THEN \E n \in near : Step([search EXCEPT !.cur = n])
     ELSE Step([search EXCEPT !.pc = "seed"])
  /\ UNCHANGED <<scratch, ghosts, budget>> /\ Searches

\* One pass over the neighbours of the current node, which must come strictly
\* nearer for another.
greedySearchUpperLayer ==
  /\ search.pc = "descend"
  /\ LET near == Nearest(search.q, UpperNeighbours(search.cur)) IN
     IF \E n \in near : Dist(search.q, n) < Dist(search.q, search.cur)
     THEN \E n \in near : Step([search EXCEPT !.cur = n])
     ELSE Step([search EXCEPT !.pc = "seed"])
  /\ UNCHANGED <<scratch, ghosts, budget>> /\ Searches

Seed ==
  /\ search.pc = "seed"
  /\ scratch' = [scratch EXCEPT ![search.filter # NoFilter] =
                   visitedInsert(beginSearch(@), {search.cur})]
  /\ seen' = {search.cur}
  /\ Step([search EXCEPT !.pc = "expand", !.cand = {search.cur},
                         !.best = IF Matches(search.filter, rows[search.cur])
                                  THEN {search.cur} ELSE {}])
  /\ UNCHANGED <<during, racing, budget>> /\ Searches

\* The candidate is farther than everything kept; for a filtered search only
\* once it has k results, and it also gives up at its scan cap.
Converged(c) ==
  \/ /\ search.best # {}
     /\ search.filter # NoFilter => Cardinality(search.best) >= Cap
     /\ \A m \in Farthest(search.q, search.best) : Dist(search.q, c) > Dist(search.q, m)
  \/ search.filter # NoFilter /\ search.scanned >= search.maxScan

\* getEdgesCached of the nearest candidate; its neighbours are marked.  (The
\* read and the put are one step: a search expands a node once, so it is others'
\* puts, see Store, that it can meet.)
Expand ==
  /\ search.pc = "expand"
  /\ \E c \in Nearest(search.q, search.cand) :
       /\ ~Converged(c)
       /\ cache' = [cache EXCEPT ![c] = getEdgesCached(c)]
       /\ LET new == getEdgesCached(c) \ Visited(Mine) IN
          /\ scratch' = [scratch EXCEPT ![search.filter # NoFilter] = visitedInsert(@, new)]
          /\ seen' = seen \cup new
          /\ Step([search EXCEPT !.cand = @ \ {c}, !.todo = new,
                                 !.pc = IF new = {} THEN "expand" ELSE "visit"])
  /\ UNCHANGED <<load, overtaken, during, racing, budget>> /\ Reads

\* One neighbour: it becomes a candidate if it comes nearer than the worst
\* kept, filter or not; it is kept if it also passes the filter.
Visit ==
  /\ search.pc = "visit"
  /\ \E n \in search.todo : \E drop \in Farthest(search.q, search.best \cup {n}) :
       LET keep == Improves(n) /\ Matches(search.filter, rows[n])
           more == search.best \cup {n} IN
       Step([search EXCEPT !.todo = @ \ {n}, !.scanned = @ + 1,
                           !.pc = IF search.todo = {n} THEN "expand" ELSE "visit",
                           !.cand = IF Improves(n) THEN @ \cup {n} ELSE @,
                           !.best = IF ~keep THEN @
                                    ELSE IF Cardinality(more) > Cap THEN more \ {drop} ELSE more])
  /\ UNCHANGED <<scratch, ghosts, budget>> /\ Searches

\* Sort; an unfiltered search drops tombstones and cuts at k here already.
Finish ==
  /\ search.pc = "expand"
  /\ search.cand = {} \/ \E c \in Nearest(search.q, search.cand) : Converged(c)
  /\ LET kept == IF search.filter = NoFilter THEN search.best \ dead ELSE search.best
         all == Sorted(search.q, kept) IN
     Step([search EXCEPT !.pc = "check",
                         !.list = SubSeq(all, 1, IF Len(all) < search.k THEN Len(all) ELSE search.k)])
  /\ UNCHANGED <<scratch, ghosts, budget>> /\ Searches

\* searchDense: hit by hit, tombstoned versions are skipped ...
CheckHit ==
  /\ search.pc = "check" /\ search.list # <<>>
  /\ Step(IF Head(search.list) \in dead THEN [search EXCEPT !.list = Tail(@)]
          ELSE [search EXCEPT !.pc = "resolve"])
  /\ UNCHANGED <<scratch, ghosts, budget>> /\ Searches

\* ... and the others translated.
ResolveHit ==
  /\ search.pc = "resolve"
  /\ LET n == Head(search.list) IN
     Step([search EXCEPT !.pc = "check", !.list = Tail(@),
                         !.out = Append(@, [id |-> resolve_real(n), at |-> point[n]])])
  /\ UNCHANGED <<scratch, ghosts, budget>> /\ Searches

Done == search.pc = "check" /\ search.list = <<>>
Return ==
  /\ Done
  /\ Step(NoSearch)
  /\ seen' = {} /\ during' = {} /\ racing' = {}
  /\ UNCHANGED <<scratch, budget>> /\ Searches

\* Another search, or an insert looking for neighbours, misses a list in the
\* cache and reads it in the graph ...  (Bound: before this search begins and
\* beside a write: one that meets no write puts the list of the graph there.)
Load ==
  /\ load = NoLoad /\ search.pc = "idle" /\ write.pc # "idle" /\ Spend("loads")
  /\ \E n \in nodes : cache[n] = None /\ load' = [NoLoad EXCEPT !.node = n, !.list = adj[n]]
  /\ UNCHANGED <<cache, overtaken, scratch, search, ghosts>> /\ Reads

\* ... and puts it there, whatever happened in between.
Store ==
  /\ load # NoLoad
  /\ cache' = [cache EXCEPT ![load.node] = load.list]
  /\ overtaken' = IF load.late THEN overtaken \cup {load.node} ELSE overtaken \ {load.node}
  /\ load' = NoLoad
  /\ UNCHANGED <<scratch, search, ghosts, budget>> /\ Reads

Writer == \/ \E r \in Reals : Put(r) \/ Delete(r)
          \/ Premap \/ Publish \/ EraseCached \/ RecordMapping \/ TombstoneOld \/ PutRow \/ DeleteRow
          \/ DeleteRest
Walk == \/ greedySearchUpperLayer \/ Seed \/ Expand \/ Visit \/ Finish \/ CheckHit
        \/ ResolveHit \/ Return
Searcher == Begin \/ Walk

Next == Writer \/ Searcher \/ Load \/ Store

Spec == Init /\ [][Next]_vars

\* A thread that searches keeps running.
FairSpec == Spec /\ WF_search(Walk)

(***************************************************************************)
(* Properties                                                              *)
(***************************************************************************)

\* Every variable keeps its type, and edges lead to stored vectors only.
TypeOK ==
  /\ nodes \subseteq Versions /\ upper \subseteq nodes /\ dead \subseteq nodes
  /\ \A n \in Versions : /\ point[n] \in Points \cup {None} /\ (point[n] # None) = (n \in nodes)
                         /\ adj[n] \subseteq nodes
  /\ toInt \in [Reals -> UpdateIds \cup {None}] /\ toReal \in [UpdateIds -> Reals \cup {None}]
  /\ rows \in [Versions -> Values \cup {None}]
  /\ \A f \in BOOLEAN : /\ scratch[f].dense \in 0..(DenseStamps - 1)
                        /\ scratch[f].map \in 0..(MapStamps - 1)
  /\ seen \subseteq nodes /\ during \subseteq Reals /\ racing \subseteq Reals

\* The Bloom filter in front of the version map hides no mapping, also after
\* it was rebuilt or its bits outlived a forgotten id; and the two directions
\* of the map are inverse to each other.
VersionMapSound ==
  /\ \A r \in Reals : toInt[r] # None => resolve_internal(r) = toInt[r]
  /\ \A r \in Reals, i \in UpdateIds : toReal[i] = r <=> toInt[r] = i

\* The stamps tell exactly the ids this search has visited, also in the search
\* after a version counter wrapped around: none is skipped or visited twice.
VisitedExact == search.pc \in {"expand", "visit"} => Visited(Mine) = seen

OutIds == {search.out[i].id : i \in 1..Len(search.out)}
Live == nodes \ dead
Matching == {n \in nodes : Matches(search.filter, rows[n])}
Prefix(q, S) == LET all == Sorted(q, S) IN SubSeq(all, 1, IF Len(all) < search.k THEN Len(all) ELSE search.k)
Hits(list) == [i \in 1..Len(list) |-> [id |-> resolve_real(list[i]), at |-> point[list[i]]]]

SearchExact ==
  /\ OutIds \subseteq LiveReals /\ Cardinality(OutIds) = Len(search.out)
  /\ \A i \in 1..(Len(search.out) - 1) :
       Abs(search.q - search.out[i].at) <= Abs(search.q - search.out[i + 1].at)
  /\ search.filter = NoFilter /\ Cap >= Cardinality(nodes) =>
       search.out = Hits(Prefix(search.q, Live))
  /\ search.filter # NoFilter /\ search.k >= Cardinality(Matching)
       /\ search.scanned < search.maxScan =>
       search.out = Hits(Sorted(search.q, Live \cap Matching))

\* A search no write overlaps returns live points, each once, nearest first.
\* Where its heap holds all of the graph (or its filter lets through no more
\* than k versions and the scan cap is not reached) these are exactly the k
\* nearest of all live points that match: what the writes before it linked, and
\* only that.  (But for a list that some thread had read before a write erased it
\* from the cache, and put there after.)
QuietSearchExact == Done /\ racing = {} /\ overtaken = {} => SearchExact

Owner(id) == IF id \in Reals THEN id ELSE owner[id]

\* A search that does race with writes returns versions of ids that were live
\* at some moment of it, and returns an id twice, or the internal id of a
\* version, only if that id was being written.
RacingHitsExplained ==
  Done => \A i \in 1..Len(search.out) : LET r == Owner(search.out[i].id) IN
            /\ r \in during
            /\ search.out[i].id \notin Reals => r \in racing
            /\ (\E j \in 1..Len(search.out) : j # i /\ Owner(search.out[j].id) = r) => r \in racing

\* Every search returns, whatever the writers do to the graph meanwhile.
SearchReturns == search.pc # "idle" ~> search.pc = "idle"

\* The same without the exception: a search that starts after every write has
\* returned finds what they linked.
LaterSearchExact == Done /\ racing = {} => SearchExact

\* "only matching nodes enter results", and k of them: a filtered search finds
\* all live matches if there are no more than k.
FilteredSearchExact ==
  Done /\ racing = {} /\ overtaken = {} /\ search.filter # NoFilter
    /\ search.scanned < search.maxScan /\ search.k >= Cardinality(Live \cap Matching) =>
       search.out = Hits(Sorted(search.q, Live \cap Matching))

\* "defensive; should not happen": every version a search returns has its
\* mapping.
HitsHaveMappings == Done => OutIds \subseteq Reals
=============================================================================
