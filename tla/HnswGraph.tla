----------------------------- MODULE HnswGraph -----------------------------
(***************************************************************************)
(* insertNode of AsterVec (astervec_index.cc): how concurrent inserts grow *)
(* the search graph.  Layer 0 is kept in a graph store behind an edge      *)
(* cache, the layers above in memory in nodes_; entry_point_ and           *)
(* max_layer_ are two independent atomics.                                 *)
(*                                                                         *)
(* Distances are abstracted: a search may stop at any time and may find    *)
(* any part of what it can reach, as some vectors and some ef make it do.  *)
(* What does depend on distance is that a shrink always keeps one of the   *)
(* closest candidates; Rank orders the nodes as seen from each node.  The  *)
(* heuristic selection sorts by distance alone, so nodes may tie; of two   *)
(* that tie, the order of the list decides which is kept.                  *)
(*                                                                         *)
(* A step is one atomic operation: a critical section of nodes_mu_, of a   *)
(* node's neighbour shard or of a cache shard, one batch write of the      *)
(* graph store, one access of an atomic.  No lock is held from one step    *)
(* to the next but nodes_mu_ in shared mode, which blocks only the         *)
(* publication of nodes that nobody can reach yet.                         *)
(***************************************************************************)
EXTENDS Integers, FiniteSets

CONSTANTS
  Writers,     \* threads in insertNode
  Ids,         \* internal ids
  Levels,      \* the levels randomLevel may draw
  M,           \* m_: neighbours selected for a new node
  MMax,        \* m_max_: neighbours a node may keep
  Rank,        \* Rank[n][x]: the distance of x from n, equal if x and y tie
  None,        \* k_invalid_node_id
  MaxFailures  \* bound: storage operations that fail

ASSUME IdsAssumption == IsFiniteSet(Ids)
ASSUME LevelsAssumption ==
  Levels \subseteq Nat /\ \E l \in Levels : \A k \in Levels : k <= l
ASSUME DegreeAssumption == M \in Nat \ {0} /\ MMax \in Nat /\ M <= MMax
ASSUME RankAssumption == \A n, x \in Ids : Rank[n][x] \in Int
ASSUME NearestAssumption ==
  \A n \in Ids : \A S \in SUBSET Ids : S # {} => \E x \in S : \A y \in S : Rank[n][x] <= Rank[n][y]
ASSUME NoneAssumption == None \notin Ids
ASSUME FailuresAssumption == MaxFailures \in Nat

VARIABLES
  nodes,     \* the keys of nodes_
  upper,     \* upper[l][n]: nodes_[n].neighbors[l]
  located,   \* the ids whose vector is stored and located
  edges,     \* layer 0: the out-edges of each node in the graph store
  cached,    \* the keys of edge_cache_
  cache,     \* the list edge_cache_ holds for a cached node
  entry,     \* entry_point_
  maxLayer,  \* max_layer_
  call,      \* each writer's insertNode call
  level,     \* history: the level each node drew
  linked,    \* history: the nodes that were given a layer-0 edge
  failures   \* history: operations that failed

graph == <<nodes, upper, located, edges, cached, cache>>
top == <<entry, maxLayer>>
history == <<level, linked, failures>>
vars == <<graph, top, call, history>>

MaxLevel == CHOOSE l \in Levels : \A k \in Levels : k <= l
Upper == 1..MaxLevel
NoEdges == [n \in Ids |-> {}]

\* A writer between calls.
Idle == [pc |-> "idle"]
Busy(w) == call[w].pc # "idle"
Min(a, b) == IF a <= b THEN a ELSE b

Init ==
  /\ nodes = {}
  /\ upper = [l \in Upper |-> NoEdges]
  /\ located = {}
  /\ edges = NoEdges
  /\ cached = {} /\ cache = NoEdges
  /\ entry = None /\ maxLayer = -1
  /\ call = [w \in Writers |-> Idle]
  /\ level = [n \in Ids |-> 0]
  /\ linked = {}
  /\ failures = 0

\* Writer w goes on with its call changed to c.
Goes(w, c) == call' = [call EXCEPT ![w] = c]
Goto(w, pc) == Goes(w, [call[w] EXCEPT !.pc = pc])

-----------------------------------------------------------------------------
(* Selecting neighbours.                                                   *)

Closest(n, S) == {x \in S : \A y \in S : Rank[n][x] <= Rank[n][y]}

\* selectNeighbors from what a search found: at most M, the closest, which
\* no order of the model tells, among them.
Selections(found) == {S \in SUBSET found : S # {} /\ Cardinality(S) <= M}

\* Mutant of Keep: any MMax neighbours are kept.
KeepAny(n, list) ==
  IF Cardinality(list) <= MMax THEN {list}
  ELSE {S \in SUBSET list : S # {} /\ Cardinality(S) <= MMax}

\* selectNeighbors for a node n whose list has outgrown MMax: the first of
\* the sorted candidates is kept, the heuristic decides about the others.
Keep(n, list) ==
  IF Cardinality(list) <= MMax THEN {list}
  ELSE {S \in SUBSET list : Cardinality(S) <= MMax /\ S \cap Closest(n, list) # {}}

-----------------------------------------------------------------------------
(* The first node and the entry point.                                     *)

\* Draws the level and publishes an upper node with no neighbours.
Begin(w, i, h) ==
  /\ ~Busy(w)
  /\ i \notin located
  /\ \A v \in Writers : Busy(v) => call[v].id # i
  /\ nodes' = IF h > 0 THEN nodes \cup {i} ELSE nodes
  /\ upper' = IF h > 0 THEN [l \in Upper |-> [upper[l] EXCEPT ![i] = {}]] ELSE upper
  /\ level' = [level EXCEPT ![i] = h]
  /\ Goes(w, [pc |-> "entry", id |-> i, high |-> h, ep |-> None, low |-> 0, at |-> 0,
              found |-> {}, chosen |-> [l \in 0..MaxLevel |-> {}], todo |-> {},
              doomed |-> {}, node |-> None, list |-> {}])
  /\ UNCHANGED <<located, edges, cached, cache, top, linked, failures>>

\* entry_point_ is read: an empty graph makes this node try to be first.
ReadEntry(w) ==
  LET c == call[w] IN
  /\ c.pc = "entry"
  /\ IF entry = None THEN Goto(w, "first") ELSE Goes(w, [c EXCEPT !.pc = "top", !.ep = entry])
  /\ UNCHANGED <<graph, top, history>>

\* Mutant of StoreFirst: the entry point is published first.
CompeteBeforeStore(w) ==
  LET c == call[w] IN
  /\ c.pc = "first"
  /\ entry' = IF entry = None THEN c.id ELSE entry
  /\ Goes(w, [c EXCEPT !.pc = IF entry = None THEN "max" ELSE "top", !.ep = entry])
  /\ UNCHANGED <<graph, maxLayer, history>>

\* The speculative first node stores its vector before it competes.
StoreFirst(w) ==
  /\ call[w].pc = "first"
  /\ located' = located \cup {call[w].id}
  /\ Goto(w, "compete")
  /\ UNCHANGED <<nodes, upper, edges, cached, cache, top, history>>

\* The compare-exchange of entry_point_; the loser descends from the winner.
Compete(w) ==
  LET c == call[w] IN
  /\ c.pc = "compete"
  /\ entry' = IF entry = None THEN c.id ELSE entry
  /\ Goes(w, [c EXCEPT !.pc = IF entry = None THEN "max" ELSE "top", !.ep = entry])
  /\ UNCHANGED <<graph, maxLayer, history>>

\* The winner stores its level as max_layer_ and is done.
FirstMax(w) ==
  /\ call[w].pc = "max"
  /\ maxLayer' = call[w].high
  /\ Goes(w, Idle)
  /\ UNCHANGED <<graph, entry, history>>

-----------------------------------------------------------------------------
(* Descent and search.                                                     *)

\* max_layer_ is read, and clamped to 0 while the first node has not set it.
ReadTop(w) ==
  LET c == call[w]
      t == IF maxLayer < 0 THEN 0 ELSE maxLayer
  IN
  /\ c.pc = "top"
  /\ Goes(w, [c EXCEPT !.pc = "search", !.at = t, !.low = Min(t, c.high), !.found = {c.ep}])
  /\ UNCHANGED <<graph, top, history>>

Descending(c) == c.pc = "search" /\ c.at > c.high
Searching(c) == c.pc = "search" /\ c.at <= c.high /\ c.node = None

\* greedySearchUpperLayer moves to a closer neighbour that nodes_ holds.
Greedy(w) ==
  LET c == call[w] IN
  /\ Descending(c)
  /\ c.ep \in nodes
  /\ \E n \in upper[c.at][c.ep] \cap nodes :
       Goes(w, [c EXCEPT !.ep = n, !.found = {n}])
  /\ UNCHANGED <<graph, top, history>>

GreedyEnds(w) ==
  LET c == call[w] IN
  /\ Descending(c)
  /\ Goes(w, [c EXCEPT !.at = @ - 1])
  /\ UNCHANGED <<graph, top, history>>

\* searchLayer above layer 0 follows a neighbour of a node it has found.
VisitUpper(w) ==
  LET c == call[w] IN
  /\ Searching(c)
  /\ c.at > 0
  /\ \E m \in c.found \cap nodes : \E n \in upper[c.at][m] \ c.found :
       Goes(w, [c EXCEPT !.found = @ \cup {n}])
  /\ UNCHANGED <<graph, top, history>>

\* searchLayer ends; the next layer starts at the closest node found.  A
\* node that competed to be first has its vector stored already.
Select(w) ==
  LET c == call[w] IN
  /\ Searching(c)
  /\ \E S \in Selections(c.found) : \E e \in S :
       Goes(w, [c EXCEPT !.chosen[c.at] = S, !.ep = e, !.found = {e}, !.at = @ - 1,
                         !.pc = IF c.at > 0 THEN "search"
                                ELSE IF c.id \in located THEN "link" ELSE "store"])
  /\ UNCHANGED <<graph, top, history>>

-----------------------------------------------------------------------------
(* getEdgesCached, called by searchLayer on layer 0 and by the shrink.     *)

\* What the caller does with the list of n: the search goes on to some of
\* its located nodes, the shrink dooms the edges it does not keep.
Uses(c, n, list) ==
  LET known == list \cap located IN
  IF c.pc = "search"
  THEN {[c EXCEPT !.found = @ \cup T] : T \in SUBSET known}
  ELSE {[c EXCEPT !.todo = @ \ {n}, !.doomed = @ \cup ({n} \X (known \ S))] : S \in Keep(n, known)}

\* The nodes whose list the call may ask for next.
Wanted(c) ==
  IF c.pc = "search" THEN (IF Searching(c) /\ c.at = 0 THEN c.found ELSE {})
  ELSE IF c.pc = "shrink" /\ c.node = None THEN c.todo ELSE {}

CacheHit(w) ==
  LET c == call[w] IN
  /\ \E n \in Wanted(c) \cap cached : \E d \in Uses(c, n, cache[n]) : Goes(w, d)
  /\ UNCHANGED <<graph, top, history>>

\* A miss reads the list from the graph store ...
GetOutEdges(w) ==
  LET c == call[w] IN
  /\ \E n \in Wanted(c) \ cached : Goes(w, [c EXCEPT !.node = n, !.list = edges[n]])
  /\ UNCHANGED <<graph, top, history>>

\* ... and then caches it, whatever happened in between.
PutCached(w) ==
  LET c == call[w] IN
  /\ Busy(w)
  /\ c.node # None
  /\ cached' = cached \cup {c.node}
  /\ cache' = [cache EXCEPT ![c.node] = c.list]
  /\ \E d \in Uses(c, c.node, c.list) : Goes(w, [d EXCEPT !.node = None, !.list = {}])
  /\ UNCHANGED <<nodes, upper, located, edges, top, history>>

-----------------------------------------------------------------------------
(* Linking.                                                                *)

StoreVector(w) ==
  /\ call[w].pc = "store"
  /\ located' = located \cup {call[w].id}
  /\ Goto(w, "link")
  /\ UNCHANGED <<nodes, upper, edges, cached, cache, top, history>>

\* AddEdgeBatch of linkNeighborsAsterDB: both directions in one write.
LinkEdges(w) ==
  LET c == call[w]
      S == c.chosen[0]
  IN
  /\ c.pc = "link"
  /\ edges' = [n \in Ids |-> IF n = c.id THEN edges[n] \cup S
                             ELSE IF n \in S THEN edges[n] \cup {c.id} ELSE edges[n]]
  /\ linked' = linked \cup {c.id} \cup S
  /\ Goes(w, [c EXCEPT !.pc = "uncache", !.todo = S])
  /\ UNCHANGED <<nodes, upper, located, cached, cache, top, level, failures>>

\* The cached lists of the neighbours are erased, one after the other; the
\* upper layers follow.
Uncache(w) ==
  LET c == call[w] IN
  /\ c.pc = "uncache"
  /\ \/ \E n \in c.todo : cached' = cached \ {n} /\ Goes(w, [c EXCEPT !.todo = @ \ {n}])
     \/ /\ c.todo = {}
        /\ Goes(w, [c EXCEPT !.pc = "forward", !.at = c.low])
        /\ UNCHANGED cached
  /\ UNCHANGED <<nodes, upper, located, edges, cache, top, history>>

\* The neighbours of the new node on layer at; layer 0 has them already.
Forward(w) ==
  LET c == call[w] IN
  /\ c.pc = "forward"
  /\ c.at > 0
  /\ upper' = [upper EXCEPT ![c.at][c.id] = c.chosen[c.at]]
  /\ Goes(w, [c EXCEPT !.pc = "backward", !.todo = c.chosen[c.at]])
  /\ UNCHANGED <<nodes, located, edges, cached, cache, top, history>>

\* Mutant of Backward: the neighbour is not shrunk.
BackwardNoShrink(w) ==
  LET c == call[w] IN
  /\ c.pc = "backward"
  /\ \E n \in c.todo :
       /\ upper' = IF n \in nodes THEN [upper EXCEPT ![c.at][n] = @ \cup {c.id}] ELSE upper
       /\ Goes(w, [c EXCEPT !.todo = @ \ {n}])
  /\ UNCHANGED <<nodes, located, edges, cached, cache, top, history>>

\* A neighbour gets its edge to the new node and is shrunk; one that nodes_
\* does not hold is skipped.
Backward(w) ==
  LET c == call[w] IN
  /\ c.pc = "backward"
  /\ \E n \in c.todo :
       /\ IF n \in nodes
          THEN \E S \in Keep(n, upper[c.at][n] \cup {c.id}) : upper' = [upper EXCEPT ![c.at][n] = S]
          ELSE UNCHANGED upper
       /\ Goes(w, [c EXCEPT !.todo = @ \ {n}])
  /\ UNCHANGED <<nodes, located, edges, cached, cache, top, history>>

NextLayer(w) ==
  LET c == call[w] IN
  /\ c.pc = "backward"
  /\ c.todo = {}
  /\ Goes(w, [c EXCEPT !.pc = "forward", !.at = @ - 1])
  /\ UNCHANGED <<graph, top, history>>

\* The layer-0 lists of the neighbours are shrunk next.
BeginShrink(w) ==
  LET c == call[w] IN
  /\ c.pc = "forward"
  /\ c.at = 0
  /\ Goes(w, [c EXCEPT !.pc = "shrink", !.todo = c.chosen[0]])
  /\ UNCHANGED <<graph, top, history>>

\* DeleteEdgeBatch of all that was not kept, in one write.
DeleteEdges(w) ==
  LET c == call[w] IN
  /\ c.pc = "shrink"
  /\ c.todo = {}
  /\ edges' = [n \in Ids |-> {m \in edges[n] : <<n, m>> \notin c.doomed}]
  /\ Goes(w, [c EXCEPT !.pc = "erase", !.todo = {e[1] : e \in c.doomed} \cup {e[2] : e \in c.doomed}])
  /\ UNCHANGED <<nodes, upper, located, cached, cache, top, history>>

\* Both ends of every deleted edge leave the cache.
Erase(w) ==
  LET c == call[w] IN
  /\ c.pc = "erase"
  /\ \/ \E n \in c.todo : cached' = cached \ {n} /\ Goes(w, [c EXCEPT !.todo = @ \ {n}])
     \/ c.todo = {} /\ Goto(w, "promote") /\ UNCHANGED cached
  /\ UNCHANGED <<nodes, upper, located, edges, cache, top, history>>

-----------------------------------------------------------------------------
(* Promotion and failure.                                                  *)

\* The compare-exchange loop that raises max_layer_.
Promote(w) ==
  LET c == call[w] IN
  /\ c.pc = "promote"
  /\ IF c.high > maxLayer THEN maxLayer' = c.high /\ Goto(w, "take")
                          ELSE Goes(w, Idle) /\ UNCHANGED maxLayer
  /\ UNCHANGED <<graph, entry, history>>

\* entry_point_ is stored by the writer that raised max_layer_.
TakeEntry(w) ==
  /\ call[w].pc = "take"
  /\ entry' = call[w].id
  /\ Goes(w, Idle)
  /\ UNCHANGED <<graph, maxLayer, history>>

\* An upper list that has outgrown MMax and names a node nodes_ does not
\* hold is shrunk by reading that node's vector; when the read throws, the
\* list stays as long as the new edge made it.
Unshrunk(c) ==
  /\ c.pc = "backward"
  /\ \E n \in c.todo \cap nodes :
       LET list == upper[c.at][n] \cup {c.id} IN
       /\ Cardinality(list) > MMax /\ ~(list \subseteq nodes)
       /\ upper' = [upper EXCEPT ![c.at][n] = list]

\* The vector store throws, at a write or at a read for a search or a
\* shrink, or the graph store refuses a batch: insertNode ends at once.
Fails(w) ==
  LET c == call[w] IN
  /\ failures < MaxFailures
  /\ Busy(w) /\ c.node = None
  /\ \/ c.pc \in {"first", "search", "store", "link", "shrink"} /\ UNCHANGED upper
     \/ Unshrunk(c)
  /\ failures' = failures + 1
  /\ Goes(w, Idle)
  /\ UNCHANGED <<nodes, located, edges, cached, cache, top, level, linked>>

Insert(w) ==
  \/ \E i \in Ids, h \in Levels : Begin(w, i, h)
  \/ ReadEntry(w) \/ StoreFirst(w) \/ Compete(w) \/ FirstMax(w)
  \/ ReadTop(w) \/ Greedy(w) \/ GreedyEnds(w) \/ VisitUpper(w) \/ Select(w)
  \/ CacheHit(w) \/ GetOutEdges(w) \/ PutCached(w)
  \/ StoreVector(w) \/ LinkEdges(w) \/ Uncache(w)
  \/ Forward(w) \/ Backward(w) \/ NextLayer(w)
  \/ BeginShrink(w) \/ DeleteEdges(w) \/ Erase(w)
  \/ Promote(w) \/ TakeEntry(w) \/ Fails(w)

Next == \E w \in Writers : Insert(w)
Spec == Init /\ [][Next]_vars

-----------------------------------------------------------------------------
(* Properties.                                                             *)

TypeOK ==
  /\ nodes \subseteq Ids
  /\ upper \in [Upper -> [Ids -> SUBSET Ids]]
  /\ located \subseteq Ids
  /\ edges \in [Ids -> SUBSET Ids]
  /\ cached \subseteq Ids /\ cache \in [Ids -> SUBSET Ids]
  /\ entry \in Ids \cup {None}
  /\ maxLayer \in {-1} \cup Levels
  /\ level \in [Ids -> Levels \cup {0}]
  /\ \A w \in Writers : Busy(w) => call[w].at \in -1..MaxLevel /\ call[w].found \subseteq Ids

\* A node is located before anything leads to it: the entry point, every
\* node on a layer-0 list, stored or cached, and every upper neighbour can
\* be read by a search that comes by ("dangling_edges_skipped_ ... Non-zero
\* only after an unclean shutdown").
ReachableAreLocated ==
  /\ entry # None => entry \in located
  /\ \A n \in Ids : edges[n] \cup cache[n] \subseteq located
  /\ \A l \in Upper, n \in Ids : upper[l][n] \subseteq located

\* No two nodes are equally far from n.
Untied(n) == \A x, y \in Ids \ {n} : Rank[n][x] = Rank[n][y] => x = y

\* Concurrent shrinks, each of a list that may be stale, never strip a
\* linked node of its last layer-0 edge, where a search would be stuck: if
\* no two nodes tie as seen from it, the closest neighbour survives them all.
NeverStranded == \A n \in linked : Untied(n) => edges[n] # {}

\* No list above layer 0 outgrows m_max_, whoever links at the same time,
\* unless it names a node nodes_ does not hold and a read has failed.
UpperDegreeBounded ==
  \A l \in Upper, n \in Ids :
    failures = 0 \/ upper[l][n] \subseteq nodes => Cardinality(upper[l][n]) <= MMax

Quiet == \A w \in Writers : ~Busy(w)

-----------------------------------------------------------------------------
(* What the documents say and the code does not do.                        *)

\* Ties or none, a node that was linked once is never left without an edge.
NobodyStranded == \A n \in linked : edges[n] # {}

\* No list outgrows m_max_, whatever fails.
UpperDegreeAlwaysBounded == \A l \in Upper, n \in Ids : Cardinality(upper[l][n]) <= MMax

\* "transient (NEW, OLD) / (OLD, NEW) observations": between inserts the
\* entry point is a node of the highest layer.
EntryAtMaxLayer == Quiet /\ entry # None => level[entry] = maxLayer
=============================================================================
