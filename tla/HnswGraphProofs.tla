-------------------------- MODULE HnswGraphProofs --------------------------
(***************************************************************************)
(* Proofs about insertNode, for any number of writers and nodes, any       *)
(* levels, degrees and distances, and any number of failures.              *)
(*                                                                         *)
(* The argument: the public nodes, those located and past their linking,   *)
(* only grow, and whatever leads anywhere (the entry point, edges, cached  *)
(* and stale lists, what a search found) leads to public nodes only.  A    *)
(* node that is about to be linked is not public, so no list, however      *)
(* stale, holds it: among the edges of a linked node that sees no ties     *)
(* there is always one, its anchor, that is closer than all others on any  *)
(* list of that node, and which no shrink therefore dooms.  The lists of   *)
(* the upper layers are a matter of their own: an invariant over this one. *)
(***************************************************************************)
EXTENDS HnswGraph, FiniteSetTheorems, TLAPS

\* The places of insertNode before the new node gets its first edge, or
\* becomes the first entry point, and those from there on.
Before == {"entry", "first", "compete", "top", "search", "store", "link"}
After == {"max", "uncache", "forward", "backward", "shrink", "erase", "promote", "take"}

Layers == {k \in Int : k <= MaxLevel}

\* What a writer carries through insertNode.
Call == [pc : Before \cup After, id : Ids, high : Levels, ep : Ids \cup {None}, low : Layers, at : Layers,
         found : SUBSET Ids, chosen : [0..MaxLevel -> SUBSET Ids], todo : SUBSET Ids,
         doomed : SUBSET (Ids \X Ids), node : Ids \cup {None}, list : SUBSET Ids]

Joining == {call[w].id : w \in {v \in Writers : call[v].pc \in Before}}
Public == located \ Joining

Types ==
  /\ call \in [Writers -> {Idle} \cup Call]
  /\ located \subseteq Ids
  /\ edges \in [Ids -> SUBSET Ids]
  /\ cache \in [Ids -> SUBSET Ids]
  /\ upper \in [Upper -> [Ids -> SUBSET Ids]]
  /\ maxLayer \in -1..MaxLevel
  /\ linked \subseteq Ids

OneCallPerId == \A v, w \in Writers : v # w /\ Busy(v) /\ Busy(w) => call[v].id # call[w].id

\* What a call knows it learnt from public nodes, of which it keeps few.
CallSound(c, public) ==
  c.pc # "idle" =>
    /\ c.found \cup c.list \subseteq public
    /\ c.ep \in public \cup {None}
    /\ c.pc \in {"top", "search"} => c.ep # None
    /\ c.pc = "search" => c.at \in 0..MaxLevel
    /\ \A l \in 0..MaxLevel : c.chosen[l] \subseteq public /\ Cardinality(c.chosen[l]) <= MMax
    /\ c.pc \in {"store", "link"} => c.chosen[0] # {}
    /\ c.doomed \subseteq public \X public
IdLocated(c, loc) == c.pc \notin {"idle", "entry", "first", "top", "search", "store"} => c.id \in loc
CallsSound == \A w \in Writers : CallSound(call[w], Public) /\ IdLocated(call[w], located)

ReachableArePublic ==
  /\ entry \in Public \cup {None}
  /\ linked \subseteq Public
  /\ \A n \in Ids : edges[n] \cup cache[n] \subseteq Public
  /\ \A l \in Upper, n \in Ids : upper[l][n] \subseteq Public

\* No list of a node that is not linked holds anything.
Ignores(c, n) == c.pc # "idle" => (c.node = n => c.list = {}) /\ \A x \in Ids : <<n, x>> \notin c.doomed
UnlinkedAreBare ==
  \A n \in Ids \ linked :
    edges[n] = {} /\ cache[n] = {} /\ \A w \in Writers : Ignores(call[w], n)

\* A list of other nodes than n, none of them closer to n than x.
Nearest(n, x, list) == n \notin list /\ \A y \in list : Rank[n][x] <= Rank[n][y]

\* x is the closest of all that n links to or any list says it links to.
Spares(c, n, x) ==
  c.pc # "idle" =>
    /\ c.node = n => Nearest(n, x, c.list)
    /\ <<n, x>> \notin c.doomed
Anchor(n, x) ==
  /\ Untied(n)
  /\ x \in edges[n]
  /\ Nearest(n, x, edges[n]) /\ Nearest(n, x, cache[n])
  /\ \A w \in Writers : Spares(call[w], n, x)
Anchored == \A n \in linked : Untied(n) => \E x \in Ids : Anchor(n, x)

GraphInv ==
  /\ Types /\ OneCallPerId /\ CallsSound /\ ReachableArePublic
  /\ UnlinkedAreBare /\ Anchored

-----------------------------------------------------------------------------
(* What every step of a call under way has in common.                      *)

\* Writer w goes on with d, perhaps after storing a vector, or begins with it.
Advances(w, d) ==
  /\ Goes(w, d)
  /\ \/ /\ Busy(w)
        /\ d = Idle \/ (d \in Call /\ d.id = call[w].id /\ (d.pc \in Before => call[w].pc \in Before))
     \/ /\ ~Busy(w)
        /\ d \in Call /\ d.id \notin located
        /\ \A v \in Writers : Busy(v) => call[v].id # d.id
  /\ located \subseteq located' /\ located' \subseteq Ids

UpperSound ==
  /\ upper \in [Upper -> [Ids -> SUBSET Ids]]
  /\ \A l \in Upper, n \in Ids : upper[l][n] \subseteq Public

LEMMA LevelFacts == MaxLevel \in Levels /\ MaxLevel \in Nat /\ \A k \in Levels : k \in Nat /\ k <= MaxLevel
BY LevelsAssumption DEF MaxLevel

LEMMA HighFacts ==
  ASSUME NEW c \in Call
  PROVE  c.high \in 0..MaxLevel /\ c.high \in -1..MaxLevel
<1>1. c.high \in Levels
  BY DEF Call
<1>2. c.high \in Nat /\ c.high <= MaxLevel /\ MaxLevel \in Nat
  BY <1>1, LevelFacts
<1> QED
  BY <1>2

LEMMA SmallSets == \A S \in SUBSET Ids : Cardinality(S) \in Nat
BY IdsAssumption, FS_Subset, FS_CardinalityType

LEMMA CallShape ==
  ASSUME Types, NEW w \in Writers, Busy(w)
  PROVE  call[w] \in Call
BY DEF Types, Busy, Idle

\* A call that knows public nodes goes on knowing public nodes.
LEMMA SoundGrows ==
  ASSUME NEW c, NEW P, NEW Q, P \subseteq Q, CallSound(c, P)
  PROVE  CallSound(c, Q)
BY DEF CallSound

\* One upper list is written, with public nodes.
LEMMA UpperWrite ==
  ASSUME UpperSound, Public \subseteq Public', Public \subseteq Ids,
         NEW l, NEW n \in Ids, NEW S, l \in Upper => S \in SUBSET Public,
         upper' = [upper EXCEPT ![l][n] = S]
  PROVE  UpperSound'
<1>1. CASE l \notin Upper
  <2>1. upper' = upper
    BY <1>1 DEF UpperSound
  <2> QED
    BY <2>1 DEF UpperSound
<1>2. CASE l \in Upper
  <2>1. S \in SUBSET Public /\ S \in SUBSET Ids
    BY <1>2
  <2>2. /\ upper' \in [Upper -> [Ids -> SUBSET Ids]]
        /\ \A k \in Upper, m \in Ids : upper'[k][m] = S \/ upper'[k][m] = upper[k][m]
    BY <2>1 DEF UpperSound
  <2> QED
    BY <2>1, <2>2 DEF UpperSound
<1> QED
  BY <1>1, <1>2

LEMMA AdvancesFrame ==
  ASSUME GraphInv, NEW w \in Writers, NEW d, Advances(w, d)
  PROVE  /\ call' \in [Writers -> {Idle} \cup Call]
         /\ call'[w] = d /\ \A v \in Writers \ {w} : call'[v] = call[v]
         /\ Public \subseteq Public'
         /\ OneCallPerId'
<1>1. call \in [Writers -> {Idle} \cup Call] /\ OneCallPerId
  BY DEF GraphInv, Types
<1>2. d \in {Idle} \cup Call
  BY DEF Advances
<1>3. /\ call' \in [Writers -> {Idle} \cup Call]
      /\ call'[w] = d /\ \A v \in Writers \ {w} : call'[v] = call[v]
  BY <1>1, <1>2 DEF Advances, Goes
<1>4. CASE Busy(w)
  <2>1. d.pc # "idle" => d.id = call[w].id /\ (d.pc \in Before => call[w].pc \in Before)
    BY <1>4 DEF Advances, Idle
  <2>2. Joining' \subseteq Joining
    <3> SUFFICES ASSUME NEW v \in Writers, call'[v].pc \in Before
                 PROVE  call'[v].id \in Joining
      BY DEF Joining
    <3>1. CASE v = w
      <4>1. d.pc \in Before /\ d.pc # "idle"
        BY <1>3, <3>1 DEF Before
      <4> QED
        BY <1>3, <2>1, <3>1, <4>1 DEF Joining
    <3>2. CASE v # w
      BY <1>3, <3>2 DEF Joining
    <3> QED
      BY <3>1, <3>2
  <2>3. Public \subseteq Public'
    BY <2>2 DEF Public, Advances
  <2>4. OneCallPerId'
    <3> SUFFICES ASSUME NEW u \in Writers, NEW v \in Writers, u # v, Busy(u)', Busy(v)'
                 PROVE  call'[u].id # call'[v].id
      BY DEF OneCallPerId
    <3>1. Busy(u) /\ Busy(v) /\ call'[u].id = call[u].id /\ call'[v].id = call[v].id
      BY <1>3, <1>4, <2>1 DEF Busy
    <3> QED
      BY <1>1, <3>1 DEF OneCallPerId
  <2> QED
    BY <1>3, <2>3, <2>4
<1>5. CASE ~Busy(w)
  <2>1. d.id \notin located /\ \A v \in Writers : Busy(v) => call[v].id # d.id
    BY <1>5 DEF Advances
  <2>2. Joining' \subseteq Joining \cup {d.id}
    BY <1>3 DEF Joining
  <2>3. Public \subseteq Public'
    BY <2>1, <2>2 DEF Public, Advances
  <2>4. OneCallPerId'
    BY <1>1, <1>3, <2>1 DEF OneCallPerId, Busy
  <2> QED
    BY <1>3, <2>3, <2>4
<1> QED
  BY <1>4, <1>5

LEMMA AdvancesCalls ==
  ASSUME GraphInv, NEW w \in Writers, NEW d, Advances(w, d),
         CallSound(d, Public'), IdLocated(d, located')
  PROVE  CallsSound'
<1> SUFFICES ASSUME NEW v \in Writers
             PROVE  CallSound(call'[v], Public') /\ IdLocated(call'[v], located')
  BY DEF CallsSound
<1>1. CASE v = w
  BY <1>1, AdvancesFrame
<1>2. CASE v # w
  <2>1. call'[v] = call[v] /\ Public \subseteq Public' /\ located \subseteq located'
    BY <1>2, AdvancesFrame DEF Advances
  <2>2. CallSound(call[v], Public) /\ IdLocated(call[v], located)
    BY DEF GraphInv, CallsSound
  <2>3. CallSound(call[v], Public')
    BY <2>1, <2>2, SoundGrows
  <2> QED
    BY <2>1, <2>2, <2>3 DEF IdLocated
<1> QED
  BY <1>1, <1>2

\* A step that leaves the edges of layer 0 alone.
LEMMA CacheStep ==
  ASSUME GraphInv, NEW w \in Writers, NEW d, Advances(w, d),
         CallSound(d, Public'), IdLocated(d, located'),
         UNCHANGED <<edges, linked>>, maxLayer' \in -1..MaxLevel,
         entry' \in Public' \cup {None}, UpperSound',
         cache' \in [Ids -> SUBSET Ids], \A n \in Ids : cache'[n] \subseteq Public',
         \A n \in Ids \ linked : cache'[n] = {} /\ Ignores(d, n),
         \A n \in linked, x \in Ids : Anchor(n, x) => Spares(d, n, x) /\ Nearest(n, x, cache'[n])
  PROVE  GraphInv'
<1>1. /\ call' \in [Writers -> {Idle} \cup Call]
      /\ call'[w] = d /\ \A v \in Writers \ {w} : call'[v] = call[v]
      /\ Public \subseteq Public' /\ OneCallPerId'
  BY AdvancesFrame
<1>2. CallsSound'
  BY AdvancesCalls
<1>3. Types'
  BY <1>1 DEF GraphInv, Types, UpperSound, Advances
<1>4. ReachableArePublic'
  BY <1>1 DEF GraphInv, ReachableArePublic, UpperSound
<1>5. UnlinkedAreBare'
  BY <1>1 DEF GraphInv, UnlinkedAreBare
<1>6. Anchored'
  <2> SUFFICES ASSUME NEW n \in linked, Untied(n) PROVE \E x \in Ids : Anchor(n, x)'
    BY DEF Anchored, Untied
  <2>1. PICK x \in Ids : Anchor(n, x)
    BY DEF GraphInv, Anchored
  <2>2. \A v \in Writers : Spares(call'[v], n, x)
    BY <1>1, <2>1 DEF Anchor
  <2> QED
    BY <2>1, <2>2 DEF Anchor
<1> QED
  BY <1>1, <1>2, <1>3, <1>4, <1>5, <1>6 DEF GraphInv

\* ... and the cached lists too ...
LEMMA QuietStep ==
  ASSUME GraphInv, NEW w \in Writers, NEW d, Advances(w, d),
         CallSound(d, Public'), IdLocated(d, located'),
         UNCHANGED <<edges, cache, linked>>, maxLayer' \in -1..MaxLevel,
         entry' \in Public' \cup {None}, UpperSound',
         \A n \in Ids \ linked : Ignores(d, n),
         \A n \in linked, x \in Ids : Anchor(n, x) => Spares(d, n, x)
  PROVE  GraphInv'
<1>1. cache' \in [Ids -> SUBSET Ids] /\ \A n \in Ids : cache'[n] \subseteq Public'
  BY AdvancesFrame DEF GraphInv, Types, ReachableArePublic
<1>2. \A n \in Ids \ linked : cache'[n] = {}
  BY DEF GraphInv, UnlinkedAreBare
<1>3. \A n \in linked, x \in Ids : Anchor(n, x) => Nearest(n, x, cache'[n])
  BY DEF Anchor
<1> QED
  BY <1>1, <1>2, <1>3, CacheStep

\* ... and the lists the call has read and doomed too.
Carries(c, d) == d = Idle \/ (d.node = c.node /\ d.list = c.list /\ d.doomed = c.doomed)

LEMMA PlainStep ==
  ASSUME GraphInv, NEW w \in Writers, NEW d, Busy(w), Advances(w, d), Carries(call[w], d),
         CallSound(d, Public'), IdLocated(d, located'),
         UNCHANGED <<edges, cache, linked, upper>>, maxLayer' \in -1..MaxLevel,
         entry' \in Public' \cup {None}
  PROVE  GraphInv'
<1>1. UpperSound'
  BY AdvancesFrame DEF UpperSound, GraphInv, Types, ReachableArePublic
<1>2. ASSUME NEW n \in Ids \ linked PROVE Ignores(d, n)
  BY DEF GraphInv, UnlinkedAreBare, Carries, Ignores, Busy, Idle
<1>3. ASSUME NEW n \in linked, NEW x \in Ids, Anchor(n, x) PROVE Spares(d, n, x)
  BY <1>3 DEF Anchor, Carries, Spares, Busy, Idle
<1> QED
  BY <1>1, <1>2, <1>3, QuietStep

\* A step that changes nothing but the writer's own call.
LEMMA LocalStep ==
  ASSUME GraphInv, NEW w \in Writers, NEW d, Busy(w), Goes(w, d), d \in Call,
         d.id = call[w].id, d.pc \in Before => call[w].pc \in Before,
         Carries(call[w], d), CallSound(d, Public), IdLocated(d, located),
         UNCHANGED <<located, edges, cache, linked, upper, entry, maxLayer>>
  PROVE  GraphInv'
<1>1. Advances(w, d)
  BY DEF Advances, GraphInv, Types
<1>2. Public \subseteq Public'
  BY <1>1, AdvancesFrame
<1>3. CallSound(d, Public')
  BY <1>2, SoundGrows
<1>4. entry' \in Public' \cup {None} /\ maxLayer' \in -1..MaxLevel
  BY <1>2 DEF GraphInv, Types, ReachableArePublic
<1> QED
  BY <1>1, <1>3, <1>4, PlainStep DEF IdLocated

\* A call ends, whatever it has done so far.
LEMMA LastStep ==
  ASSUME GraphInv, NEW w \in Writers, Busy(w), Goes(w, Idle), maxLayer' \in -1..MaxLevel,
         entry' \in Public \cup {None},
         UNCHANGED <<located, edges, cache, linked, upper>>
  PROVE  GraphInv'
<1>1. Advances(w, Idle)
  BY DEF Advances, GraphInv, Types
<1>2. Public \subseteq Public'
  BY <1>1, AdvancesFrame
<1>3. CallSound(Idle, Public') /\ IdLocated(Idle, located') /\ Carries(call[w], Idle)
  BY DEF CallSound, IdLocated, Idle, Carries
<1> QED
  BY <1>1, <1>2, <1>3, PlainStep

\* Past its linking a new node is public.
LEMMA PastIsPublic ==
  ASSUME GraphInv, NEW w \in Writers, Busy(w), call[w].pc \notin Before
  PROVE  call[w].id \in Public
<1>1. call[w].id \in located
  BY DEF GraphInv, CallsSound, IdLocated, Busy, Before
<1>2. ASSUME NEW v \in Writers, call[v].pc \in Before PROVE call[v].id # call[w].id
  <2>1. Busy(v) /\ v # w
    BY <1>2 DEF Busy, Before
  <2> QED
    BY <2>1 DEF GraphInv, OneCallPerId
<1> QED
  BY <1>1, <1>2 DEF Public, Joining

LEMMA InvReadEntry ==
  ASSUME GraphInv, NEW w \in Writers, ReadEntry(w)
  PROVE  GraphInv'
<1> DEFINE c == call[w]
<1>1. Busy(w) /\ c.pc = "entry" /\ UNCHANGED <<located, edges, cache, linked, upper, entry, maxLayer>>
  BY DEF ReadEntry, Busy, graph, top, history
<1>2. c \in Call /\ CallSound(c, Public) /\ entry \in Public \cup {None} /\ Public \subseteq Ids
  BY <1>1, CallShape DEF GraphInv, CallsSound, ReachableArePublic, Public, Types
<1>3. CASE entry = None
  <2> DEFINE d == [c EXCEPT !.pc = "first"]
  <2>1. Goes(w, d)
    BY <1>3 DEF ReadEntry, Goto
  <2>2. /\ d \in Call /\ d.id = c.id /\ d.pc = "first" /\ Carries(c, d) /\ d.ep = c.ep
        /\ d.list = c.list /\ d.doomed = c.doomed /\ d.found = c.found /\ d.chosen = c.chosen
    BY <1>2 DEF Call, Carries, Before
  <2> HIDE DEF d
  <2>3. CallSound(d, Public) /\ IdLocated(d, located)
    BY <1>1, <1>2, <2>2 DEF CallSound, IdLocated
  <2> QED
    BY <1>1, <2>1, <2>2, <2>3, LocalStep DEF Before
<1>4. CASE entry # None
  <2> DEFINE d == [c EXCEPT !.pc = "top", !.ep = entry]
  <2>1. Goes(w, d)
    BY <1>4 DEF ReadEntry
  <2>2. /\ d \in Call /\ d.id = c.id /\ d.pc = "top" /\ Carries(c, d) /\ d.ep = entry
        /\ d.list = c.list /\ d.doomed = c.doomed /\ d.found = c.found /\ d.chosen = c.chosen
    BY <1>2 DEF Call, Carries, Before
  <2> HIDE DEF d
  <2>3. CallSound(d, Public) /\ IdLocated(d, located)
    BY <1>1, <1>2, <1>4, <2>2 DEF CallSound, IdLocated
  <2> QED
    BY <1>1, <2>1, <2>2, <2>3, LocalStep DEF Before
<1> QED
  BY <1>3, <1>4

LEMMA InvReadTop ==
  ASSUME GraphInv, NEW w \in Writers, ReadTop(w)
  PROVE  GraphInv'
<1> DEFINE c == call[w]
           t == IF maxLayer < 0 THEN 0 ELSE maxLayer
           d == [c EXCEPT !.pc = "search", !.at = t, !.low = Min(t, c.high), !.found = {c.ep}]
<1>1. /\ Busy(w) /\ c.pc = "top" /\ Goes(w, d)
      /\ UNCHANGED <<located, edges, cache, linked, upper, entry, maxLayer>>
  BY DEF ReadTop, Busy, graph, top, history
<1>2. c \in Call /\ CallSound(c, Public) /\ Public \subseteq Ids
  BY <1>1, CallShape DEF GraphInv, CallsSound, Public, Types
<1>3. t \in 0..MaxLevel /\ t \in Layers /\ Min(t, c.high) \in Layers /\ c.ep \in Public /\ c.ep # None
  <2>1. t \in 0..MaxLevel /\ c.high \in -1..MaxLevel
    BY <1>2, LevelFacts, HighFacts DEF GraphInv, Types
  <2>2. c.ep \in Public /\ c.ep # None
    BY <1>1, <1>2 DEF CallSound
  <2> QED
    BY <2>1, <2>2, LevelFacts DEF Min, Layers
<1> HIDE DEF t
<1>4. /\ d \in Call /\ d.id = c.id /\ d.pc = "search" /\ Carries(c, d) /\ d.ep = c.ep /\ d.at = t
      /\ d.list = c.list /\ d.doomed = c.doomed /\ d.found = {c.ep} /\ d.chosen = c.chosen
  BY <1>2, <1>3 DEF Call, Carries, Before
<1> HIDE DEF d
<1>5. CallSound(d, Public) /\ IdLocated(d, located)
  BY <1>1, <1>2, <1>3, <1>4 DEF CallSound, IdLocated
<1> QED
  BY <1>1, <1>4, <1>5, LocalStep DEF Before

LEMMA InvGreedy ==
  ASSUME GraphInv, NEW w \in Writers, Greedy(w)
  PROVE  GraphInv'
<1> DEFINE c == call[w]
<1>1. /\ Busy(w) /\ c.pc = "search"
      /\ UNCHANGED <<located, edges, cache, linked, upper, entry, maxLayer>>
  BY DEF Greedy, Descending, Busy, graph, top, history
<1>2. c \in Call /\ CallSound(c, Public) /\ Public \subseteq Ids
  BY <1>1, CallShape DEF GraphInv, CallsSound, Public, Types
<1>3. PICK n \in upper[c.at][c.ep] \cap nodes :
        c.ep \in nodes /\ c.at > c.high /\ Goes(w, [c EXCEPT !.ep = n, !.found = {n}])
  BY DEF Greedy, Descending
<1> DEFINE d == [c EXCEPT !.ep = n, !.found = {n}]
<1>4. n \in Public /\ n # None
  <2>1. c.at \in Upper /\ c.ep \in Ids
    BY <1>1, <1>2, <1>3, LevelFacts DEF Upper, CallSound, Call
  <2> QED
    BY <1>2, <1>3, <2>1, NoneAssumption DEF GraphInv, ReachableArePublic
<1>5. /\ d \in Call /\ d.id = c.id /\ d.pc = "search" /\ Carries(c, d) /\ d.ep = n /\ d.at = c.at
      /\ d.list = c.list /\ d.doomed = c.doomed /\ d.found = {n} /\ d.chosen = c.chosen
  BY <1>1, <1>2, <1>4 DEF Call, Carries
<1> HIDE DEF d
<1>6. CallSound(d, Public) /\ IdLocated(d, located)
  BY <1>1, <1>2, <1>4, <1>5 DEF CallSound, IdLocated
<1> QED
  BY <1>1, <1>3, <1>5, <1>6, LocalStep DEF d

LEMMA InvGreedyEnds ==
  ASSUME GraphInv, NEW w \in Writers, GreedyEnds(w)
  PROVE  GraphInv'
<1> DEFINE c == call[w]
           d == [c EXCEPT !.at = @ - 1]
<1>1. /\ Busy(w) /\ c.pc = "search" /\ c.at > c.high /\ Goes(w, d)
      /\ UNCHANGED <<located, edges, cache, linked, upper, entry, maxLayer>>
  BY DEF GreedyEnds, Descending, Busy, graph, top, history
<1>2. c \in Call /\ CallSound(c, Public)
  BY <1>1, CallShape DEF GraphInv, CallsSound
<1>3. c.at \in 0..MaxLevel /\ c.at - 1 \in 0..MaxLevel /\ c.at - 1 \in Layers
  BY <1>1, <1>2, LevelFacts, HighFacts DEF CallSound, Layers
<1>4. /\ d \in Call /\ d.id = c.id /\ d.pc = "search" /\ Carries(c, d) /\ d.ep = c.ep /\ d.at = c.at - 1
      /\ d.list = c.list /\ d.doomed = c.doomed /\ d.found = c.found /\ d.chosen = c.chosen
  BY <1>1, <1>2, <1>3 DEF Call, Carries
<1> HIDE DEF d
<1>5. CallSound(d, Public) /\ IdLocated(d, located)
  BY <1>1, <1>2, <1>3, <1>4 DEF CallSound, IdLocated
<1> QED
  BY <1>1, <1>4, <1>5, LocalStep

LEMMA InvVisitUpper ==
  ASSUME GraphInv, NEW w \in Writers, VisitUpper(w)
  PROVE  GraphInv'
<1> DEFINE c == call[w]
<1>1. /\ Busy(w) /\ c.pc = "search" /\ c.at > 0
      /\ UNCHANGED <<located, edges, cache, linked, upper, entry, maxLayer>>
  BY DEF VisitUpper, Searching, Busy, graph, top, history
<1>2. c \in Call /\ CallSound(c, Public) /\ Public \subseteq Ids
  BY <1>1, CallShape DEF GraphInv, CallsSound, Public, Types
<1>3. PICK m \in c.found \cap nodes : \E n \in upper[c.at][m] \ c.found :
        Goes(w, [c EXCEPT !.found = @ \cup {n}])
  BY DEF VisitUpper
<1>4. PICK n \in upper[c.at][m] : Goes(w, [c EXCEPT !.found = @ \cup {n}])
  BY <1>3
<1> DEFINE d == [c EXCEPT !.found = @ \cup {n}]
<1>5. n \in Public
  <2>1. c.at \in Upper /\ m \in Ids
    BY <1>1, <1>2, <1>3, LevelFacts DEF Upper, CallSound, Call
  <2> QED
    BY <1>4, <2>1 DEF GraphInv, ReachableArePublic
<1>6. c.found \cup {n} \subseteq Public /\ c.found \cup {n} \in SUBSET Ids
  BY <1>1, <1>2, <1>5 DEF CallSound
<1>7. /\ d \in Call /\ d.id = c.id /\ d.pc = "search" /\ Carries(c, d) /\ d.ep = c.ep /\ d.at = c.at
      /\ d.list = c.list /\ d.doomed = c.doomed /\ d.found = c.found \cup {n} /\ d.chosen = c.chosen
  BY <1>1, <1>2, <1>6 DEF Call, Carries
<1> HIDE DEF d
<1>8. CallSound(d, Public) /\ IdLocated(d, located)
  BY <1>1, <1>2, <1>6, <1>7 DEF CallSound, IdLocated
<1> QED
  BY <1>1, <1>4, <1>7, <1>8, LocalStep DEF d

LEMMA InvSelect ==
  ASSUME GraphInv, NEW w \in Writers, Select(w)
  PROVE  GraphInv'
<1> DEFINE c == call[w]
           place == IF c.at > 0 THEN "search" ELSE IF c.id \in located THEN "link" ELSE "store"
<1>1. /\ Busy(w) /\ c.pc = "search"
      /\ UNCHANGED <<located, edges, cache, linked, upper, entry, maxLayer>>
  BY DEF Select, Searching, Busy, graph, top, history
<1>2. c \in Call /\ CallSound(c, Public) /\ Public \subseteq Ids /\ c.at \in 0..MaxLevel
  BY <1>1, CallShape DEF GraphInv, CallsSound, Public, Types, CallSound
<1>3. PICK S \in Selections(c.found) : \E e \in S :
        Goes(w, [c EXCEPT !.chosen[c.at] = S, !.ep = e, !.found = {e}, !.at = @ - 1, !.pc = place])
  BY DEF Select
<1>4. PICK e \in S :
        Goes(w, [c EXCEPT !.chosen[c.at] = S, !.ep = e, !.found = {e}, !.at = @ - 1, !.pc = place])
  BY <1>3
<1> DEFINE d == [c EXCEPT !.chosen[c.at] = S, !.ep = e, !.found = {e}, !.at = @ - 1, !.pc = place]
           chosen == [c.chosen EXCEPT ![c.at] = S]
<1>5. S \subseteq Public /\ S # {} /\ Cardinality(S) <= M /\ e \in Public /\ e # None
  BY <1>1, <1>2, NoneAssumption DEF CallSound, Selections
<1>6. /\ place \in Before /\ (place = "search" <=> c.at > 0)
      /\ (place = "link" => c.id \in located) /\ place \notin {"top", "idle", "compete"}
  BY DEF Before
<1>7. c.chosen \in [0..MaxLevel -> SUBSET Ids] /\ c.at \in Int
  BY <1>2 DEF Call, Layers
<1>8. /\ chosen \in [0..MaxLevel -> SUBSET Ids] /\ chosen[c.at] = S
      /\ \A l \in 0..MaxLevel : l # c.at => chosen[l] = c.chosen[l]
  BY <1>2, <1>5, <1>7
<1> HIDE DEF place, chosen
<1>9. /\ d \in Call /\ d.id = c.id /\ d.pc = place /\ Carries(c, d) /\ d.ep = e /\ d.at = c.at - 1
      /\ d.list = c.list /\ d.doomed = c.doomed /\ d.found = {e} /\ d.chosen = chosen
  <2>1. d = [c EXCEPT !.chosen = chosen, !.ep = e, !.found = {e}, !.at = c.at - 1, !.pc = place]
    BY <1>2 DEF Call, chosen
  <2> HIDE DEF d
  <2>2. e \in Ids /\ c.at - 1 \in Layers
    BY <1>2, <1>5, LevelFacts DEF Layers
  <2> QED
    BY <1>2, <1>5, <1>6, <1>8, <2>1, <2>2 DEF Call, Carries
<1> HIDE DEF d
<1>10. \A l \in 0..MaxLevel : chosen[l] \subseteq Public /\ Cardinality(chosen[l]) <= MMax
  <2>1. Cardinality(S) <= MMax
    BY <1>2, <1>5, DegreeAssumption, SmallSets
  <2> QED
    BY <1>1, <1>2, <1>5, <1>8, <2>1 DEF CallSound
<1>11. c.at - 1 \in 0..MaxLevel \/ c.at = 0
  BY <1>2, LevelFacts
<1>12. CallSound(d, Public)
  BY <1>1, <1>2, <1>5, <1>6, <1>8, <1>9, <1>10, <1>11 DEF CallSound
<1>13. IdLocated(d, located)
  BY <1>6, <1>9 DEF IdLocated, Before
<1> QED
  BY <1>1, <1>4, <1>6, <1>9, <1>12, <1>13, LocalStep DEF d, Before

\* A call that moves on and forgets nothing it has learnt.
Remembers(c, d) ==
  /\ d.id = c.id /\ d.ep = c.ep /\ d.found = c.found /\ d.chosen = c.chosen
  /\ d.node = c.node /\ d.list = c.list /\ d.doomed = c.doomed

LEMMA RemembersSound ==
  ASSUME NEW c, NEW d, NEW P, c.pc # "idle", CallSound(c, P), Remembers(c, d),
         d.pc \notin {"top", "search", "store", "link"} \/ (c.pc = "store" /\ d.pc = "link")
  PROVE  CallSound(d, P) /\ Carries(c, d)
BY DEF CallSound, Remembers, Carries

\* The steps past the linking that only go on to the next thing to do.
LEMMA PastStep ==
  ASSUME GraphInv, NEW w \in Writers, NEW d, Busy(w), call[w].pc \in After, Goes(w, d),
         d \in Call, d.pc \in After, Remembers(call[w], d),
         UNCHANGED <<located, edges, cache, linked, upper, entry, maxLayer>>
  PROVE  GraphInv'
<1>1. CallSound(call[w], Public) /\ call[w].pc # "idle" /\ call[w].pc \notin Before
  BY DEF GraphInv, CallsSound, After, Before
<1>2. d.pc \notin {"top", "search", "store", "link"} /\ d.pc \notin Before
  BY DEF After, Before
<1>3. CallSound(d, Public) /\ Carries(call[w], d)
  BY <1>1, <1>2, RemembersSound
<1>4. IdLocated(d, located)
  BY <1>1, PastIsPublic DEF IdLocated, Public, Remembers
<1> QED
  BY <1>2, <1>3, <1>4, LocalStep DEF Remembers

LEMMA InvUncache ==
  ASSUME GraphInv, NEW w \in Writers, Uncache(w)
  PROVE  GraphInv'
<1> DEFINE c == call[w]
<1>1. /\ Busy(w) /\ c.pc = "uncache" /\ c.pc \in After
      /\ UNCHANGED <<located, edges, cache, linked, upper, entry, maxLayer>>
  BY DEF Uncache, Busy, top, history, After
<1>2. c \in Call
  BY <1>1, CallShape DEF GraphInv
<1>3. ASSUME NEW n \in c.todo, Goes(w, [c EXCEPT !.todo = @ \ {n}]) PROVE GraphInv'
  <2> DEFINE d == [c EXCEPT !.todo = @ \ {n}]
  <2>1. d \in Call /\ d.pc = c.pc /\ Remembers(c, d)
    BY <1>2 DEF Call, Remembers
  <2> HIDE DEF d
  <2> QED
    BY <1>1, <1>3, <2>1, PastStep DEF d
<1>4. ASSUME Goes(w, [c EXCEPT !.pc = "forward", !.at = c.low]) PROVE GraphInv'
  <2> DEFINE d == [c EXCEPT !.pc = "forward", !.at = c.low]
  <2>1. d \in Call /\ d.pc \in After /\ Remembers(c, d)
    BY <1>2 DEF Call, Remembers, After
  <2> HIDE DEF d
  <2> QED
    BY <1>1, <1>4, <2>1, PastStep DEF d
<1> QED
  BY <1>3, <1>4 DEF Uncache

LEMMA InvErase ==
  ASSUME GraphInv, NEW w \in Writers, Erase(w)
  PROVE  GraphInv'
<1> DEFINE c == call[w]
<1>1. /\ Busy(w) /\ c.pc = "erase" /\ c.pc \in After
      /\ UNCHANGED <<located, edges, cache, linked, upper, entry, maxLayer>>
  BY DEF Erase, Busy, top, history, After
<1>2. c \in Call
  BY <1>1, CallShape DEF GraphInv
<1>3. ASSUME NEW n \in c.todo, Goes(w, [c EXCEPT !.todo = @ \ {n}]) PROVE GraphInv'
  <2> DEFINE d == [c EXCEPT !.todo = @ \ {n}]
  <2>1. d \in Call /\ d.pc = c.pc /\ Remembers(c, d)
    BY <1>2 DEF Call, Remembers
  <2> HIDE DEF d
  <2> QED
    BY <1>1, <1>3, <2>1, PastStep DEF d
<1>4. ASSUME Goto(w, "promote") PROVE GraphInv'
  <2> DEFINE d == [c EXCEPT !.pc = "promote"]
  <2>1. d \in Call /\ d.pc \in After /\ Remembers(c, d)
    BY <1>2 DEF Call, Remembers, After
  <2> HIDE DEF d
  <2> QED
    BY <1>1, <1>4, <2>1, PastStep DEF d, Goto
<1> QED
  BY <1>3, <1>4 DEF Erase

LEMMA InvNextLayer ==
  ASSUME GraphInv, NEW w \in Writers, NextLayer(w) \/ BeginShrink(w)
  PROVE  GraphInv'
<1> DEFINE c == call[w]
<1>1. /\ Busy(w) /\ c.pc \in {"backward", "forward"} /\ c.pc \in After
      /\ UNCHANGED <<located, edges, cache, linked, upper, entry, maxLayer>>
  BY DEF NextLayer, BeginShrink, Busy, graph, top, history, After
<1>2. c \in Call
  BY <1>1, CallShape DEF GraphInv
<1>3. CASE NextLayer(w)
  <2> DEFINE d == [c EXCEPT !.pc = "forward", !.at = @ - 1]
  <2>1. Goes(w, d)
    BY <1>3 DEF NextLayer
  <2>2. c.at - 1 \in Layers
    <3>1. c.at \in Layers
      BY <1>2 DEF Call
    <3> QED
      BY <3>1, LevelFacts DEF Layers
  <2>3. d \in Call /\ d.pc \in After /\ Remembers(c, d)
    BY <1>2, <2>2 DEF Call, Remembers, After
  <2> HIDE DEF d
  <2> QED
    BY <1>1, <2>1, <2>3, PastStep
<1>4. CASE BeginShrink(w)
  <2> DEFINE d == [c EXCEPT !.pc = "shrink", !.todo = c.chosen[0]]
  <2>1. Goes(w, d)
    BY <1>4 DEF BeginShrink
  <2>2. c.chosen[0] \in SUBSET Ids
    BY <1>2, LevelFacts DEF Call
  <2>3. d \in Call /\ d.pc \in After /\ Remembers(c, d)
    BY <1>2, <2>2 DEF Call, Remembers, After
  <2> HIDE DEF d
  <2> QED
    BY <1>1, <2>1, <2>3, PastStep
<1> QED
  BY <1>3, <1>4

\* Storing the vector locates the node; it stays private.
LEMMA InvStore ==
  ASSUME GraphInv, NEW w \in Writers, StoreFirst(w) \/ StoreVector(w)
  PROVE  GraphInv'
<1> DEFINE c == call[w]
           place == IF StoreFirst(w) THEN "compete" ELSE "link"
           d == [c EXCEPT !.pc = place]
<1>1. /\ Busy(w) /\ located' = located \cup {c.id}
      /\ UNCHANGED <<edges, cache, linked, upper, entry, maxLayer>>
      /\ c.pc \in {"first", "store"} /\ (place = "link" => c.pc = "store") /\ Goes(w, d)
      /\ place \in {"compete", "link"}
  BY DEF StoreFirst, StoreVector, Busy, top, history, Goto
<1> HIDE DEF place
<1>2. c \in Call /\ CallSound(c, Public) /\ c.id \in Ids
  BY <1>1, CallShape DEF GraphInv, CallsSound, Call
<1>3. d \in Call /\ d.pc = place /\ Remembers(c, d) /\ d.id = c.id
  BY <1>1, <1>2 DEF Call, Remembers, Before
<1> HIDE DEF d
<1>4. Advances(w, d)
  BY <1>1, <1>2, <1>3 DEF Advances, Before, GraphInv, Types
<1>5. Public \subseteq Public'
  BY <1>4, AdvancesFrame
<1>6. CallSound(d, Public) /\ Carries(c, d)
  BY <1>1, <1>2, <1>3, RemembersSound
<1>7. CallSound(d, Public')
  BY <1>5, <1>6, SoundGrows
<1>8. IdLocated(d, located')
  BY <1>1, <1>3 DEF IdLocated
<1>9. entry' \in Public' \cup {None} /\ maxLayer' \in -1..MaxLevel
  BY <1>1, <1>5 DEF GraphInv, Types, ReachableArePublic
<1> QED
  BY <1>1, <1>4, <1>6, <1>7, <1>8, <1>9, PlainStep

\* The winner of the compare-exchange becomes public as the entry point.
LEMMA InvCompete ==
  ASSUME GraphInv, NEW w \in Writers, Compete(w)
  PROVE  GraphInv'
<1> DEFINE c == call[w]
           place == IF entry = None THEN "max" ELSE "top"
           d == [c EXCEPT !.pc = place, !.ep = entry]
<1>1. /\ Busy(w) /\ c.pc = "compete" /\ Goes(w, d)
      /\ UNCHANGED <<located, edges, cache, linked, upper, maxLayer>>
      /\ entry' = IF entry = None THEN c.id ELSE entry
  BY DEF Compete, Busy, graph, history
<1>2. /\ c \in Call /\ CallSound(c, Public) /\ entry \in Public \cup {None} /\ Public \subseteq Ids
      /\ c.id \in located
  BY <1>1, CallShape DEF GraphInv, CallsSound, IdLocated, ReachableArePublic, Public, Types
<1>3. place \in {"max", "top"} /\ (place = "max" <=> entry = None)
  OBVIOUS
<1> HIDE DEF place
<1>4. /\ d \in Call /\ d.id = c.id /\ d.pc = place /\ Carries(c, d) /\ d.ep = entry
      /\ d.list = c.list /\ d.doomed = c.doomed /\ d.found = c.found /\ d.chosen = c.chosen
  BY <1>2, <1>3 DEF Call, Carries, Before, After
<1> HIDE DEF d
<1>5. Advances(w, d)
  BY <1>1, <1>2, <1>3, <1>4 DEF Advances, Before, GraphInv, Types
<1>6. Public \subseteq Public' /\ call'[w] = d /\ OneCallPerId'
  BY <1>5, AdvancesFrame
<1>7. CallSound(d, Public)
  BY <1>1, <1>2, <1>3, <1>4 DEF CallSound
<1>8. CallSound(d, Public')
  BY <1>6, <1>7, SoundGrows
<1>9. IdLocated(d, located')
  BY <1>1, <1>2, <1>4 DEF IdLocated
<1>10. ASSUME entry = None PROVE c.id \in Public'
  <2>1. ASSUME NEW v \in Writers, call'[v].pc \in Before PROVE call'[v].id # c.id
    <3>1. d.pc = "max"
      BY <1>3, <1>4, <1>10
    <3>2. v # w /\ Busy(v)' /\ Busy(w)'
      BY <1>6, <2>1, <3>1 DEF Before, Busy
    <3> QED
      BY <1>4, <1>6, <3>2 DEF OneCallPerId
  <2> QED
    BY <1>1, <1>2, <2>1 DEF Public, Joining
<1>11. entry' \in Public' \cup {None} /\ maxLayer' \in -1..MaxLevel
  BY <1>1, <1>2, <1>6, <1>10 DEF GraphInv, Types
<1> QED
  BY <1>1, <1>4, <1>5, <1>8, <1>9, <1>11, PlainStep

LEMMA InvEnds ==
  ASSUME GraphInv, NEW w \in Writers,
         FirstMax(w) \/ TakeEntry(w) \/ (Fails(w) /\ ~Unshrunk(call[w]))
  PROVE  GraphInv'
<1>1. Busy(w) /\ Goes(w, Idle) /\ UNCHANGED <<located, edges, cache, linked, upper>>
  BY DEF FirstMax, TakeEntry, Fails, Busy, graph, history
<1>2. call[w] \in Call
  BY <1>1, CallShape DEF GraphInv
<1>3. maxLayer' \in -1..MaxLevel
  <2>1. call[w].high \in -1..MaxLevel
    BY <1>2, HighFacts
  <2> QED
    BY <2>1 DEF FirstMax, TakeEntry, Fails, top, GraphInv, Types
<1>4. entry' \in Public \cup {None}
  <2>1. CASE TakeEntry(w)
    BY <1>1, <2>1, PastIsPublic DEF TakeEntry, Before
  <2> QED
    BY <2>1 DEF FirstMax, Fails, top, GraphInv, ReachableArePublic
<1> QED
  BY <1>1, <1>3, <1>4, LastStep

LEMMA InvPromote ==
  ASSUME GraphInv, NEW w \in Writers, Promote(w)
  PROVE  GraphInv'
<1> DEFINE c == call[w]
           d == [c EXCEPT !.pc = "take"]
<1>1. /\ Busy(w) /\ c.pc = "promote"
      /\ UNCHANGED <<located, edges, cache, linked, upper, entry>>
  BY DEF Promote, Busy, graph, history
<1>2. c \in Call /\ CallSound(c, Public)
  BY <1>1, CallShape DEF GraphInv, CallsSound
<1>3. c.high \in -1..MaxLevel /\ maxLayer \in -1..MaxLevel /\ entry \in Public \cup {None}
  BY <1>2, HighFacts DEF GraphInv, Types, ReachableArePublic
<1>4. CASE ~(c.high > maxLayer)
  BY <1>1, <1>3, <1>4, LastStep DEF Promote
<1>5. CASE c.high > maxLayer
  <2>1. Goes(w, d) /\ maxLayer' = c.high
    BY <1>5 DEF Promote, Goto
  <2>2. d \in Call /\ d.pc = "take" /\ Remembers(c, d) /\ d.id = c.id
    BY <1>2 DEF Call, Remembers, After
  <2> HIDE DEF d
  <2>3. Advances(w, d)
    BY <1>1, <2>1, <2>2 DEF Advances, Before, GraphInv, Types
  <2>4. Public \subseteq Public'
    BY <2>3, AdvancesFrame
  <2>5. CallSound(d, Public) /\ Carries(c, d)
    BY <1>1, <1>2, <2>2, RemembersSound
  <2>6. CallSound(d, Public')
    BY <2>4, <2>5, SoundGrows
  <2>7. IdLocated(d, located')
    BY <1>1, <2>2, PastIsPublic DEF IdLocated, Public, Before
  <2> QED
    BY <1>1, <1>3, <2>1, <2>3, <2>4, <2>5, <2>6, <2>7, PlainStep
<1> QED
  BY <1>4, <1>5

-----------------------------------------------------------------------------
(* getEdgesCached and the shrink.                                          *)

\* The closest candidate survives every selection, if nothing ties with it.
LEMMA KeepFacts ==
  ASSUME NEW n \in Ids, NEW list \in SUBSET Ids, NEW S \in Keep(n, list)
  PROVE  /\ S \subseteq list /\ Cardinality(S) <= MMax
         /\ \A x \in list : Untied(n) /\ Nearest(n, x, list) => x \in S
<1>1. S \subseteq list /\ Cardinality(S) <= MMax
  BY DEF Keep
<1>2. ASSUME NEW x \in list, Untied(n), Nearest(n, x, list) PROVE x \in S
  <2>1. CASE S = list
    BY <2>1
  <2>2. CASE S # list
    <3>1. PICK z \in S : z \in Closest(n, list)
      BY <2>2 DEF Keep
    <3>2. z \in list /\ Rank[n][z] <= Rank[n][x] /\ Rank[n][x] <= Rank[n][z]
      BY <1>2, <3>1 DEF Closest, Nearest
    <3>3. Rank[n][z] = Rank[n][x]
      BY <3>2, RankAssumption
    <3>4. x \in Ids \ {n} /\ z \in Ids \ {n}
      BY <1>2, <3>2 DEF Nearest
    <3>5. x = z
      BY <1>2, <3>3, <3>4 DEF Untied
    <3> QED
      BY <3>1, <3>5
  <2> QED
    BY <2>1, <2>2
<1> QED
  BY <1>1, <1>2

\* What the caller of getEdgesCached learns and dooms.
LEMMA UsesFacts ==
  ASSUME NEW c \in Call, NEW n \in Ids, NEW list \in SUBSET Ids, NEW d \in Uses(c, n, list)
  PROVE  /\ d \in Call /\ d.id = c.id /\ d.pc = c.pc /\ d.ep = c.ep /\ d.at = c.at
         /\ d.chosen = c.chosen /\ d.node = c.node /\ d.list = c.list
         /\ d.found \subseteq c.found \cup list
         /\ \A e \in d.doomed : e \in c.doomed \/
              \E x \in list : e = <<n, x>> /\ (Untied(n) => ~Nearest(n, x, list))
<1> DEFINE known == list \cap located
<1>1. CASE c.pc = "search"
  <2>1. PICK T \in SUBSET known : d = [c EXCEPT !.found = @ \cup T]
    BY <1>1 DEF Uses
  <2>2. c.found \cup T \in SUBSET Ids
    BY DEF Call
  <2> QED
    BY <2>1, <2>2 DEF Call
<1>2. CASE c.pc # "search"
  <2>1. PICK S \in Keep(n, known) :
          d = [c EXCEPT !.todo = @ \ {n}, !.doomed = @ \cup ({n} \X (known \ S))]
    BY <1>2 DEF Uses
  <2> DEFINE doomed == c.doomed \cup ({n} \X (known \ S))
             todo == c.todo \ {n}
  <2>2. doomed \in SUBSET (Ids \X Ids) /\ todo \in SUBSET Ids
    BY DEF Call
  <2>3. \A e \in doomed : e \in c.doomed \/
          \E x \in list : e = <<n, x>> /\ (Untied(n) => ~Nearest(n, x, list))
    <3> SUFFICES ASSUME NEW x \in known \ S PROVE Untied(n) => ~Nearest(n, x, list)
      OBVIOUS
    <3>1. known \in SUBSET Ids
      OBVIOUS
    <3> HIDE DEF known
    <3>2. Untied(n) => ~Nearest(n, x, known)
      BY <2>1, <3>1, KeepFacts
    <3> QED
      BY <3>2 DEF known, Nearest
  <2>4. d = [c EXCEPT !.todo = todo, !.doomed = doomed]
    BY <2>1
  <2> HIDE DEF todo, doomed
  <2>5. /\ d \in Call /\ d.id = c.id /\ d.pc = c.pc /\ d.ep = c.ep /\ d.at = c.at
        /\ d.chosen = c.chosen /\ d.node = c.node /\ d.list = c.list
        /\ d.found = c.found /\ d.doomed = doomed
    BY <2>2, <2>4 DEF Call
  <2> QED
    BY <2>3, <2>5
<1> QED
  BY <1>1, <1>2

\* A caller that is given a list no closer than the anchor dooms no anchor.
LEMMA UsesSound ==
  ASSUME GraphInv, NEW w \in Writers, Busy(w), NEW n \in Ids, NEW list \in SUBSET Public,
         n \notin linked => list = {},
         \A x \in Ids : Anchor(n, x) => Nearest(n, x, list),
         NEW d \in Uses(call[w], n, list)
  PROVE  /\ d \in Call /\ d.id = call[w].id /\ d.pc = call[w].pc
         /\ d.node = call[w].node /\ d.list = call[w].list
         /\ CallSound(d, Public) /\ IdLocated(d, located)
         /\ \A m \in Ids \ linked : Ignores(d, m)
         /\ \A m \in linked, x \in Ids : Anchor(m, x) => Spares(d, m, x)
<1> DEFINE c == call[w]
<1>1. c \in Call /\ CallSound(c, Public) /\ IdLocated(c, located) /\ c.pc # "idle"
  BY CallShape DEF GraphInv, CallsSound, Busy
<1>2. list \in SUBSET Ids
  BY DEF Public, GraphInv, Types
<1>3. /\ d \in Call /\ d.id = c.id /\ d.pc = c.pc /\ d.ep = c.ep /\ d.at = c.at
      /\ d.chosen = c.chosen /\ d.node = c.node /\ d.list = c.list
      /\ d.found \subseteq c.found \cup list
      /\ \A e \in d.doomed : e \in c.doomed \/
           \E x \in list : e = <<n, x>> /\ (Untied(n) => ~Nearest(n, x, list))
  BY <1>1, <1>2, UsesFacts
<1>4. list # {} => n \in Public
  BY DEF GraphInv, ReachableArePublic
<1>5. d.doomed \subseteq Public \X Public
  BY <1>1, <1>3, <1>4 DEF CallSound
<1>6. CallSound(d, Public)
  BY <1>1, <1>3, <1>5 DEF CallSound
<1>7. IdLocated(d, located)
  BY <1>1, <1>3 DEF IdLocated
<1>8. ASSUME NEW m \in Ids \ linked PROVE Ignores(d, m)
  <2>1. Ignores(c, m)
    BY DEF GraphInv, UnlinkedAreBare
  <2>2. \A x \in Ids : <<m, x>> \notin d.doomed
    BY <1>1, <1>3, <2>1 DEF Ignores
  <2> QED
    BY <1>1, <1>3, <2>1, <2>2 DEF Ignores
<1>9. ASSUME NEW m \in linked, NEW x \in Ids, Anchor(m, x) PROVE Spares(d, m, x)
  <2>1. Spares(c, m, x)
    BY <1>9 DEF Anchor
  <2>2. <<m, x>> \notin d.doomed
    <3>1. Untied(m) /\ <<m, x>> \notin c.doomed
      BY <1>1, <1>9, <2>1 DEF Anchor, Spares
    <3>2. m = n => Nearest(n, x, list)
      BY <1>9
    <3>3. ASSUME <<m, x>> \in d.doomed PROVE FALSE
      <4>1. PICK z \in list : <<m, x>> = <<n, z>> /\ (Untied(n) => ~Nearest(n, z, list))
        BY <1>3, <3>1, <3>3
      <4>2. m = n /\ x = z
        BY <4>1
      <4> QED
        BY <3>1, <3>2, <4>1, <4>2
    <3> QED
      BY <3>3
  <2> QED
    BY <1>1, <1>3, <2>1, <2>2 DEF Spares
<1> QED
  BY <1>3, <1>6, <1>7, <1>8, <1>9

LEMMA WantedFacts ==
  ASSUME GraphInv, NEW w \in Writers, NEW n \in Wanted(call[w])
  PROVE  Busy(w) /\ n \in Ids
<1>1. Busy(w)
  BY DEF Wanted, Busy
<1>2. call[w] \in Call
  BY <1>1, CallShape DEF GraphInv
<1> QED
  BY <1>1, <1>2 DEF Wanted, Call

\* Every list there is of a node is as a caller may be given it.
LEMMA ListFacts ==
  ASSUME GraphInv, NEW n \in Ids, NEW list \in {edges[n], cache[n]}
  PROVE  /\ list \in SUBSET Public
         /\ n \notin linked => list = {}
         /\ \A x \in Ids : Anchor(n, x) => Nearest(n, x, list)
BY DEF GraphInv, ReachableArePublic, UnlinkedAreBare, Anchor

\* A step that changes nothing but what the call knows of lists.
LEMMA ReadStep ==
  ASSUME GraphInv, NEW w \in Writers, NEW d, Busy(w), Goes(w, d),
         d \in Call, d.id = call[w].id, d.pc = call[w].pc,
         CallSound(d, Public), IdLocated(d, located),
         \A m \in Ids \ linked : Ignores(d, m),
         \A m \in linked, x \in Ids : Anchor(m, x) => Spares(d, m, x),
         UNCHANGED <<located, edges, cache, linked, upper, entry, maxLayer>>
  PROVE  GraphInv'
<1>1. Advances(w, d)
  BY DEF Advances, GraphInv, Types
<1>2. Public \subseteq Public'
  BY <1>1, AdvancesFrame
<1>3. CallSound(d, Public') /\ IdLocated(d, located')
  BY <1>2, SoundGrows
<1>4. UpperSound' /\ entry' \in Public' \cup {None} /\ maxLayer' \in -1..MaxLevel
  BY <1>2 DEF UpperSound, GraphInv, Types, ReachableArePublic
<1> QED
  BY <1>1, <1>3, <1>4, QuietStep

LEMMA InvCacheHit ==
  ASSUME GraphInv, NEW w \in Writers, CacheHit(w)
  PROVE  GraphInv'
<1>1. PICK n \in Wanted(call[w]) \cap cached : \E d \in Uses(call[w], n, cache[n]) : Goes(w, d)
  BY DEF CacheHit
<1>2. PICK d \in Uses(call[w], n, cache[n]) : Goes(w, d)
  BY <1>1
<1>3. UNCHANGED <<located, edges, cache, linked, upper, entry, maxLayer>>
  BY DEF CacheHit, graph, top, history
<1>4. Busy(w) /\ n \in Ids
  BY WantedFacts
<1>5. /\ d \in Call /\ d.id = call[w].id /\ d.pc = call[w].pc
      /\ CallSound(d, Public) /\ IdLocated(d, located)
      /\ \A m \in Ids \ linked : Ignores(d, m)
      /\ \A m \in linked, x \in Ids : Anchor(m, x) => Spares(d, m, x)
  BY <1>4, ListFacts, UsesSound
<1> QED
  BY <1>2, <1>3, <1>4, <1>5, ReadStep

LEMMA InvGetOutEdges ==
  ASSUME GraphInv, NEW w \in Writers, GetOutEdges(w)
  PROVE  GraphInv'
<1> DEFINE c == call[w]
<1>1. PICK n \in Wanted(c) \ cached : Goes(w, [c EXCEPT !.node = n, !.list = edges[n]])
  BY DEF GetOutEdges
<1> DEFINE d == [c EXCEPT !.node = n, !.list = edges[n]]
<1>2. UNCHANGED <<located, edges, cache, linked, upper, entry, maxLayer>>
  BY DEF GetOutEdges, graph, top, history
<1>3. Busy(w) /\ n \in Ids
  BY WantedFacts
<1>4. c \in Call /\ CallSound(c, Public) /\ IdLocated(c, located) /\ c.pc # "idle"
  BY <1>3, CallShape DEF GraphInv, CallsSound, Busy
<1>5. edges[n] \in SUBSET Ids
  BY <1>3 DEF GraphInv, Types
<1>6. /\ d \in Call /\ d.id = c.id /\ d.pc = c.pc /\ d.ep = c.ep /\ d.at = c.at
      /\ d.chosen = c.chosen /\ d.node = n /\ d.list = edges[n]
      /\ d.found = c.found /\ d.doomed = c.doomed
  BY <1>3, <1>4, <1>5 DEF Call
<1> HIDE DEF d
<1>7. CallSound(d, Public) /\ IdLocated(d, located)
  BY <1>3, <1>4, <1>6, ListFacts DEF CallSound, IdLocated
<1>8. ASSUME NEW m \in Ids \ linked PROVE Ignores(d, m)
  BY <1>3, <1>4, <1>6 DEF Ignores, GraphInv, UnlinkedAreBare
<1>9. ASSUME NEW m \in linked, NEW x \in Ids, Anchor(m, x) PROVE Spares(d, m, x)
  BY <1>3, <1>4, <1>6, <1>9 DEF Spares, Anchor
<1> QED
  BY <1>1, <1>2, <1>3, <1>6, <1>7, <1>8, <1>9, ReadStep DEF d

LEMMA InvPutCached ==
  ASSUME GraphInv, NEW w \in Writers, PutCached(w)
  PROVE  GraphInv'
<1> DEFINE c == call[w]
           n == c.node
<1>1. /\ Busy(w) /\ n # None /\ cache' = [cache EXCEPT ![n] = c.list]
      /\ UNCHANGED <<located, edges, linked, upper, entry, maxLayer>>
  BY DEF PutCached, top, history
<1>2. PICK b \in Uses(c, n, c.list) : Goes(w, [b EXCEPT !.node = None, !.list = {}])
  BY DEF PutCached
<1> DEFINE d == [b EXCEPT !.node = None, !.list = {}]
<1>3. c \in Call /\ CallSound(c, Public) /\ c.pc # "idle"
  BY <1>1, CallShape DEF GraphInv, CallsSound, Busy
<1>4. n \in Ids /\ c.list \in SUBSET Public /\ c.list \in SUBSET Ids
  BY <1>1, <1>3 DEF Call, CallSound
<1>5. /\ n \notin linked => c.list = {}
      /\ \A x \in Ids : Anchor(n, x) => Nearest(n, x, c.list)
  BY <1>3, <1>4 DEF GraphInv, UnlinkedAreBare, Ignores, Anchor, Spares
<1> HIDE DEF n
<1>6. /\ b \in Call /\ b.id = c.id /\ b.pc = c.pc
      /\ CallSound(b, Public) /\ IdLocated(b, located)
      /\ \A m \in Ids \ linked : Ignores(b, m)
      /\ \A m \in linked, x \in Ids : Anchor(m, x) => Spares(b, m, x)
  BY <1>1, <1>4, <1>5, UsesSound
<1>7. /\ d \in Call /\ d.id = b.id /\ d.pc = b.pc /\ d.ep = b.ep /\ d.at = b.at
      /\ d.chosen = b.chosen /\ d.node = None /\ d.list = {}
      /\ d.found = b.found /\ d.doomed = b.doomed
  BY <1>6 DEF Call
<1>8. Goes(w, d)
  BY <1>2
<1> HIDE DEF d
<1>9. CallSound(d, Public) /\ IdLocated(d, located)
  BY <1>3, <1>6, <1>7 DEF CallSound, IdLocated
<1>10. Advances(w, d)
  BY <1>1, <1>6, <1>7, <1>8 DEF Advances, GraphInv, Types
<1>11. Public \subseteq Public' /\ CallSound(d, Public') /\ IdLocated(d, located')
  <2>1. Public \subseteq Public'
    BY <1>10, AdvancesFrame
  <2> QED
    BY <1>1, <1>9, <2>1, SoundGrows DEF IdLocated
<1>12. UpperSound' /\ entry' \in Public' \cup {None} /\ maxLayer' \in -1..MaxLevel
  BY <1>1, <1>11 DEF UpperSound, GraphInv, Types, ReachableArePublic
<1>13. /\ cache' \in [Ids -> SUBSET Ids] /\ cache'[n] = c.list
       /\ \A m \in Ids \ {n} : cache'[m] = cache[m]
  BY <1>1, <1>4 DEF GraphInv, Types
<1>14. \A m \in Ids : cache'[m] \subseteq Public'
  BY <1>4, <1>11, <1>13, ListFacts
<1>15. ASSUME NEW m \in Ids \ linked PROVE cache'[m] = {} /\ Ignores(d, m)
  <2>1. Ignores(b, m) /\ cache[m] = {}
    BY <1>6 DEF GraphInv, UnlinkedAreBare
  <2> QED
    BY <1>3, <1>5, <1>6, <1>7, <1>13, <2>1 DEF Ignores
<1>16. ASSUME NEW m \in linked, NEW x \in Ids, Anchor(m, x)
       PROVE  Spares(d, m, x) /\ Nearest(m, x, cache'[m])
  <2>1. Spares(b, m, x) /\ m \in Ids
    BY <1>6, <1>16 DEF GraphInv, Types
  <2>2. Spares(d, m, x)
    BY <1>3, <1>6, <1>7, <2>1 DEF Spares, Nearest
  <2>3. Nearest(m, x, cache'[m])
    BY <1>5, <1>13, <1>16, <2>1 DEF Anchor
  <2> QED
    BY <2>2, <2>3
<1> QED
  BY <1>1, <1>10, <1>11, <1>12, <1>13, <1>14, <1>15, <1>16, CacheStep

-----------------------------------------------------------------------------
(* Steps that change the graph.                                            *)

LEMMA InvBegin ==
  ASSUME GraphInv, NEW w \in Writers, NEW i \in Ids, NEW h \in Levels, Begin(w, i, h)
  PROVE  GraphInv'
<1> DEFINE none == [l \in 0..MaxLevel |-> {}]
           d == [pc |-> "entry", id |-> i, high |-> h, ep |-> None, low |-> 0, at |-> 0,
                 found |-> {}, chosen |-> none, todo |-> {},
                 doomed |-> {}, node |-> None, list |-> {}]
<1>1. /\ ~Busy(w) /\ i \notin located /\ Goes(w, d)
      /\ \A v \in Writers : Busy(v) => call[v].id # i
      /\ UNCHANGED <<located, edges, cache, linked, entry, maxLayer>>
      /\ upper' = upper \/ upper' = [l \in Upper |-> [upper[l] EXCEPT ![i] = {}]]
  BY DEF Begin, top
<1>2. none \in [0..MaxLevel -> SUBSET Ids] /\ \A l \in 0..MaxLevel : none[l] = {}
  OBVIOUS
<1>3. 0 \in Layers /\ {} \in SUBSET (Ids \X Ids)
  BY LevelFacts DEF Layers
<1> HIDE DEF none
<1>4. /\ d \in Call /\ d.id = i /\ d.pc = "entry" /\ d.ep = None /\ d.found = {}
      /\ d.chosen = none /\ d.node = None /\ d.list = {} /\ d.doomed = {}
  BY <1>2, <1>3 DEF Call, Before
<1> HIDE DEF d
<1>5. Advances(w, d)
  BY <1>1, <1>4 DEF Advances, GraphInv, Types
<1>6. Public \subseteq Public'
  BY <1>5, AdvancesFrame
<1>7. Cardinality({}) = 0 /\ 0 <= MMax
  BY FS_EmptySet, DegreeAssumption
<1>8. CallSound(d, Public') /\ IdLocated(d, located')
  BY <1>2, <1>4, <1>7 DEF CallSound, IdLocated
<1>9. UpperSound'
  <2>1. UpperSound
    BY DEF UpperSound, GraphInv, Types, ReachableArePublic
  <2>2. /\ upper' \in [Upper -> [Ids -> SUBSET Ids]]
        /\ \A k \in Upper, m \in Ids : upper'[k][m] = {} \/ upper'[k][m] = upper[k][m]
    BY <1>1, <2>1 DEF UpperSound
  <2> QED
    BY <1>6, <1>7, <2>1, <2>2 DEF UpperSound
<1>10. entry' \in Public' \cup {None} /\ maxLayer' \in -1..MaxLevel
  BY <1>1, <1>6 DEF GraphInv, Types, ReachableArePublic
<1>11. \A n \in Ids \ linked : Ignores(d, n)
  BY <1>4 DEF Ignores
<1>12. \A n \in linked, x \in Ids : Anchor(n, x) => Spares(d, n, x)
  BY <1>4 DEF Spares, Nearest
<1> QED
  BY <1>1, <1>5, <1>8, <1>9, <1>10, <1>11, <1>12, QuietStep

\* A step past the linking that writes one upper list.
LEMMA UpperStep ==
  ASSUME GraphInv, NEW w \in Writers, NEW d, Busy(w), call[w].pc \in After, Goes(w, d),
         d \in Call, d.pc \in After, Remembers(call[w], d),
         NEW l, NEW n \in Ids, NEW S,
         upper' = upper \/ upper' = [upper EXCEPT ![l][n] = S],
         l \in Upper => S \in SUBSET Public,
         UNCHANGED <<located, edges, cache, linked, entry, maxLayer>>
  PROVE  GraphInv'
<1> DEFINE c == call[w]
<1>1. CallSound(c, Public) /\ c.pc # "idle" /\ c.pc \notin Before
  BY DEF GraphInv, CallsSound, After, Before
<1>2. d.pc \notin {"top", "search", "store", "link"} /\ d.pc \notin Before
  BY DEF After, Before
<1>3. CallSound(d, Public) /\ Carries(c, d)
  BY <1>1, <1>2, RemembersSound
<1>4. IdLocated(d, located')
  BY <1>1, PastIsPublic DEF IdLocated, Public, Remembers
<1>5. Advances(w, d)
  BY <1>2 DEF Advances, GraphInv, Types, Remembers
<1>6. Public \subseteq Public' /\ Public \subseteq Ids
  BY <1>5, AdvancesFrame DEF Public, GraphInv, Types
<1>7. CallSound(d, Public') /\ entry' \in Public' \cup {None} /\ maxLayer' \in -1..MaxLevel
  BY <1>3, <1>6, SoundGrows DEF GraphInv, Types, ReachableArePublic
<1>8. UpperSound'
  <2>1. UpperSound
    BY DEF UpperSound, GraphInv, Types, ReachableArePublic
  <2>2. CASE upper' = upper
    BY <1>6, <2>1, <2>2 DEF UpperSound
  <2>3. CASE upper' = [upper EXCEPT ![l][n] = S]
    BY <1>6, <2>1, <2>3, UpperWrite
  <2> QED
    BY <2>2, <2>3
<1>9. ASSUME NEW m \in Ids \ linked PROVE Ignores(d, m)
  BY <1>1 DEF GraphInv, UnlinkedAreBare, Remembers, Ignores
<1>10. ASSUME NEW m \in linked, NEW x \in Ids, Anchor(m, x) PROVE Spares(d, m, x)
  BY <1>1, <1>10 DEF Anchor, Remembers, Spares
<1> QED
  BY <1>4, <1>5, <1>7, <1>8, <1>9, <1>10, QuietStep

LEMMA InvForward ==
  ASSUME GraphInv, NEW w \in Writers, Forward(w)
  PROVE  GraphInv'
<1> DEFINE c == call[w]
           S == c.chosen[c.at]
           d == [c EXCEPT !.pc = "backward", !.todo = S]
<1>1. /\ Busy(w) /\ c.pc = "forward" /\ c.pc \in After /\ c.at > 0 /\ Goes(w, d)
      /\ upper' = [upper EXCEPT ![c.at][c.id] = S]
      /\ UNCHANGED <<located, edges, cache, linked, entry, maxLayer>>
  BY DEF Forward, Busy, top, history, After
<1>2. c \in Call /\ CallSound(c, Public) /\ c.id \in Ids
  BY <1>1, CallShape DEF GraphInv, CallsSound, Call
<1>3. c.at \in 0..MaxLevel
  <2>1. c.at \in Layers
    BY <1>2 DEF Call
  <2> QED
    BY <1>1, <2>1, LevelFacts DEF Layers
<1>4. S \in SUBSET Public /\ S \in SUBSET Ids /\ Cardinality(S) <= MMax
  <2>1. S \in SUBSET Ids
    BY <1>2, <1>3 DEF Call
  <2> QED
    BY <1>1, <1>2, <1>3, <2>1 DEF CallSound
<1> HIDE DEF S
<1>5. d \in Call /\ d.pc \in After /\ Remembers(c, d)
  BY <1>2, <1>4 DEF Call, Remembers, After
<1> HIDE DEF d
<1> QED
  BY <1>1, <1>2, <1>4, <1>5, UpperStep

LEMMA InvBackward ==
  ASSUME GraphInv, NEW w \in Writers, Backward(w)
  PROVE  GraphInv'
<1> DEFINE c == call[w]
<1>1. /\ Busy(w) /\ c.pc = "backward" /\ c.pc \in After
      /\ UNCHANGED <<located, edges, cache, linked, entry, maxLayer>>
  BY DEF Backward, Busy, top, history, After
<1>2. c \in Call /\ c.id \in Public /\ Public \subseteq Ids
  BY <1>1, CallShape, PastIsPublic DEF GraphInv, Before, Public, Types
<1>3. PICK n \in c.todo :
        /\ IF n \in nodes
           THEN \E S \in Keep(n, upper[c.at][n] \cup {c.id}) : upper' = [upper EXCEPT ![c.at][n] = S]
           ELSE UNCHANGED upper
        /\ Goes(w, [c EXCEPT !.todo = @ \ {n}])
  BY DEF Backward
<1>4. n \in Ids
  BY <1>2 DEF Call
<1> DEFINE d == [c EXCEPT !.todo = @ \ {n}]
<1>5. d \in Call /\ d.pc \in After /\ Remembers(c, d)
  BY <1>1, <1>2 DEF Call, Remembers
<1>6. Goes(w, d)
  BY <1>3
<1> HIDE DEF d
<1>7. CASE upper' = upper
  BY <1>1, <1>5, <1>6, <1>7, PastStep
<1>8. ASSUME NEW S \in Keep(n, upper[c.at][n] \cup {c.id}), upper' = [upper EXCEPT ![c.at][n] = S]
      PROVE  GraphInv'
  <2>1. ASSUME c.at \in Upper PROVE S \in SUBSET Public
    <3>1. upper[c.at][n] \cup {c.id} \in SUBSET Public
      BY <1>2, <1>4, <2>1 DEF GraphInv, ReachableArePublic
    <3>2. upper[c.at][n] \cup {c.id} \in SUBSET Ids
      BY <1>2, <3>1
    <3> QED
      BY <1>4, <1>8, <3>1, <3>2, KeepFacts
  <2> QED
    BY <1>1, <1>4, <1>5, <1>6, <1>8, <2>1, UpperStep
<1> QED
  BY <1>3, <1>7, <1>8

\* A shrink whose read throws leaves a longer list of public nodes.
LEMMA InvUnshrunk ==
  ASSUME GraphInv, NEW w \in Writers, Fails(w), Unshrunk(call[w])
  PROVE  GraphInv'
<1> DEFINE c == call[w]
<1>1. /\ Busy(w) /\ c.pc = "backward" /\ c.pc \notin Before /\ Goes(w, Idle)
      /\ UNCHANGED <<located, edges, cache, linked, entry, maxLayer>>
  BY DEF Fails, Unshrunk, Busy, top, Before
<1>2. c \in Call /\ c.id \in Public /\ Public \subseteq Ids
  BY <1>1, CallShape, PastIsPublic DEF GraphInv, Public, Types
<1>3. PICK n \in c.todo : upper' = [upper EXCEPT ![c.at][n] = upper[c.at][n] \cup {c.id}]
  BY DEF Unshrunk
<1>4. n \in Ids
  BY <1>2 DEF Call
<1>5. Advances(w, Idle)
  BY <1>1 DEF Advances, GraphInv, Types
<1>6. Public \subseteq Public'
  BY <1>5, AdvancesFrame
<1>7. UpperSound
  BY DEF UpperSound, GraphInv, Types, ReachableArePublic
<1>8. c.at \in Upper => upper[c.at][n] \cup {c.id} \in SUBSET Public
  BY <1>2, <1>4, <1>7 DEF UpperSound
<1>9. UpperSound'
  BY <1>2, <1>3, <1>4, <1>6, <1>7, <1>8, UpperWrite
<1>10. CallSound(Idle, Public') /\ IdLocated(Idle, located')
  BY DEF CallSound, IdLocated, Idle
<1>11. \A m \in Ids : Ignores(Idle, m) /\ \A x \in Ids : Spares(Idle, m, x)
  BY DEF Ignores, Spares, Idle
<1>12. entry' \in Public' \cup {None} /\ maxLayer' \in -1..MaxLevel
  BY <1>1, <1>6 DEF GraphInv, Types, ReachableArePublic
<1>13. linked \subseteq Ids
  BY DEF GraphInv, Types
<1> QED
  BY <1>1, <1>5, <1>9, <1>10, <1>11, <1>12, <1>13, QuietStep

\* The step that makes a node public: both ends of its new edges get an
\* anchor if they had none, and keep the closer one if they had.
LEMMA InvLinkEdges ==
  ASSUME GraphInv, NEW w \in Writers, LinkEdges(w)
  PROVE  GraphInv'
<1> DEFINE c == call[w]
           S == c.chosen[0]
           d == [c EXCEPT !.pc = "uncache", !.todo = S]
<1>1. /\ Busy(w) /\ c.pc = "link" /\ Goes(w, d)
      /\ edges' = [n \in Ids |-> IF n = c.id THEN edges[n] \cup S
                                 ELSE IF n \in S THEN edges[n] \cup {c.id} ELSE edges[n]]
      /\ linked' = linked \cup {c.id} \cup S
      /\ UNCHANGED <<located, cache, upper, entry, maxLayer>>
  BY DEF LinkEdges, Busy, top
<1>2. /\ c \in Call /\ CallSound(c, Public) /\ c.pc # "idle" /\ c.id \in Ids /\ c.id \in located
      /\ Public \subseteq Ids
  BY <1>1, CallShape DEF GraphInv, CallsSound, IdLocated, Call, Public, Types
<1>3. c.id \notin Public
  BY <1>1 DEF Public, Joining, Before
<1>4. S \in SUBSET Public /\ S \in SUBSET Ids /\ S # {}
  BY <1>1, <1>2, LevelFacts DEF CallSound
<1> HIDE DEF S
<1>5. /\ d \in Call /\ d.pc = "uncache" /\ Remembers(c, d) /\ d.id = c.id
      /\ d.node = c.node /\ d.list = c.list /\ d.doomed = c.doomed
  BY <1>2, <1>4 DEF Call, Remembers, After
<1> HIDE DEF d
<1>6. Advances(w, d)
  BY <1>1, <1>2, <1>5 DEF Advances, Before, GraphInv, Types
<1>7. /\ call' \in [Writers -> {Idle} \cup Call]
      /\ call'[w] = d /\ \A v \in Writers \ {w} : call'[v] = call[v]
      /\ Public \subseteq Public' /\ OneCallPerId'
  BY <1>6, AdvancesFrame
<1>8. CallsSound'
  <2>1. CallSound(d, Public)
    BY <1>2, <1>5, RemembersSound
  <2>2. CallSound(d, Public') /\ IdLocated(d, located')
    BY <1>1, <1>2, <1>5, <1>7, <2>1, SoundGrows DEF IdLocated
  <2> QED
    BY <1>6, <2>2, AdvancesCalls
<1>9. c.id \in Public'
  <2>1. ASSUME NEW v \in Writers, call'[v].pc \in Before PROVE call'[v].id # c.id
    <3>1. v # w /\ Busy(v)' /\ Busy(w)'
      BY <1>5, <1>7, <2>1 DEF Before, Busy
    <3> QED
      BY <1>5, <1>7, <3>1 DEF OneCallPerId
  <2> QED
    BY <1>1, <1>2, <2>1 DEF Public, Joining
<1>10. edges \in [Ids -> SUBSET Ids] /\ c.id \notin linked /\ linked \subseteq Ids
  BY <1>3 DEF GraphInv, Types, ReachableArePublic
<1>11. /\ edges' \in [Ids -> SUBSET Ids]
       /\ edges'[c.id] = S
       /\ \A n \in S : n # c.id /\ edges'[n] = edges[n] \cup {c.id}
       /\ \A n \in Ids \ (S \cup {c.id}) : edges'[n] = edges[n]
  <2>1. edges[c.id] = {}
    BY <1>2, <1>10 DEF GraphInv, UnlinkedAreBare
  <2> QED
    BY <1>1, <1>2, <1>3, <1>4, <1>10, <2>1
<1>12. Types'
  BY <1>1, <1>2, <1>4, <1>7, <1>11 DEF GraphInv, Types
<1>13. ReachableArePublic'
  <2>1. \A n \in Ids : edges[n] \subseteq Public /\ cache[n] \subseteq Public
    BY DEF GraphInv, ReachableArePublic
  <2>2. \A n \in Ids : edges'[n] \subseteq Public'
    BY <1>4, <1>7, <1>9, <1>11, <2>1
  <2>3. linked' \subseteq Public' /\ entry' \in Public' \cup {None}
    BY <1>1, <1>4, <1>7, <1>9 DEF GraphInv, ReachableArePublic
  <2>4. \A l \in Upper, n \in Ids : upper'[l][n] \subseteq Public'
    BY <1>1, <1>7 DEF GraphInv, ReachableArePublic
  <2> QED
    BY <1>1, <1>7, <2>1, <2>2, <2>3, <2>4 DEF ReachableArePublic
<1>14. \A v \in Writers, n \in Ids : Ignores(call[v], n) => Ignores(call'[v], n)
  BY <1>2, <1>5, <1>7 DEF Ignores
<1>15. \A v \in Writers, n \in Ids, x \in Ids : Spares(call[v], n, x) => Spares(call'[v], n, x)
  BY <1>2, <1>5, <1>7 DEF Spares
<1>16. UnlinkedAreBare'
  <2> SUFFICES ASSUME NEW n \in Ids \ linked'
               PROVE  edges'[n] = {} /\ cache'[n] = {} /\ \A v \in Writers : Ignores(call'[v], n)
    BY DEF UnlinkedAreBare
  <2>1. n \in Ids \ linked /\ edges'[n] = edges[n]
    BY <1>1, <1>11
  <2> QED
    BY <1>1, <1>14, <2>1 DEF GraphInv, UnlinkedAreBare
<1>17. \A n \in Ids \ linked, x \in Ids, v \in Writers : cache[n] = {} /\ edges[n] = {} /\ Spares(call'[v], n, x)
  <2> SUFFICES ASSUME NEW n \in Ids \ linked, NEW x \in Ids, NEW v \in Writers
               PROVE  cache[n] = {} /\ edges[n] = {} /\ Spares(call'[v], n, x)
    OBVIOUS
  <2>1. cache[n] = {} /\ edges[n] = {} /\ Ignores(call'[v], n)
    BY <1>14 DEF GraphInv, UnlinkedAreBare
  <2> QED
    BY <2>1 DEF Ignores, Spares, Nearest
<1>18. Anchored'
  <2> SUFFICES ASSUME NEW n \in linked', Untied(n) PROVE \E x \in Ids : Anchor(n, x)'
    BY DEF Anchored, Untied
  <2>1. CASE n = c.id
    <3>1. PICK x \in S : \A y \in S : Rank[n][x] <= Rank[n][y]
      BY <1>2, <1>4, <2>1, NearestAssumption
    <3>2. cache'[n] = {} /\ edges'[n] = S /\ x \in Ids
      BY <1>1, <1>2, <1>4, <1>10, <1>11, <1>17, <2>1
    <3>3. \A v \in Writers : Spares(call'[v], n, x)
      BY <1>2, <1>10, <1>17, <2>1, <3>2
    <3> QED
      BY <1>3, <1>4, <2>1, <3>1, <3>2, <3>3 DEF Anchor, Nearest
  <2>2. CASE n \in S /\ n \notin linked
    <3>1. cache'[n] = {} /\ edges'[n] = {c.id} /\ n \in Ids
      BY <1>1, <1>2, <1>4, <1>11, <1>17, <2>2
    <3>2. \A v \in Writers : Spares(call'[v], n, c.id)
      BY <1>2, <1>17, <2>2, <3>1
    <3>3. Rank[n][c.id] \in Int
      BY <1>2, <3>1, RankAssumption
    <3>4. PICK i \in Ids : i = c.id
      BY <1>2
    <3>5. Anchor(n, i)'
      BY <1>3, <1>4, <2>2, <3>1, <3>2, <3>3, <3>4 DEF Anchor, Nearest
    <3> QED
      BY <3>5
  <2>3. CASE n \in S /\ n \in linked
    <3>1. PICK x \in Ids : Anchor(n, x)
      BY <2>3 DEF GraphInv, Anchored
    <3>2. n \in Ids /\ edges'[n] = edges[n] \cup {c.id} /\ cache'[n] = cache[n]
      BY <1>1, <1>4, <1>11, <2>3
    <3>3. edges[n] \subseteq Ids /\ cache[n] \subseteq Ids
      BY <3>2 DEF GraphInv, Types
    <3>4. \A y \in Ids : Rank[n][y] \in Int
      BY <3>2, RankAssumption
    <3>5. CASE Rank[n][x] <= Rank[n][c.id]
      <4>1. \A v \in Writers : Spares(call'[v], n, x)
        BY <1>15, <3>1, <3>2 DEF Anchor
      <4>2. x \in edges'[n] /\ Nearest(n, x, edges'[n]) /\ Nearest(n, x, cache'[n])
        BY <1>11, <2>3, <3>1, <3>2, <3>5 DEF Anchor, Nearest
      <4> QED
        BY <4>1, <4>2 DEF Anchor
    <3>6. CASE ~(Rank[n][x] <= Rank[n][c.id])
      <4>1. \A y \in Ids : Rank[n][x] <= Rank[n][y] => Rank[n][c.id] <= Rank[n][y]
        BY <1>2, <3>4, <3>6
      <4>2. c.id \in edges'[n] /\ Nearest(n, c.id, edges'[n]) /\ Nearest(n, c.id, cache'[n])
        BY <1>2, <1>11, <2>3, <3>1, <3>2, <3>3, <3>4, <4>1 DEF Anchor, Nearest
      <4>3. ASSUME NEW v \in Writers PROVE Spares(call'[v], n, c.id)
        <5>1. Spares(call[v], n, x) /\ CallSound(call[v], Public)
          BY <3>1 DEF Anchor, GraphInv, CallsSound
        <5>2. Busy(v) => call[v].list \subseteq Ids /\ <<n, c.id>> \notin call[v].doomed
          BY <1>2, <1>3, <5>1 DEF Busy, CallSound
        <5>3. Spares(call[v], n, c.id)
          BY <4>1, <5>1, <5>2 DEF Spares, Busy, Nearest
        <5> QED
          BY <1>2, <1>15, <3>2, <5>3
      <4>4. PICK i \in Ids : i = c.id
        BY <1>2
      <4>5. Anchor(n, i)'
        BY <4>2, <4>3, <4>4 DEF Anchor
      <4> QED
        BY <4>5
    <3> QED
      BY <3>5, <3>6
  <2>4. CASE n \in linked /\ n \notin S /\ n # c.id
    <3>1. PICK x \in Ids : Anchor(n, x)
      BY <2>4 DEF GraphInv, Anchored
    <3>2. edges'[n] = edges[n] /\ cache'[n] = cache[n] /\ n \in Ids
      BY <1>1, <1>10, <1>11, <2>4
    <3>3. \A v \in Writers : Spares(call'[v], n, x)
      BY <1>15, <3>1, <3>2 DEF Anchor
    <3>4. Anchor(n, x)'
      BY <3>1, <3>2, <3>3 DEF Anchor
    <3> QED
      BY <3>4
  <2> QED
    BY <1>1, <2>1, <2>2, <2>3, <2>4
<1> QED
  BY <1>7, <1>8, <1>12, <1>13, <1>16, <1>18 DEF GraphInv

\* Deleting what was doomed, however late, leaves every anchor.
LEMMA InvDeleteEdges ==
  ASSUME GraphInv, NEW w \in Writers, DeleteEdges(w)
  PROVE  GraphInv'
<1> DEFINE c == call[w]
           ends == {e[1] : e \in c.doomed} \cup {e[2] : e \in c.doomed}
           d == [c EXCEPT !.pc = "erase", !.todo = ends]
<1>1. /\ Busy(w) /\ c.pc = "shrink" /\ Goes(w, d)
      /\ edges' = [n \in Ids |-> {m \in edges[n] : <<n, m>> \notin c.doomed}]
      /\ UNCHANGED <<located, cache, linked, upper, entry, maxLayer>>
  BY DEF DeleteEdges, Busy, top, history
<1>2. c \in Call /\ CallSound(c, Public) /\ c.pc # "idle" /\ c.id \in Ids
  BY <1>1, CallShape DEF GraphInv, CallsSound, Call
<1>3. ends \in SUBSET Ids
  <2>1. \A e \in c.doomed : e[1] \in Ids /\ e[2] \in Ids
    BY <1>2 DEF Call
  <2> QED
    BY <2>1
<1> HIDE DEF ends
<1>4. /\ d \in Call /\ d.pc = "erase" /\ Remembers(c, d) /\ d.id = c.id
      /\ d.node = c.node /\ d.list = c.list /\ d.doomed = c.doomed
  BY <1>2, <1>3 DEF Call, Remembers, After
<1> HIDE DEF d
<1>5. Advances(w, d)
  BY <1>1, <1>4 DEF Advances, Before, GraphInv, Types
<1>6. /\ call' \in [Writers -> {Idle} \cup Call]
      /\ call'[w] = d /\ \A v \in Writers \ {w} : call'[v] = call[v]
      /\ Public \subseteq Public' /\ OneCallPerId'
  BY <1>5, AdvancesFrame
<1>7. CallsSound'
  <2>1. CallSound(d, Public)
    BY <1>2, <1>4, RemembersSound
  <2>2. c.id \in Public
    BY <1>1, PastIsPublic DEF Before
  <2>3. CallSound(d, Public') /\ IdLocated(d, located')
    BY <1>1, <1>4, <1>6, <2>1, <2>2, SoundGrows DEF IdLocated, Public
  <2> QED
    BY <1>5, <2>3, AdvancesCalls
<1>8. edges' \in [Ids -> SUBSET Ids] /\ \A n \in Ids : edges'[n] \subseteq edges[n]
  BY <1>1 DEF GraphInv, Types
<1>9. Types'
  BY <1>1, <1>6, <1>8 DEF GraphInv, Types
<1>10. ReachableArePublic'
  <2>1. \A n \in Ids : edges'[n] \cup cache'[n] \subseteq Public'
    BY <1>1, <1>6, <1>8 DEF GraphInv, ReachableArePublic
  <2> QED
    BY <1>1, <1>6, <2>1 DEF GraphInv, ReachableArePublic
<1>11. UnlinkedAreBare'
  <2>1. \A v \in Writers, n \in Ids : Ignores(call[v], n) => Ignores(call'[v], n)
    BY <1>2, <1>4, <1>6 DEF Ignores
  <2> QED
    BY <1>1, <1>8, <2>1 DEF GraphInv, UnlinkedAreBare
<1>12. Anchored'
  <2> SUFFICES ASSUME NEW n \in linked, Untied(n) PROVE \E x \in Ids : Anchor(n, x)'
    BY <1>1 DEF Anchored, Untied
  <2>1. PICK x \in Ids : Anchor(n, x)
    BY DEF GraphInv, Anchored
  <2>2. n \in Ids
    BY DEF GraphInv, Types
  <2>3. <<n, x>> \notin c.doomed
    BY <1>2, <2>1 DEF Anchor, Spares
  <2>4. x \in edges'[n] /\ Nearest(n, x, edges'[n]) /\ Nearest(n, x, cache'[n])
    BY <1>1, <1>8, <2>1, <2>2, <2>3 DEF Anchor, Nearest
  <2>5. \A v \in Writers : Spares(call'[v], n, x)
    BY <1>2, <1>4, <1>6, <2>1 DEF Anchor, Spares
  <2>6. Anchor(n, x)'
    BY <2>4, <2>5 DEF Anchor
  <2> QED
    BY <2>6
<1> QED
  BY <1>6, <1>7, <1>9, <1>10, <1>11, <1>12 DEF GraphInv

-----------------------------------------------------------------------------
(* The theorems.                                                           *)

LEMMA InvInit == Init => GraphInv
<1> SUFFICES ASSUME Init PROVE GraphInv
  OBVIOUS
<1>1. \A w \in Writers : call[w] = Idle
  BY DEF Init
<1>2. Types
  BY LevelFacts DEF Init, Types, NoEdges
<1>3. CallsSound /\ OneCallPerId
  BY <1>1 DEF CallsSound, CallSound, IdLocated, OneCallPerId, Busy, Idle
<1>4. ReachableArePublic
  BY DEF Init, ReachableArePublic, NoEdges
<1>5. UnlinkedAreBare
  BY <1>1 DEF Init, UnlinkedAreBare, NoEdges, Ignores, Idle
<1>6. Anchored
  BY DEF Init, Anchored
<1> QED
  BY <1>2, <1>3, <1>4, <1>5, <1>6 DEF GraphInv

LEMMA InvNext == GraphInv /\ [Next]_vars => GraphInv'
<1> SUFFICES ASSUME GraphInv, [Next]_vars PROVE GraphInv'
  OBVIOUS
<1>1. ASSUME NEW w \in Writers, Insert(w) PROVE GraphInv'
  <2>1. CASE \E i \in Ids, h \in Levels : Begin(w, i, h)
    BY <2>1, InvBegin
  <2>2. CASE ReadEntry(w) \/ StoreFirst(w) \/ Compete(w) \/ FirstMax(w)
    BY <2>2, InvReadEntry, InvStore, InvCompete, InvEnds
  <2>3. CASE ReadTop(w) \/ Greedy(w) \/ GreedyEnds(w) \/ VisitUpper(w) \/ Select(w)
    BY <2>3, InvReadTop, InvGreedy, InvGreedyEnds, InvVisitUpper, InvSelect
  <2>4. CASE CacheHit(w) \/ GetOutEdges(w) \/ PutCached(w)
    BY <2>4, InvCacheHit, InvGetOutEdges, InvPutCached
  <2>5. CASE StoreVector(w) \/ LinkEdges(w) \/ Uncache(w)
    BY <2>5, InvStore, InvLinkEdges, InvUncache
  <2>6. CASE Forward(w) \/ Backward(w) \/ NextLayer(w)
    BY <2>6, InvForward, InvBackward, InvNextLayer
  <2>7. CASE BeginShrink(w) \/ DeleteEdges(w) \/ Erase(w)
    BY <2>7, InvNextLayer, InvDeleteEdges, InvErase
  <2>8. CASE Promote(w) \/ TakeEntry(w) \/ Fails(w)
    BY <2>8, InvPromote, InvEnds, InvUnshrunk
  <2> QED
    BY <1>1, <2>1, <2>2, <2>3, <2>4, <2>5, <2>6, <2>7, <2>8 DEF Insert
<1>2. CASE UNCHANGED vars
  <2>1. UNCHANGED <<nodes, upper, located, edges, cached, cache, entry, maxLayer, call, linked>>
    BY <1>2 DEF vars, graph, top, history
  <2>2. Public' = Public
    BY <2>1 DEF Public, Joining
  <2>3. Types' /\ OneCallPerId'
    BY <2>1 DEF GraphInv, Types, OneCallPerId, Busy
  <2>4. CallsSound' /\ ReachableArePublic'
    BY <2>1, <2>2 DEF GraphInv, CallsSound, ReachableArePublic
  <2>5. UnlinkedAreBare' /\ Anchored'
    BY <2>1 DEF GraphInv, UnlinkedAreBare, Anchored, Anchor
  <2> QED
    BY <2>3, <2>4, <2>5 DEF GraphInv
<1> QED
  BY <1>1, <1>2 DEF Next

LEMMA Invariance == Spec => []GraphInv
BY InvInit, InvNext, PTL DEF Spec

\* A linked node from which no two others are equally far always has a
\* layer-0 edge: however many writers shrink its
\* list at once, each from a list that may be stale, some neighbour, the
\* closest it ever had, is kept by them all.
THEOREM NoNodeStranded == Spec => []NeverStranded
<1>1. GraphInv => NeverStranded
  BY DEF GraphInv, Anchored, Anchor, NeverStranded
<1> QED
  BY <1>1, Invariance, PTL

\* No search is ever led to a node whose vector it cannot read: the entry
\* point, the stored and the cached lists and the upper lists name located
\* nodes only.
THEOREM NothingDangles == Spec => []ReachableAreLocated
<1>1. GraphInv => ReachableAreLocated
  BY DEF GraphInv, ReachableArePublic, Public, ReachableAreLocated
<1> QED
  BY <1>1, Invariance, PTL

-----------------------------------------------------------------------------
(* The degree of the upper layers, over GraphInv.                          *)

DegreeInv == failures \in Nat /\ UpperDegreeBounded

\* A list that a step leaves may only lose what excused its length if the
\* step publishes one of its nodes.
LEMMA DegreeStep ==
  ASSUME DegreeInv, failures' \in Nat, failures' = 0 => failures = 0,
         \A l \in Upper, n \in Ids :
           \/ Cardinality(upper'[l][n]) <= MMax
           \/ failures' # 0 /\ ~(upper'[l][n] \subseteq nodes')
           \/ upper'[l][n] = upper[l][n] /\ (upper[l][n] \subseteq nodes' => upper[l][n] \subseteq nodes)
  PROVE  DegreeInv'
BY DEF DegreeInv, UpperDegreeBounded

LEMMA DegreeBegin ==
  ASSUME GraphInv, DegreeInv, NEW w \in Writers, NEW i \in Ids, NEW h \in Levels, Begin(w, i, h)
  PROVE  DegreeInv'
<1>1. i \notin located /\ nodes' \subseteq nodes \cup {i} /\ failures' = failures
  BY DEF Begin
<1>2. upper \in [Upper -> [Ids -> SUBSET Ids]] /\ \A l \in Upper, n \in Ids : i \notin upper[l][n]
  BY <1>1 DEF GraphInv, Types, ReachableArePublic, Public
<1>3. upper' = upper \/ upper' = [l \in Upper |-> [upper[l] EXCEPT ![i] = {}]]
  BY DEF Begin
<1>4. \A l \in Upper, n \in Ids : upper'[l][n] = {} \/ upper'[l][n] = upper[l][n]
  BY <1>2, <1>3
<1>5. Cardinality({}) <= MMax
  BY FS_EmptySet, DegreeAssumption
<1>6. \A l \in Upper, n \in Ids : upper[l][n] \subseteq nodes' => upper[l][n] \subseteq nodes
  BY <1>1, <1>2
<1>7. failures' \in Nat
  BY <1>1 DEF DegreeInv
<1> QED
  BY <1>1, <1>4, <1>5, <1>6, <1>7, DegreeStep

\* Forward and Backward write a short list, or none.
LEMMA DegreeLink ==
  ASSUME GraphInv, DegreeInv, NEW w \in Writers, Forward(w) \/ Backward(w)
  PROVE  DegreeInv'
<1> DEFINE c == call[w]
<1>1. /\ Busy(w) /\ c.pc \notin Before
      /\ nodes' = nodes /\ failures' = failures /\ failures' \in Nat
  BY DEF Forward, Backward, Busy, history, DegreeInv, Before
<1>2. c \in Call /\ CallSound(c, Public) /\ c.id \in Ids /\ c.pc # "idle"
  BY <1>1, CallShape DEF GraphInv, CallsSound, Call, Busy
<1>3. upper \in [Upper -> [Ids -> SUBSET Ids]]
  BY DEF GraphInv, Types
<1>4. \/ upper' = upper
      \/ \E n \in Ids, S \in SUBSET Ids :
           /\ upper' = [upper EXCEPT ![c.at][n] = S]
           /\ c.at \in Upper => Cardinality(S) <= MMax
  <2>1. CASE Forward(w)
    <3>1. upper' = [upper EXCEPT ![c.at][c.id] = c.chosen[c.at]] /\ c.at > 0
      BY <2>1 DEF Forward
    <3>2. c.at \in 0..MaxLevel
      <4>1. c.at \in Layers
        BY <1>2 DEF Call
      <4> QED
        BY <3>1, <4>1, LevelFacts DEF Layers
    <3>3. c.chosen[c.at] \in SUBSET Ids /\ Cardinality(c.chosen[c.at]) <= MMax
      BY <1>2, <3>2 DEF CallSound, Call
    <3> QED
      BY <1>2, <3>1, <3>3
  <2>2. CASE Backward(w)
    <3>1. PICK n \in c.todo :
            IF n \in nodes
            THEN \E S \in Keep(n, upper[c.at][n] \cup {c.id}) : upper' = [upper EXCEPT ![c.at][n] = S]
            ELSE UNCHANGED upper
      BY <2>2 DEF Backward
    <3>2. n \in Ids
      BY <1>2 DEF Call
    <3>3. CASE n \notin nodes
      BY <3>1, <3>3
    <3>4. CASE n \in nodes
      <4>1. PICK S \in Keep(n, upper[c.at][n] \cup {c.id}) : upper' = [upper EXCEPT ![c.at][n] = S]
        BY <3>1, <3>4
      <4>2. CASE c.at \notin Upper
        BY <1>3, <4>1, <4>2
      <4>3. CASE c.at \in Upper
        <5>1. upper[c.at][n] \cup {c.id} \in SUBSET Ids
          BY <1>2, <1>3, <3>2, <4>3
        <5>2. S \in SUBSET Ids /\ Cardinality(S) <= MMax
          BY <3>2, <4>1, <5>1, KeepFacts
        <5> QED
          BY <3>2, <4>1, <5>2
      <4> QED
        BY <4>2, <4>3
    <3> QED
      BY <3>3, <3>4
  <2> QED
    BY <2>1, <2>2
<1>5. \A l \in Upper, n \in Ids : Cardinality(upper'[l][n]) <= MMax \/ upper'[l][n] = upper[l][n]
  <2>1. CASE upper' = upper
    BY <2>1
  <2>2. CASE upper' # upper
    <3>1. PICK n \in Ids, S \in SUBSET Ids :
            /\ upper' = [upper EXCEPT ![c.at][n] = S]
            /\ c.at \in Upper => Cardinality(S) <= MMax
      BY <1>4, <2>2
    <3>2. c.at \in Upper
      BY <1>3, <2>2, <3>1
    <3>3. \A l \in Upper, m \in Ids : upper'[l][m] = S \/ upper'[l][m] = upper[l][m]
      BY <1>3, <3>1
    <3> QED
      BY <3>1, <3>2, <3>3
  <2> QED
    BY <2>1, <2>2
<1> QED
  BY <1>1, <1>5, DegreeStep

LEMMA DegreeFails ==
  ASSUME GraphInv, DegreeInv, NEW w \in Writers, Fails(w)
  PROVE  DegreeInv'
<1> DEFINE c == call[w]
<1>1. nodes' = nodes /\ failures' = failures + 1 /\ failures \in Nat
  BY DEF Fails, DegreeInv
<1>2. failures' \in Nat /\ failures' # 0
  BY <1>1
<1>3. upper \in [Upper -> [Ids -> SUBSET Ids]]
  BY DEF GraphInv, Types
<1>4. CASE upper' = upper
  BY <1>1, <1>2, <1>4, DegreeStep
<1>5. CASE Unshrunk(c)
  <2>1. PICK n \in c.todo :
          /\ ~(upper[c.at][n] \cup {c.id} \subseteq nodes)
          /\ upper' = [upper EXCEPT ![c.at][n] = upper[c.at][n] \cup {c.id}]
    BY <1>5 DEF Unshrunk
  <2>2. \A l \in Upper, m \in Ids : upper'[l][m] = upper[c.at][n] \cup {c.id} \/ upper'[l][m] = upper[l][m]
    BY <1>3, <2>1
  <2> QED
    BY <1>1, <1>2, <2>1, <2>2, DegreeStep
<1> QED
  BY <1>4, <1>5 DEF Fails

\* The other steps write no upper list, publish no node and do not fail.
LEMMA DegreeNext == GraphInv /\ DegreeInv /\ [Next]_vars => DegreeInv'
<1> SUFFICES ASSUME GraphInv, DegreeInv, [Next]_vars PROVE DegreeInv'
  OBVIOUS
<1>1. ASSUME UNCHANGED <<nodes, upper, failures>> PROVE DegreeInv'
  BY <1>1 DEF DegreeInv, UpperDegreeBounded
<1>2. ASSUME NEW w \in Writers, Insert(w) PROVE DegreeInv'
  <2>1. CASE \E i \in Ids, h \in Levels : Begin(w, i, h)
    BY <2>1, DegreeBegin
  <2>2. CASE ReadEntry(w) \/ StoreFirst(w) \/ Compete(w) \/ FirstMax(w)
    BY <1>1, <2>2 DEF ReadEntry, StoreFirst, Compete, FirstMax, graph, history
  <2>3. CASE ReadTop(w) \/ Greedy(w) \/ GreedyEnds(w) \/ VisitUpper(w) \/ Select(w)
    BY <1>1, <2>3 DEF ReadTop, Greedy, GreedyEnds, VisitUpper, Select, graph, history
  <2>4. CASE CacheHit(w) \/ GetOutEdges(w) \/ PutCached(w)
    BY <1>1, <2>4 DEF CacheHit, GetOutEdges, PutCached, graph, history
  <2>5. CASE StoreVector(w) \/ LinkEdges(w) \/ Uncache(w)
    BY <1>1, <2>5 DEF StoreVector, LinkEdges, Uncache, history
  <2>6. CASE Forward(w) \/ Backward(w)
    BY <2>6, DegreeLink
  <2>7. CASE NextLayer(w) \/ BeginShrink(w) \/ DeleteEdges(w) \/ Erase(w)
    BY <1>1, <2>7 DEF NextLayer, BeginShrink, DeleteEdges, Erase, graph, history
  <2>8. CASE Promote(w) \/ TakeEntry(w)
    BY <1>1, <2>8 DEF Promote, TakeEntry, graph, history
  <2>9. CASE Fails(w)
    BY <2>9, DegreeFails
  <2> QED
    BY <1>2, <2>1, <2>2, <2>3, <2>4, <2>5, <2>6, <2>7, <2>8, <2>9 DEF Insert
<1>3. CASE UNCHANGED vars
  BY <1>1, <1>3 DEF vars, graph, history
<1> QED
  BY <1>2, <1>3 DEF Next

\* No list above layer 0 outgrows m_max_, whatever is linked concurrently,
\* unless a read has failed and the list names a node nodes_ does not hold.
THEOREM UpperListsStaySmall == Spec => []UpperDegreeBounded
<1>1. Init => DegreeInv
  <2>1. Init => failures = 0 /\ \A l \in Upper, n \in Ids : upper[l][n] = {}
    BY DEF Init, NoEdges
  <2>2. Cardinality({}) <= MMax
    BY FS_EmptySet, DegreeAssumption
  <2> QED
    BY <2>1, <2>2 DEF DegreeInv, UpperDegreeBounded
<1>2. DegreeInv => UpperDegreeBounded
  BY DEF DegreeInv
<1> QED
  BY <1>1, <1>2, DegreeNext, Invariance, PTL DEF Spec
=============================================================================
