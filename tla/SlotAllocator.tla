--------------------------- MODULE SlotAllocator ---------------------------
(***************************************************************************)
(* Where PagedVectorStorage (disk_vector.h) puts a vector: the allocation  *)
(* of a (page, slot) pair under the section shard's mutex or, for a fresh  *)
(* page, under pages_alloc_mu_; the location tables; the checkpoint of     *)
(* both and what deserializeMetadata rebuilds from it.  What is written    *)
(* into the slots is the subject of module VectorPages.                    *)
(*                                                                         *)
(* A section is the group of vectors that share pages (the key of its      *)
(* upper-layer entry).  Which of several open pages or free slots a        *)
(* section hands out first (the back of a list) is left open.              *)
(***************************************************************************)
EXTENDS Naturals, Sequences, FiniteSets

CONSTANTS
  Threads,       \* writers
  SectionsOf,    \* the sections each writer stores into
  DirectIds,     \* ids located through the dense arrays
  UpdateIds,     \* ids located through update_locations_
  SlotsPerPage,  \* vectorsPerPage_
  Capacities,    \* the values vec_file_capacity may have when the store is opened
  NoLoc,         \* an id without a location
  MaxPages,      \* bound: pages allocated
  MaxFailures    \* bound: stores of a session that fail with a slot taken

Ids == DirectIds \cup UpdateIds
Sections == UNION {SectionsOf[t] : t \in Threads}

ASSUME SlotsPerPageAssumption == SlotsPerPage \in Nat \ {0}
ASSUME CapacitiesAssumption == Capacities \subseteq Nat \ {0}
ASSUME DirectIdsAssumption == DirectIds \subseteq Nat
ASSUME SlotBoundsAssumption == MaxPages \in Nat /\ MaxFailures \in Nat
ASSUME NoLocAssumption == NoLoc \notin (Nat \ {0}) \X Nat

VARIABLES
  pages,     \* pages_: section and used slots of each page
  open,      \* openPages of each section
  free,      \* freeSlots of each section
  loc,       \* idToPage_/idToSlotInPage_ and update_locations_
  capacity,  \* totalVectors_
  arrays,    \* idToPage_.size()
  saved,     \* the checkpoint
  store,     \* each writer's storeEncoded call
  lost       \* history: stores of this session that failed

alloc == <<pages, open, free, loc, capacity, arrays, saved, store, lost>>

Slot == (Nat \ {0}) \X Nat
Idle == [pc |-> "idle"]
Busy(t) == store[t].pc # "idle"
Quiet == \A t \in Threads : ~Busy(t)

\* The writers that own a slot they have not published yet.
Holding(t) == store[t].pc \in {"publish", "write", "direct", "cached", "assign"}
SlotHeld(t) == <<store[t].page, store[t].slot>>

\* The capacity expandCapacityLocked reaches from n < min by doubling until
\* it suffices: one value.
Grown(n, min) == {c \in min..(2 * min - 1) : \E k \in 1..min : c = n * 2^k}

Page == [section : Sections, used : 1..SlotsPerPage]
Locations == [Ids -> Slot \cup {NoLoc}]
Looking == [pc : {"find", "fresh"}, id : Ids, section : Sections]
Placing == [pc : {"publish", "write", "direct", "cached", "assign"}, id : Ids,
            section : Sections, page : Nat \ {0}, slot : Nat]

AllocTypeOK ==
  /\ pages \in Seq(Page)
  /\ open \in [Sections -> SUBSET (Nat \ {0})]
  /\ free \in [Sections -> SUBSET Slot]
  /\ loc \in Locations
  /\ capacity \in Nat /\ arrays \in Nat /\ lost \in Nat
  /\ saved \in [pages : Seq(Page), loc : Locations, capacity : Nat, arrays : Nat]
  /\ store \in [Threads -> {Idle} \cup Looking \cup Placing]

AllocInit ==
  /\ pages = <<>>
  /\ open = [s \in Sections |-> {}]
  /\ free = [s \in Sections |-> {}]
  /\ loc = [i \in Ids |-> NoLoc]
  /\ capacity \in Capacities
  /\ arrays = capacity
  /\ saved = [pages |-> <<>>, loc |-> loc, capacity |-> capacity, arrays |-> arrays]
  /\ store = [t \in Threads |-> Idle]
  /\ lost = 0

-----------------------------------------------------------------------------
(* storeEncoded.                                                           *)

ExpandCapacity(min) ==
  /\ capacity' \in Grown(capacity, min)
  /\ arrays' = capacity'

\* The call for an id that has no location yet; the callers never store
\* the same id twice at a time.  An access past the end of the arrays is
\* undefined and goes no further: ArraysCoverCapacity says when there is none.
BeginStore(t, i, s) ==
  /\ ~Busy(t)
  /\ s \in SectionsOf[t]
  /\ loc[i] = NoLoc
  /\ \A u \in Threads : Busy(u) => store[u].id # i
  /\ \/ /\ i \in DirectIds /\ i >= capacity
        /\ ExpandCapacity(i + 1)
     \/ /\ i \in DirectIds => i < capacity /\ i < arrays
        /\ UNCHANGED <<capacity, arrays>>
  /\ store' = [store EXCEPT ![t] = [pc |-> "find", id |-> i, section |-> s]]
  /\ UNCHANGED <<pages, open, free, loc, saved, lost>>

Take(t, p, n, pc) ==
  store' = [store EXCEPT ![t] = [pc |-> pc, id |-> @.id, section |-> @.section,
                                 page |-> p, slot |-> n]]

\* Phase A: a slot that a reopen found unused.
TakeFree(t) ==
  LET s == store[t].section IN
  /\ store[t].pc = "find"
  /\ \E f \in free[s] :
       /\ free' = [free EXCEPT ![s] = @ \ {f}]
       /\ Take(t, f[1], f[2], "write")
  /\ UNCHANGED <<pages, open, loc, capacity, arrays, saved, lost>>

\* Mutant of TakeOpen: a full page stays open.
TakeOpenKeepFull(t) ==
  LET s == store[t].section IN
  /\ store[t].pc = "find"
  /\ free[s] = {}
  /\ \E p \in open[s] :
       /\ pages' = [pages EXCEPT ![p].used = @ + 1]
       /\ Take(t, p, pages[p].used, "write")
  /\ UNCHANGED <<open, free, loc, capacity, arrays, saved, lost>>

\* Phase A: the next slot of an open page, closed when that was its last.
TakeOpen(t) ==
  LET s == store[t].section IN
  /\ store[t].pc = "find"
  /\ free[s] = {}
  /\ \E p \in open[s] :
       /\ pages' = [pages EXCEPT ![p].used = @ + 1]
       /\ open' = IF pages[p].used + 1 < SlotsPerPage THEN open
                  ELSE [open EXCEPT ![s] = @ \ {p}]
       /\ Take(t, p, pages[p].used, "write")
  /\ UNCHANGED <<free, loc, capacity, arrays, saved, lost>>

\* Nothing to reuse: the shard's mutex is released before phase B.
FindNothing(t) ==
  LET s == store[t].section IN
  /\ store[t].pc = "find"
  /\ free[s] = {} /\ open[s] = {}
  /\ store' = [store EXCEPT ![t].pc = "fresh"]
  /\ UNCHANGED <<pages, open, free, loc, capacity, arrays, saved, lost>>

\* Phase B: a fresh page, whose first slot is the caller's.
FreshPage(t) ==
  /\ store[t].pc = "fresh"
  /\ Len(pages) < MaxPages
  /\ pages' = Append(pages, [section |-> store[t].section, used |-> 1])
  /\ Take(t, Len(pages) + 1, 0, "publish")
  /\ UNCHANGED <<open, free, loc, capacity, arrays, saved, lost>>

\* The fresh page becomes open to the section's other writers.
PublishPage(t) ==
  LET s == store[t].section IN
  /\ store[t].pc = "publish"
  /\ open' = IF SlotsPerPage > 1 THEN [open EXCEPT ![s] = @ \cup {store[t].page}] ELSE open
  /\ store' = [store EXCEPT ![t].pc = "write"]
  /\ UNCHANGED <<pages, free, loc, capacity, arrays, saved, lost>>

\* The record is written; see VectorPages for how.
WriteBytes(t) ==
  /\ store[t].pc = "write"
  /\ store' = [store EXCEPT ![t].pc = "assign"]
  /\ UNCHANGED <<pages, open, free, loc, capacity, arrays, saved, lost>>

\* writeRecord throws: the slot stays used but belongs to no id.
GiveUp(t) ==
  /\ lost < MaxFailures
  /\ lost' = lost + 1
  /\ store' = [store EXCEPT ![t] = Idle]
  /\ UNCHANGED <<pages, open, free, loc, capacity, arrays, saved>>

\* A page's first slot is always written through the section's buffer,
\* which does not fail.
WriteFails(t) ==
  /\ store[t].pc = "write"
  /\ store[t].slot # 0
  /\ GiveUp(t)

\* assign_location, last.
AssignLocation(t) ==
  /\ store[t].pc = "assign"
  /\ loc' = [loc EXCEPT ![store[t].id] = SlotHeld(t)]
  /\ store' = [store EXCEPT ![t] = Idle]
  /\ UNCHANGED <<pages, open, free, capacity, arrays, saved, lost>>

-----------------------------------------------------------------------------
(* Checkpoint and reopen.                                                  *)

\* serializeMetadata, under the exclusive write gate.
Save ==
  /\ Quiet
  /\ saved' = [pages |-> pages, loc |-> loc, capacity |-> capacity, arrays |-> arrays]
  /\ UNCHANGED <<pages, open, free, loc, capacity, arrays, store, lost>>

OpenPagesOf(s, pgs) == {p \in DOMAIN pgs : pgs[p].section = s /\ pgs[p].used < SlotsPerPage}

\* Mutant of Unlocated: locations of update ids are not looked at.
UnlocatedDirect(s, pgs, l) ==
  {f \in (DOMAIN pgs) \X (0..(SlotsPerPage - 1)) :
     pgs[f[1]].section = s /\ f[2] < pgs[f[1]].used /\ \A i \in DirectIds : l[i] # f}

\* Mutant of Unlocated: no slot is found free.
NothingUnlocated(s, pgs, l) == {}

\* The used slots that no id, direct or updated, is located in.
Unlocated(s, pgs, l) ==
  {f \in (DOMAIN pgs) \X (0..(SlotsPerPage - 1)) :
     pgs[f[1]].section = s /\ f[2] < pgs[f[1]].used /\ \A i \in Ids : l[i] # f}

\* A checkpoint whose arrays do not have its capacity is refused as corrupt.
CheckpointLoads == saved.arrays = saved.capacity

\* The process stops, in whatever state its writers are, and opens the
\* store again with capacity c: the tables come from the checkpoint, and
\* the dense arrays get the checkpoint's size.
Reopen(c) ==
  /\ CheckpointLoads
  /\ pages' = saved.pages
  /\ loc' = saved.loc
  /\ open' = [s \in Sections |-> OpenPagesOf(s, saved.pages)]
  /\ free' = [s \in Sections |-> Unlocated(s, saved.pages, saved.loc)]
  /\ capacity' \in IF saved.capacity > c THEN Grown(c, saved.capacity) ELSE {c}
  /\ arrays' = saved.capacity
  /\ store' = [t \in Threads |-> Idle]
  /\ lost' = 0
  /\ UNCHANGED saved

Store(t) == \/ \E i \in Ids, s \in SectionsOf[t] : BeginStore(t, i, s)
            \/ TakeFree(t) \/ TakeOpen(t) \/ FindNothing(t) \/ FreshPage(t)
            \/ PublishPage(t) \/ AssignLocation(t)

AllocNext == \/ \E t \in Threads : Store(t) \/ WriteBytes(t) \/ WriteFails(t)
             \/ Save
             \/ \E c \in Capacities : Reopen(c)

AllocSpec == AllocInit /\ [][AllocNext]_alloc

-----------------------------------------------------------------------------
(* Properties.                                                             *)

\* No slot is ever given to two vectors: two located ids, two writers that
\* hold a slot, a writer and a located id, or a free slot and either of
\* them, also across a restart.  Direct and update ids share the pages.
SlotsNotShared ==
  /\ \A i, j \in Ids : i # j /\ loc[i] # NoLoc => loc[i] # loc[j]
  /\ \A t, u \in Threads : t # u /\ Holding(t) /\ Holding(u) => SlotHeld(t) # SlotHeld(u)
  /\ \A t \in Threads, i \in Ids : Holding(t) => SlotHeld(t) # loc[i]
  /\ \A s \in Sections : \A f \in free[s] :
       /\ \A i \in Ids : loc[i] # f
       /\ \A t \in Threads : Holding(t) => SlotHeld(t) # f

\* An open page always has room: allocateSlotForSection's fallback for a
\* full one ("Defensive fallback (should not happen)") is never reached.
OpenPagesHaveRoom ==
  \A s \in Sections : \A p \in open[s] :
    p \in DOMAIN pages /\ pages[p].section = s /\ pages[p].used < SlotsPerPage

\* Every used slot is a vector's, a writer's or on a free list, but for
\* those of the stores that failed since the store was opened: a reopen
\* takes them back.
NoSlotLeaks ==
  LET used == {f \in (DOMAIN pages) \X (0..(SlotsPerPage - 1)) : f[2] < pages[f[1]].used}
      known == {loc[i] : i \in Ids} \cup {SlotHeld(t) : t \in {u \in Threads : Holding(u)}}
               \cup UNION {free[s] : s \in Sections}
  IN Cardinality(used \ known) <= lost

-----------------------------------------------------------------------------
(* What a comment says and the code does not do, once a store was opened   *)
(* with another capacity.                                                  *)

\* page_of reads idToPage_ without a lock for every id below the capacity:
\* "this is correct ONLY when idToPage_ never shrinks".
ArraysCoverCapacity == \A i \in DirectIds : i < capacity => i < arrays
=============================================================================
