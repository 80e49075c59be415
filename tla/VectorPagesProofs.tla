------------------------- MODULE VectorPagesProofs -------------------------
(***************************************************************************)
(* Proofs about SlotAllocator and, after them, about VectorPages, which    *)
(* extends it.                                                             *)
(*                                                                         *)
(* SlotAllocator: no slot is given to two vectors, and none leaks that no  *)
(* failed store accounts for, for any number of writers, sections, ids,    *)
(* slots per page and restarts.                                            *)
(*                                                                         *)
(* VectorPages: the caps of the write buffers and of the page cache hold,  *)
(* and a record that is published, or in a checkpoint, is lost by a failed *)
(* flush of its page, by the race for a fresh page, or by a load that      *)
(* overlapped a write, and by nothing else, for any number of threads,     *)
(* sections and pages.                                                     *)
(***************************************************************************)
EXTENDS VectorPages, FiniteSetTheorems, SequenceTheorems, TLAPS

(***************************************************************************)
(* The slots                                                               *)
(***************************************************************************)

Used(pgs, f) == f[1] \in DOMAIN pgs /\ f[2] < pgs[f[1]].used

\* Located slots, held slots and free slots all lie in the used part of a
\* page, a free one in a page of its section.
InUse ==
  /\ \A i \in Ids : loc[i] # NoLoc => Used(pages, loc[i])
  /\ \A t \in Threads : Holding(t) => Used(pages, SlotHeld(t))
  /\ \A s \in Sections : \A f \in free[s] : Used(pages, f) /\ pages[f[1]].section = s

\* A fresh page is its allocator's alone until it is published.
FreshPagesPrivate ==
  \A t \in Threads : store[t].pc = "publish" =>
    /\ store[t].slot = 0
    /\ pages[store[t].page] = [section |-> store[t].section, used |-> 1]
    /\ \A s \in Sections : store[t].page \notin open[s]

\* The checkpoint shares no slot either.
SavedSound ==
  /\ \A i \in Ids : saved.loc[i] # NoLoc => Used(saved.pages, saved.loc[i])
  /\ \A i, j \in Ids : i # j /\ saved.loc[i] # NoLoc => saved.loc[i] # saved.loc[j]

SlotInv ==
  /\ AllocTypeOK
  /\ InUse
  /\ FreshPagesPrivate
  /\ SavedSound
  /\ SlotsNotShared
  /\ OpenPagesHaveRoom

-----------------------------------------------------------------------------
\* Doubling a capacity gives a number.
LEMMA GrownIsNat == \A n, min \in Nat : Grown(n, min) \subseteq Nat
  BY DEF Grown

\* What a writer holds is a slot, and so is what a located id has and what
\* is on a free list.
LEMMA SlotTypes ==
  ASSUME AllocTypeOK
  PROVE  /\ \A t \in Threads : Holding(t) => SlotHeld(t) \in Slot
         /\ \A i \in Ids : loc[i] # NoLoc => loc[i] \in Slot
         /\ \A s \in Sections : free[s] \subseteq Slot
<1>1. \A t \in Threads : Holding(t) => SlotHeld(t) \in Slot
  <2> SUFFICES ASSUME NEW t \in Threads, Holding(t) PROVE SlotHeld(t) \in Slot
    OBVIOUS
  <2>1. store[t] \in Placing
    BY DEF AllocTypeOK, Holding, Idle, Looking, Placing
  <2> QED
    BY <2>1 DEF Placing, SlotHeld, Slot
<1> QED
  BY <1>1 DEF AllocTypeOK, Locations

\* The empty store satisfies the invariant.
LEMMA InitSound == AllocInit => SlotInv
<1> SUFFICES ASSUME AllocInit PROVE SlotInv
  OBVIOUS
<1>1. AllocTypeOK
  <2>1. capacity \in Nat /\ arrays = capacity
    BY CapacitiesAssumption DEF AllocInit
  <2>2. <<>> \in Seq(Page)
    OBVIOUS
  <2>3. loc \in Locations
    BY DEF AllocInit, Locations
  <2>4. saved \in [pages : Seq(Page), loc : Locations, capacity : Nat, arrays : Nat]
    BY <2>1, <2>2, <2>3 DEF AllocInit
  <2>5. store \in [Threads -> {Idle} \cup Looking \cup Placing]
    BY DEF AllocInit
  <2> QED
    BY <2>1, <2>2, <2>3, <2>4, <2>5 DEF AllocInit, AllocTypeOK
<1>2. InUse /\ FreshPagesPrivate /\ SavedSound
  BY DEF AllocInit, InUse, FreshPagesPrivate, SavedSound, Holding, Idle
<1>3. SlotsNotShared /\ OpenPagesHaveRoom
  BY DEF AllocInit, SlotsNotShared, OpenPagesHaveRoom, Holding, Idle
<1> QED
  BY <1>1, <1>2, <1>3 DEF SlotInv

\* A thread's new call holds no slot yet.
LEMMA BeginStoreSound ==
  ASSUME SlotInv, NEW t \in Threads, NEW i \in Ids, NEW s \in SectionsOf[t],
         BeginStore(t, i, s)
  PROVE  SlotInv'
<1>0. s \in Sections
  BY DEF Sections
<1>1. AllocTypeOK'
  <2>1. capacity' \in Nat /\ arrays' \in Nat
    <3>1. CASE i \in DirectIds /\ i >= capacity /\ ExpandCapacity(i + 1)
      BY <3>1, GrownIsNat, DirectIdsAssumption DEF SlotInv, AllocTypeOK, ExpandCapacity
    <3>2. CASE UNCHANGED <<capacity, arrays>>
      BY <3>2 DEF SlotInv, AllocTypeOK
    <3> QED
      BY <3>1, <3>2 DEF BeginStore
  <2>2. store' \in [Threads -> {Idle} \cup Looking \cup Placing]
    BY <1>0 DEF SlotInv, AllocTypeOK, BeginStore, Looking
  <2> QED
    BY <2>1, <2>2 DEF SlotInv, AllocTypeOK, BeginStore
<1>2. /\ ~Holding(t)' /\ store'[t].pc = "find"
      /\ \A u \in Threads \ {t} : store'[u] = store[u]
  BY DEF SlotInv, AllocTypeOK, BeginStore, Holding
<1>3. InUse'
  BY <1>2 DEF SlotInv, InUse, BeginStore, Holding, SlotHeld
<1>4. FreshPagesPrivate' /\ SavedSound'
  BY <1>2 DEF SlotInv, FreshPagesPrivate, SavedSound, BeginStore
<1>5. SlotsNotShared' /\ OpenPagesHaveRoom'
  BY <1>2 DEF SlotInv, SlotsNotShared, OpenPagesHaveRoom, BeginStore, Holding, SlotHeld
<1> QED
  BY <1>1, <1>3, <1>4, <1>5 DEF SlotInv

\* Where a writer is in allocateSlotForSection decides what it carries: a
\* section while it looks, a section and a slot once it has one.
LEMMA WriterShape ==
  ASSUME SlotInv, NEW t \in Threads
  PROVE  /\ store[t].pc \in {"find", "fresh"} =>
              store[t] \in Looking /\ store[t].section \in Sections
         /\ store[t].pc \in {"publish", "write", "assign"} =>
              store[t] \in Placing /\ store[t].section \in Sections
<1>1. store[t] \in {Idle} \cup Looking \cup Placing
  BY DEF SlotInv, AllocTypeOK
<1>2. CASE store[t] = Idle
  BY <1>2 DEF Idle
<1>3. CASE store[t] \in Looking
  BY <1>3 DEF Looking
<1>4. CASE store[t] \in Placing
  BY <1>4 DEF Placing
<1> QED
  BY <1>1, <1>2, <1>3, <1>4

\* A free slot leaves its list when a writer takes it.
LEMMA TakeFreeSound ==
  ASSUME SlotInv, NEW t \in Threads, TakeFree(t)
  PROVE  SlotInv'
<1> DEFINE s == store[t].section
<1>0. PICK f \in free[s] : free' = [free EXCEPT ![s] = @ \ {f}] /\ Take(t, f[1], f[2], "write")
  BY DEF TakeFree
<1>1. store[t] \in Looking /\ s \in Sections
  BY WriterShape DEF TakeFree
<1>2. f \in Slot /\ f = <<f[1], f[2]>>
  BY <1>1 DEF SlotInv, AllocTypeOK, Slot
<1>3. /\ store'[t] = [pc |-> "write", id |-> store[t].id, section |-> s,
                      page |-> f[1], slot |-> f[2]]
      /\ \A u \in Threads \ {t} : store'[u] = store[u]
  BY <1>0 DEF SlotInv, AllocTypeOK, Take
<1>4. Holding(t)' /\ SlotHeld(t)' = f
  BY <1>2, <1>3 DEF Holding, SlotHeld
<1>5. \A r \in Sections : free'[r] \subseteq free[r] /\ f \notin free'[r]
  BY <1>0, <1>1 DEF SlotInv, AllocTypeOK, InUse
<1>6. AllocTypeOK'
  <2>1. store'[t] \in Placing
    BY <1>1, <1>2, <1>3 DEF Looking, Placing, Slot
  <2>2. store' \in [Threads -> {Idle} \cup Looking \cup Placing]
    BY <2>1, <1>0 DEF SlotInv, AllocTypeOK, Take
  <2>3. free' \in [Sections -> SUBSET Slot]
    BY <1>0 DEF SlotInv, AllocTypeOK
  <2> QED
    BY <2>2, <2>3 DEF SlotInv, AllocTypeOK, TakeFree
<1>7. InUse'
  BY <1>0, <1>1, <1>3, <1>4, <1>5 DEF SlotInv, InUse, TakeFree, Holding, SlotHeld
<1>8. FreshPagesPrivate' /\ SavedSound'
  <2>1. UNCHANGED <<pages, open, saved>>
    BY DEF TakeFree
  <2> QED
    BY <1>3, <2>1 DEF SlotInv, FreshPagesPrivate, SavedSound
<1>9. SlotsNotShared'
  BY <1>0, <1>1, <1>3, <1>4, <1>5 DEF SlotInv, SlotsNotShared, TakeFree, Holding, SlotHeld
<1>10. OpenPagesHaveRoom'
  BY DEF SlotInv, OpenPagesHaveRoom, TakeFree
<1> QED
  BY <1>6, <1>7, <1>8, <1>9, <1>10 DEF SlotInv

\* The next slot of an open page lies beyond every used slot, and the page
\* stays open only while it has room.
LEMMA TakeOpenSound ==
  ASSUME SlotInv, NEW t \in Threads, TakeOpen(t)
  PROVE  SlotInv'
<1>1. store[t].pc = "find" /\ store[t] \in Looking /\ store[t].section \in Sections
  BY WriterShape DEF TakeOpen
<1> DEFINE s == store[t].section
<1>0. PICK p \in open[s] :
        /\ pages' = [pages EXCEPT ![p].used = @ + 1]
        /\ open' = IF pages[p].used + 1 < SlotsPerPage THEN open
                   ELSE [open EXCEPT ![s] = @ \ {p}]
        /\ Take(t, p, pages[p].used, "write")
  BY DEF TakeOpen
<1>a. p \in DOMAIN pages /\ p \in Nat \ {0} /\ pages[p] \in Page
       /\ pages[p].section = s /\ pages[p].used < SlotsPerPage
  BY <1>1 DEF SlotInv, AllocTypeOK, OpenPagesHaveRoom
<1>b. PICK n \in 1..SlotsPerPage : n = pages[p].used
  BY <1>a DEF Page
<1>2. /\ p \in DOMAIN pages /\ p \in Nat \ {0}
      /\ pages[p].section = s /\ n \in Nat /\ n < SlotsPerPage
  BY <1>a, <1>b, SlotsPerPageAssumption
<1>3. /\ store'[t] = [pc |-> "write", id |-> store[t].id, section |-> s, page |-> p, slot |-> n]
      /\ \A u \in Threads \ {t} : store'[u] = store[u]
  BY <1>0, <1>b DEF SlotInv, AllocTypeOK, Take
<1>4. Holding(t)' /\ SlotHeld(t)' = <<p, n>>
  BY <1>3 DEF Holding, SlotHeld
<1>5. /\ pages' \in Seq(Page) /\ DOMAIN pages' = DOMAIN pages
      /\ pages'[p] = [section |-> s, used |-> n + 1]
      /\ \A q \in DOMAIN pages \ {p} : pages'[q] = pages[q]
  <2>1. pages \in Seq(Page)
    BY DEF SlotInv, AllocTypeOK
  <2>2. [pages[p] EXCEPT !.used = n + 1] = [section |-> s, used |-> n + 1]
    BY <1>a DEF Page
  <2>3. [section |-> s, used |-> n + 1] \in Page
    BY <1>1, <1>2, SlotsPerPageAssumption DEF Page
  <2>4. pages' = [pages EXCEPT ![p] = [section |-> s, used |-> n + 1]]
    BY <1>0, <1>b, <2>2
  <2> QED
    BY <2>1, <2>3, <2>4, <1>2
<1>6. \A f \in Slot : Used(pages, f) => Used(pages, f)' /\ f # <<p, n>>
  <2> SUFFICES ASSUME NEW f \in Slot, Used(pages, f) PROVE Used(pages, f)' /\ f # <<p, n>>
    OBVIOUS
  <2>0. f[1] \in Nat /\ f[2] \in Nat
    BY DEF Slot
  <2>1. CASE f[1] = p
    <3>1. f[2] < n
      BY <2>1, <1>b DEF Used
    <3>2. f # <<p, n>>
      BY <3>1, <2>0, <1>2
    <3> QED
      BY <3>1, <3>2, <2>0, <2>1, <1>2, <1>5 DEF Used
  <2>2. CASE f[1] # p
    BY <2>2, <1>2, <1>5 DEF Used
  <2> QED
    BY <2>1, <2>2
<1>7. Used(pages, <<p, n>>)'
  BY <1>2, <1>5 DEF Used
<1>8. \A q \in DOMAIN pages : pages'[q].section = pages[q].section
  BY <1>2, <1>5
<1>9. UNCHANGED <<free, loc, capacity, arrays, saved, lost>>
  BY DEF TakeOpen
<1>10. AllocTypeOK'
  <2>1. store'[t] \in Placing
    BY <1>1, <1>2, <1>3 DEF Looking, Placing
  <2>2. store' \in [Threads -> {Idle} \cup Looking \cup Placing]
    BY <2>1, <1>0 DEF SlotInv, AllocTypeOK, Take
  <2>3. open' \in [Sections -> SUBSET (Nat \ {0})]
    BY <1>0 DEF SlotInv, AllocTypeOK
  <2> QED
    BY <2>2, <2>3, <1>5, <1>9 DEF SlotInv, AllocTypeOK
<1>11. InUse'
  <2>1. \A i \in Ids : loc'[i] # NoLoc => Used(pages, loc[i])'
    BY <1>6, <1>9, SlotTypes DEF SlotInv, InUse
  <2>2. \A u \in Threads : Holding(u)' => Used(pages, SlotHeld(u))'
    BY <1>3, <1>4, <1>6, <1>7, SlotTypes DEF SlotInv, InUse, Holding, SlotHeld
  <2>3. \A r \in Sections : \A f \in free'[r] : Used(pages, f)' /\ pages'[f[1]].section = r
    BY <1>6, <1>8, <1>9, SlotTypes DEF SlotInv, InUse, Used
  <2> QED
    BY <2>1, <2>2, <2>3, <1>9 DEF InUse
<1>12. FreshPagesPrivate'
  <2> SUFFICES ASSUME NEW u \in Threads, store'[u].pc = "publish"
               PROVE  /\ store'[u].slot = 0
                      /\ pages'[store'[u].page] = [section |-> store'[u].section, used |-> 1]
                      /\ \A r \in Sections : store'[u].page \notin open'[r]
    BY DEF FreshPagesPrivate
  <2>1. u # t /\ store'[u] = store[u]
    BY <1>3
  <2>2. Holding(u) /\ store[u].page \in DOMAIN pages /\ store[u].page # p
    BY <2>1, <1>1 DEF SlotInv, FreshPagesPrivate, InUse, Used, Holding, SlotHeld
  <2>3. \A r \in Sections : open'[r] \subseteq open[r]
    BY <1>0 DEF SlotInv, AllocTypeOK
  <2> QED
    BY <2>1, <2>2, <2>3, <1>5 DEF SlotInv, FreshPagesPrivate
<1>13. SavedSound'
  BY <1>9 DEF SlotInv, SavedSound
<1>14. SlotsNotShared'
  <2>1. \A i \in Ids : loc[i] # <<p, n>>
    <3> SUFFICES ASSUME NEW i \in Ids, loc[i] = <<p, n>> PROVE FALSE
      OBVIOUS
    <3>1. loc[i] # NoLoc
      BY <1>2, NoLocAssumption
    <3> QED
      BY <3>1, <1>6, SlotTypes DEF SlotInv, InUse
  <2>2. \A u \in Threads : Holding(u) => SlotHeld(u) # <<p, n>>
    BY <1>6, SlotTypes DEF SlotInv, InUse
  <2>3. \A r \in Sections : \A f \in free[r] : f # <<p, n>>
    BY <1>6, SlotTypes DEF SlotInv, InUse
  <2>4. \A u \in Threads \ {t} : Holding(u)' = Holding(u) /\ SlotHeld(u)' = SlotHeld(u)
    BY <1>3 DEF Holding, SlotHeld
  <2> QED
    BY <2>1, <2>2, <2>3, <2>4, <1>4, <1>9 DEF SlotInv, SlotsNotShared
<1>15. OpenPagesHaveRoom'
  <2> SUFFICES ASSUME NEW r \in Sections, NEW q \in open'[r]
               PROVE  q \in DOMAIN pages' /\ pages'[q].section = r /\ pages'[q].used < SlotsPerPage
    BY DEF OpenPagesHaveRoom
  <2>1. q \in open[r] /\ (q = p /\ r = s => n + 1 < SlotsPerPage)
    <3>1. open \in [Sections -> SUBSET (Nat \ {0})]
      BY DEF SlotInv, AllocTypeOK
    <3>2. CASE n + 1 < SlotsPerPage
      BY <3>2, <1>0, <1>b
    <3>3. CASE ~(n + 1 < SlotsPerPage)
      BY <3>1, <3>3, <1>0, <1>1, <1>b
    <3> QED
      BY <3>2, <3>3
  <2>2. q \in DOMAIN pages /\ pages[q].section = r /\ pages[q].used < SlotsPerPage
    BY <2>1 DEF SlotInv, OpenPagesHaveRoom
  <2> QED
    BY <2>1, <2>2, <1>2, <1>5
<1> QED
  BY <1>10, <1>11, <1>12, <1>13, <1>14, <1>15 DEF SlotInv

\* Giving up phase A changes nothing but the writer's place in the code.
LEMMA FindNothingSound ==
  ASSUME SlotInv, NEW t \in Threads, FindNothing(t)
  PROVE  SlotInv'
<1>1. store[t] \in Looking
  BY WriterShape DEF FindNothing
<1>2. /\ store'[t] = [pc |-> "fresh", id |-> store[t].id, section |-> store[t].section]
      /\ \A u \in Threads \ {t} : store'[u] = store[u]
  BY <1>1 DEF SlotInv, AllocTypeOK, FindNothing, Looking
<1>3. UNCHANGED <<pages, open, free, loc, capacity, arrays, saved, lost>>
  BY DEF FindNothing
<1>4. AllocTypeOK'
  <2>1. store'[t] \in Looking
    BY <1>1, <1>2 DEF Looking
  <2>2. store' \in [Threads -> {Idle} \cup Looking \cup Placing]
    BY <2>1 DEF SlotInv, AllocTypeOK, FindNothing
  <2> QED
    BY <2>2, <1>3 DEF SlotInv, AllocTypeOK
<1>5. InUse'
  BY <1>2, <1>3 DEF SlotInv, InUse, Holding, SlotHeld
<1>6. FreshPagesPrivate' /\ SavedSound'
  BY <1>2, <1>3 DEF SlotInv, FreshPagesPrivate, SavedSound
<1>7. SlotsNotShared' /\ OpenPagesHaveRoom'
  BY <1>2, <1>3 DEF SlotInv, SlotsNotShared, OpenPagesHaveRoom, Holding, SlotHeld
<1> QED
  BY <1>4, <1>5, <1>6, <1>7 DEF SlotInv

\* A fresh page holds no slot of anyone else.
LEMMA FreshPageSound ==
  ASSUME SlotInv, NEW t \in Threads, FreshPage(t)
  PROVE  SlotInv'
<1>1. store[t].pc = "fresh" /\ store[t] \in Looking /\ store[t].section \in Sections
  BY WriterShape DEF FreshPage
<1> DEFINE s == store[t].section
<1>2. PICK p \in Nat \ {0} : p = Len(pages) + 1
  BY DEF SlotInv, AllocTypeOK
<1>3. /\ store'[t] = [pc |-> "publish", id |-> store[t].id, section |-> s, page |-> p, slot |-> 0]
      /\ \A u \in Threads \ {t} : store'[u] = store[u]
  BY <1>2 DEF SlotInv, AllocTypeOK, FreshPage, Take
<1>4. Holding(t)' /\ SlotHeld(t)' = <<p, 0>>
  BY <1>3 DEF Holding, SlotHeld
<1>5. /\ pages' \in Seq(Page) /\ DOMAIN pages' = DOMAIN pages \cup {p} /\ p \notin DOMAIN pages
      /\ pages'[p] = [section |-> s, used |-> 1]
      /\ \A q \in DOMAIN pages : pages'[q] = pages[q]
  <2>1. pages \in Seq(Page) /\ [section |-> s, used |-> 1] \in Page
    BY <1>1, SlotsPerPageAssumption DEF SlotInv, AllocTypeOK, Page
  <2>2. pages' = Append(pages, [section |-> s, used |-> 1])
    BY DEF FreshPage
  <2> QED
    BY <2>1, <2>2, <1>2
<1>6. \A f : Used(pages, f) => Used(pages, f)' /\ f # <<p, 0>>
  BY <1>5 DEF Used
<1>7. Used(pages, <<p, 0>>)'
  BY <1>5 DEF Used
<1>8. UNCHANGED <<open, free, loc, capacity, arrays, saved, lost>>
  BY DEF FreshPage
<1>9. \A u \in Threads \ {t} : Holding(u)' = Holding(u) /\ SlotHeld(u)' = SlotHeld(u)
  BY <1>3 DEF Holding, SlotHeld
<1>10. AllocTypeOK'
  <2>1. store'[t] \in Placing
    BY <1>1, <1>2, <1>3 DEF Looking, Placing
  <2>2. store' \in [Threads -> {Idle} \cup Looking \cup Placing]
    BY <2>1 DEF SlotInv, AllocTypeOK, FreshPage, Take
  <2> QED
    BY <2>2, <1>5, <1>8 DEF SlotInv, AllocTypeOK
<1>11. InUse'
  <2>1. \A i \in Ids : loc'[i] # NoLoc => Used(pages, loc[i])'
    BY <1>6, <1>8 DEF SlotInv, InUse
  <2>2. \A u \in Threads : Holding(u)' => Used(pages, SlotHeld(u))'
    BY <1>4, <1>6, <1>7, <1>9 DEF SlotInv, InUse
  <2>3. \A r \in Sections : \A f \in free'[r] : Used(pages, f)' /\ pages'[f[1]].section = r
    BY <1>5, <1>6, <1>8 DEF SlotInv, InUse, Used
  <2> QED
    BY <2>1, <2>2, <2>3 DEF InUse
<1>12. FreshPagesPrivate'
  <2> SUFFICES ASSUME NEW u \in Threads, store'[u].pc = "publish"
               PROVE  /\ store'[u].slot = 0
                      /\ pages'[store'[u].page] = [section |-> store'[u].section, used |-> 1]
                      /\ \A r \in Sections : store'[u].page \notin open'[r]
    BY DEF FreshPagesPrivate
  <2>1. CASE u = t
    BY <2>1, <1>3, <1>5, <1>8 DEF SlotInv, OpenPagesHaveRoom
  <2>2. CASE u # t
    <3>1. store'[u] = store[u] /\ Holding(u)
      BY <2>2, <1>3 DEF Holding
    <3>2. store[u].page \in DOMAIN pages
      BY <3>1 DEF SlotInv, InUse, Used, SlotHeld
    <3>3. pages'[store[u].page] = pages[store[u].page]
      BY <3>2, <1>5
    <3>4. /\ store[u].slot = 0
          /\ pages[store[u].page] = [section |-> store[u].section, used |-> 1]
          /\ \A r \in Sections : store[u].page \notin open[r]
      BY <3>1 DEF SlotInv, FreshPagesPrivate
    <3> QED
      BY <3>1, <3>3, <3>4, <1>8
  <2> QED
    BY <2>1, <2>2
<1>13. SavedSound'
  BY <1>8 DEF SlotInv, SavedSound
<1>14. SlotsNotShared'
  <2>1. \A i \in Ids : loc[i] # <<p, 0>>
    <3> SUFFICES ASSUME NEW i \in Ids, loc[i] = <<p, 0>> PROVE FALSE
      OBVIOUS
    <3>1. loc[i] # NoLoc
      BY <1>2, NoLocAssumption
    <3> QED
      BY <3>1, <1>6 DEF SlotInv, InUse
  <2>2. \A u \in Threads : Holding(u) => SlotHeld(u) # <<p, 0>>
    BY <1>6 DEF SlotInv, InUse
  <2>3. \A r \in Sections : \A f \in free[r] : f # <<p, 0>>
    BY <1>6 DEF SlotInv, InUse
  <2> QED
    BY <2>1, <2>2, <2>3, <1>4, <1>8, <1>9 DEF SlotInv, SlotsNotShared
<1>15. OpenPagesHaveRoom'
  BY <1>5, <1>8 DEF SlotInv, OpenPagesHaveRoom
<1> QED
  BY <1>10, <1>11, <1>12, <1>13, <1>14, <1>15 DEF SlotInv

\* A page that is published still has all its slots but the first.
LEMMA PublishPageSound ==
  ASSUME SlotInv, NEW t \in Threads, PublishPage(t)
  PROVE  SlotInv'
<1>1. store[t].pc = "publish" /\ store[t] \in Placing /\ store[t].section \in Sections
  BY WriterShape DEF PublishPage
<1>2. UNCHANGED <<pages, free, loc, capacity, arrays, saved, lost>>
  BY DEF PublishPage
<1>3. /\ store'[t] = [store[t] EXCEPT !.pc = "write"]
      /\ \A u \in Threads \ {t} : store'[u] = store[u]
  BY DEF SlotInv, AllocTypeOK, PublishPage
<1>4. store'[t] \in Placing /\ store'[t].pc = "write"
  BY <1>1, <1>3 DEF Placing
<1>5. \A u \in Threads : Holding(u)' = Holding(u) /\ SlotHeld(u)' = SlotHeld(u)
  BY <1>1, <1>3 DEF Holding, SlotHeld, Placing
<1>6. /\ open \in [Sections -> SUBSET (Nat \ {0})]
      /\ open' \in [Sections -> SUBSET (Nat \ {0})]
      /\ \A r \in Sections : open'[r] \subseteq open[r] \cup {store[t].page}
      /\ \A r \in Sections \ {store[t].section} : open'[r] = open[r]
      /\ SlotsPerPage > 1 \/ open' = open
  BY <1>1 DEF SlotInv, AllocTypeOK, PublishPage, Placing
<1>7. AllocTypeOK'
  <2>1. store' \in [Threads -> {Idle} \cup Looking \cup Placing]
    BY <1>4 DEF SlotInv, AllocTypeOK, PublishPage
  <2> QED
    BY <2>1, <1>2, <1>6 DEF SlotInv, AllocTypeOK
<1>8. InUse' /\ SlotsNotShared'
  BY <1>2, <1>5 DEF SlotInv, InUse, SlotsNotShared
<1>9. FreshPagesPrivate'
  <2> SUFFICES ASSUME NEW u \in Threads, store'[u].pc = "publish"
               PROVE  /\ store'[u].slot = 0
                      /\ pages'[store'[u].page] = [section |-> store'[u].section, used |-> 1]
                      /\ \A r \in Sections : store'[u].page \notin open'[r]
    BY DEF FreshPagesPrivate
  <2>1. u # t /\ store'[u] = store[u]
    BY <1>3, <1>4
  <2>2. store[u].page # store[t].page
    BY <2>1, <1>1 DEF SlotInv, FreshPagesPrivate, SlotsNotShared, Holding, SlotHeld
  <2> QED
    BY <2>1, <2>2, <1>2, <1>6 DEF SlotInv, FreshPagesPrivate
<1>10. SavedSound'
  BY <1>2 DEF SlotInv, SavedSound
<1>11. OpenPagesHaveRoom'
  <2> SUFFICES ASSUME NEW r \in Sections, NEW q \in open'[r]
               PROVE  q \in DOMAIN pages' /\ pages'[q].section = r /\ pages'[q].used < SlotsPerPage
    BY DEF OpenPagesHaveRoom
  <2>1. CASE q \in open[r]
    BY <2>1, <1>2 DEF SlotInv, OpenPagesHaveRoom
  <2>2. CASE q \notin open[r]
    <3>1. q = store[t].page /\ r = store[t].section /\ SlotsPerPage > 1
      BY <2>2, <1>6
    <3>2. q \in DOMAIN pages /\ pages[q] = [section |-> r, used |-> 1]
      BY <3>1, <1>1 DEF SlotInv, FreshPagesPrivate, InUse, Used, Holding, SlotHeld
    <3> QED
      BY <3>1, <3>2, <1>2
  <2> QED
    BY <2>1, <2>2
<1> QED
  BY <1>7, <1>8, <1>9, <1>10, <1>11 DEF SlotInv

\* Writing the record, which leaves the writer the slot it has.
LEMMA WriteBytesSound ==
  ASSUME SlotInv, NEW t \in Threads, WriteBytes(t)
  PROVE  SlotInv'
<1>1. store[t].pc = "write" /\ store[t] \in Placing
  BY WriterShape DEF WriteBytes
<1>2. UNCHANGED <<pages, open, free, loc, capacity, arrays, saved, lost>>
  BY DEF WriteBytes
<1>3. /\ store'[t] = [store[t] EXCEPT !.pc = "assign"]
      /\ \A u \in Threads \ {t} : store'[u] = store[u]
  BY DEF SlotInv, AllocTypeOK, WriteBytes
<1>4. store'[t] \in Placing /\ store'[t].pc = "assign"
  BY <1>1, <1>3 DEF Placing
<1>5. \A u \in Threads : Holding(u)' = Holding(u) /\ SlotHeld(u)' = SlotHeld(u)
  BY <1>1, <1>3 DEF Holding, SlotHeld, Placing
<1>6. AllocTypeOK'
  <2>1. store' \in [Threads -> {Idle} \cup Looking \cup Placing]
    BY <1>4 DEF SlotInv, AllocTypeOK, WriteBytes
  <2> QED
    BY <2>1, <1>2 DEF SlotInv, AllocTypeOK
<1>7. InUse' /\ SlotsNotShared'
  BY <1>2, <1>5 DEF SlotInv, InUse, SlotsNotShared
<1>8. FreshPagesPrivate'
  BY <1>2, <1>3, <1>4 DEF SlotInv, FreshPagesPrivate
<1>9. SavedSound' /\ OpenPagesHaveRoom'
  BY <1>2 DEF SlotInv, SavedSound, OpenPagesHaveRoom
<1> QED
  BY <1>6, <1>7, <1>8, <1>9 DEF SlotInv

\* A store that fails drops its slot for good.
LEMMA GiveUpSound ==
  ASSUME SlotInv, NEW t \in Threads, GiveUp(t)
  PROVE  SlotInv'
<1>1. UNCHANGED <<pages, open, free, loc, capacity, arrays, saved>> /\ lost' = lost + 1
  BY DEF GiveUp
<1>2. store'[t] = Idle /\ \A u \in Threads \ {t} : store'[u] = store[u]
  BY DEF SlotInv, AllocTypeOK, GiveUp
<1>3. /\ ~Holding(t)' /\ store'[t].pc # "publish"
      /\ \A u \in Threads \ {t} : Holding(u)' = Holding(u) /\ SlotHeld(u)' = SlotHeld(u)
  BY <1>2 DEF Holding, SlotHeld, Idle
<1>4. AllocTypeOK'
  BY <1>1 DEF SlotInv, AllocTypeOK, GiveUp
<1>5. InUse' /\ SlotsNotShared'
  BY <1>1, <1>3 DEF SlotInv, InUse, SlotsNotShared
<1>6. FreshPagesPrivate'
  BY <1>1, <1>2, <1>3 DEF SlotInv, FreshPagesPrivate
<1>7. SavedSound' /\ OpenPagesHaveRoom'
  BY <1>1 DEF SlotInv, SavedSound, OpenPagesHaveRoom
<1> QED
  BY <1>4, <1>5, <1>6, <1>7 DEF SlotInv

\* The slot passes from the writer to the id.
LEMMA AssignLocationSound ==
  ASSUME SlotInv, NEW t \in Threads, AssignLocation(t)
  PROVE  SlotInv'
<1>1. store[t].pc = "assign" /\ store[t] \in Placing
  BY WriterShape DEF AssignLocation
<1>2. PICK f \in Slot : f = SlotHeld(t)
  BY <1>1, SlotTypes DEF SlotInv, Holding
<1>3. UNCHANGED <<pages, open, free, capacity, arrays, saved, lost>>
  BY DEF AssignLocation
<1>4. PICK i \in Ids : i = store[t].id
  BY <1>1 DEF Placing
<1>5. /\ loc \in Locations /\ loc' \in Locations
      /\ loc'[i] = f /\ \A j \in Ids \ {i} : loc'[j] = loc[j]
  BY <1>2, <1>4 DEF SlotInv, AllocTypeOK, AssignLocation, Locations
<1>6. store'[t] = Idle /\ \A u \in Threads \ {t} : store'[u] = store[u]
  BY DEF SlotInv, AllocTypeOK, AssignLocation
<1>7. /\ ~Holding(t)' /\ store'[t].pc # "publish"
      /\ \A u \in Threads \ {t} : Holding(u)' = Holding(u) /\ SlotHeld(u)' = SlotHeld(u)
  BY <1>6 DEF Holding, SlotHeld, Idle
<1>8. Holding(t)
  BY <1>1 DEF Holding
<1>9. AllocTypeOK'
  <2>1. store' \in [Threads -> {Idle} \cup Looking \cup Placing]
    BY DEF SlotInv, AllocTypeOK, AssignLocation
  <2> QED
    BY <2>1, <1>3, <1>5 DEF SlotInv, AllocTypeOK
<1>10. InUse'
  <2>1. \A j \in Ids : loc'[j] # NoLoc => Used(pages', loc'[j])
    BY <1>2, <1>3, <1>5, <1>8 DEF SlotInv, InUse
  <2>2. \A u \in Threads : Holding(u)' => Used(pages', SlotHeld(u)')
    BY <1>3, <1>7 DEF SlotInv, InUse
  <2>3. \A r \in Sections : \A g \in free'[r] : Used(pages', g) /\ pages'[g[1]].section = r
    BY <1>3 DEF SlotInv, InUse
  <2> QED
    BY <2>1, <2>2, <2>3 DEF InUse
<1>11. FreshPagesPrivate'
  BY <1>3, <1>6, <1>7 DEF SlotInv, FreshPagesPrivate
<1>12. SlotsNotShared'
  <2>1. /\ \A j \in Ids : loc[j] # f
        /\ \A u \in Threads \ {t} : Holding(u) => SlotHeld(u) # f
        /\ \A r \in Sections : f \notin free[r]
    BY <1>2, <1>8 DEF SlotInv, SlotsNotShared
  <2> QED
    BY <2>1, <1>3, <1>5, <1>7 DEF SlotInv, SlotsNotShared
<1>13. SavedSound' /\ OpenPagesHaveRoom'
  BY <1>3 DEF SlotInv, SavedSound, OpenPagesHaveRoom
<1> QED
  BY <1>9, <1>10, <1>11, <1>12, <1>13 DEF SlotInv

\* A checkpoint copies tables that share no slot.
LEMMA SaveSound ==
  ASSUME SlotInv, Save
  PROVE  SlotInv'
<1>1. UNCHANGED <<pages, open, free, loc, capacity, arrays, store, lost>>
  BY DEF Save
<1>2. saved' = [pages |-> pages, loc |-> loc, capacity |-> capacity, arrays |-> arrays]
  BY DEF Save
<1>3. AllocTypeOK'
  BY <1>1, <1>2 DEF SlotInv, AllocTypeOK
<1>4. InUse' /\ FreshPagesPrivate'
  BY <1>1 DEF SlotInv, InUse, FreshPagesPrivate, Holding, SlotHeld
<1>5. SavedSound'
  BY <1>2 DEF SlotInv, SavedSound, SlotsNotShared, InUse
<1>6. SlotsNotShared' /\ OpenPagesHaveRoom'
  BY <1>1 DEF SlotInv, SlotsNotShared, OpenPagesHaveRoom, Holding, SlotHeld
<1> QED
  BY <1>3, <1>4, <1>5, <1>6 DEF SlotInv

\* A reopen puts on the free lists only used slots that nobody has.
LEMMA ReopenSound ==
  ASSUME SlotInv, NEW c \in Capacities, Reopen(c)
  PROVE  SlotInv'
<1>1. /\ pages' = saved.pages /\ loc' = saved.loc /\ saved' = saved
      /\ arrays' = saved.capacity /\ lost' = 0
      /\ open' = [s \in Sections |-> OpenPagesOf(s, pages')]
      /\ free' = [s \in Sections |-> Unlocated(s, pages', loc')]
      /\ store' = [t \in Threads |-> Idle]
  BY DEF Reopen
<1>2. /\ saved.pages \in Seq(Page) /\ saved.loc \in Locations
      /\ saved.capacity \in Nat /\ saved.arrays \in Nat
  BY DEF SlotInv, AllocTypeOK
<1>3. \A t \in Threads : ~Holding(t)' /\ store'[t].pc # "publish"
  BY <1>1 DEF Holding, Idle
<1>4. \A s \in Sections : \A f \in free'[s] :
        /\ f \in Slot /\ Used(pages, f)' /\ pages'[f[1]].section = s
        /\ \A i \in Ids : loc'[i] # f
  BY <1>1, <1>2, SlotsPerPageAssumption DEF Unlocated, Used, Slot
<1>5. AllocTypeOK'
  <2>1. capacity' \in Nat
    <3>1. CASE saved.capacity > c
      BY <3>1, <1>2, GrownIsNat, CapacitiesAssumption DEF Reopen
    <3>2. CASE ~(saved.capacity > c)
      BY <3>2, CapacitiesAssumption DEF Reopen
    <3> QED
      BY <3>1, <3>2
  <2>2. open' \in [Sections -> SUBSET (Nat \ {0})]
    BY <1>1, <1>2 DEF OpenPagesOf
  <2>3. free' \in [Sections -> SUBSET Slot]
    BY <1>1, <1>4
  <2> QED
    BY <2>1, <2>2, <2>3, <1>1, <1>2 DEF SlotInv, AllocTypeOK
<1>6. InUse'
  <2>1. \A i \in Ids : loc'[i] # NoLoc => Used(pages', loc'[i])
    BY <1>1 DEF SlotInv, SavedSound
  <2> QED
    BY <2>1, <1>3, <1>4 DEF InUse
<1>7. FreshPagesPrivate' /\ SavedSound'
  BY <1>1, <1>3 DEF SlotInv, FreshPagesPrivate, SavedSound
<1>8. SlotsNotShared'
  BY <1>1, <1>3, <1>4 DEF SlotInv, SlotsNotShared, SavedSound
<1>9. OpenPagesHaveRoom'
  BY <1>1 DEF OpenPagesHaveRoom, OpenPagesOf
<1> QED
  BY <1>5, <1>6, <1>7, <1>8, <1>9 DEF SlotInv

-----------------------------------------------------------------------------
\* SlotInv is inductive.
LEMMA SlotNext ==
  ASSUME SlotInv, [AllocNext]_alloc
  PROVE  SlotInv'
<1>1. CASE UNCHANGED alloc
  <2>1. UNCHANGED <<pages, open, free, loc, capacity, arrays, saved, store, lost>>
    BY <1>1 DEF alloc
  <2>2. AllocTypeOK' /\ InUse' /\ FreshPagesPrivate' /\ SavedSound'
    BY <2>1 DEF SlotInv, AllocTypeOK, InUse, FreshPagesPrivate, SavedSound, Holding, SlotHeld
  <2>3. SlotsNotShared' /\ OpenPagesHaveRoom'
    BY <2>1 DEF SlotInv, SlotsNotShared, OpenPagesHaveRoom, Holding, SlotHeld
  <2> QED
    BY <2>2, <2>3 DEF SlotInv
<1>2. ASSUME NEW t \in Threads, Store(t) PROVE SlotInv'
  <2>1. ASSUME NEW i \in Ids, NEW s \in SectionsOf[t], BeginStore(t, i, s) PROVE SlotInv'
    BY <2>1, BeginStoreSound
  <2>2. CASE TakeFree(t)
    BY <2>2, TakeFreeSound
  <2>3. CASE TakeOpen(t)
    BY <2>3, TakeOpenSound
  <2>4. CASE FindNothing(t)
    BY <2>4, FindNothingSound
  <2>5. CASE FreshPage(t)
    BY <2>5, FreshPageSound
  <2>6. CASE PublishPage(t)
    BY <2>6, PublishPageSound
  <2>7. CASE AssignLocation(t)
    BY <2>7, AssignLocationSound
  <2> QED
    BY <1>2, <2>1, <2>2, <2>3, <2>4, <2>5, <2>6, <2>7 DEF Store
<1>3. ASSUME NEW t \in Threads, WriteBytes(t) PROVE SlotInv'
  BY <1>3, WriteBytesSound
<1>4. ASSUME NEW t \in Threads, WriteFails(t) PROVE SlotInv'
  BY <1>4, GiveUpSound DEF WriteFails
<1>5. CASE Save
  BY <1>5, SaveSound
<1>6. ASSUME NEW c \in Capacities, Reopen(c) PROVE SlotInv'
  BY <1>6, ReopenSound
<1> QED
  BY <1>1, <1>2, <1>3, <1>4, <1>5, <1>6 DEF AllocNext

\* SlotInv is an inductive invariant of the allocator.
THEOREM SlotInvariant == AllocSpec => []SlotInv
<1>1. SlotInv /\ [AllocNext]_alloc => SlotInv'
  BY SlotNext
<1> QED
  BY <1>1, InitSound, PTL DEF AllocSpec

\* No slot is ever given to two vectors, a vector and a writer, or handed
\* out while it is on a free list: across concurrent allocateSlotForSection
\* calls, failed writes, checkpoints and reopens.
THEOREM NoSlotShared == AllocSpec => []SlotsNotShared
<1>1. SlotInv => SlotsNotShared
  BY DEF SlotInv
<1> QED
  BY <1>1, SlotInvariant, PTL

\* allocateSlotForSection's "should not happen" branch for a full open page
\* is dead code.
THEOREM OpenPagesAreOpen == AllocSpec => []OpenPagesHaveRoom
<1>1. SlotInv => OpenPagesHaveRoom
  BY DEF SlotInv
<1> QED
  BY <1>1, SlotInvariant, PTL

-----------------------------------------------------------------------------
(* What failed stores cost.  A used slot is located, held or free but for  *)
(* those of the stores that failed: a step moves a slot from one owner to  *)
(* the next and only a failing store drops one.  That assign_location does *)
(* not orphan an id's former slot rests on the callers' never storing an   *)
(* id that has one, and never one id twice at a time (OwnIds).             *)

OwnIds ==
  /\ \A t \in Threads : Busy(t) => loc[store[t].id] = NoLoc
  /\ \A t, u \in Threads : t # u /\ Busy(t) /\ Busy(u) => store[t].id # store[u].id

UsedSlots == {f \in (DOMAIN pages) \X (0..(SlotsPerPage - 1)) : f[2] < pages[f[1]].used}
Known(f) ==
  \/ \E i \in Ids : loc[i] = f
  \/ \E t \in Threads : Holding(t) /\ SlotHeld(t) = f
  \/ \E s \in Sections : f \in free[s]
Leaked == {f \in UsedSlots : ~Known(f)}

LeakInv == OwnIds /\ IsFiniteSet(Leaked) /\ Cardinality(Leaked) <= lost

LEMMA LeakInit == AllocInit => LeakInv
<1> SUFFICES ASSUME AllocInit PROVE LeakInv
  OBVIOUS
<1>1. OwnIds
  BY DEF AllocInit, OwnIds, Busy, Idle
<1>2. Leaked = {} /\ lost = 0
  BY DEF AllocInit, Leaked, UsedSlots
<1> QED
  BY <1>1, <1>2, FS_EmptySet DEF LeakInv

\* A step that leaves no further slot without an owner.
LEMMA NoneLeaked ==
  ASSUME SlotInv, LeakInv, Leaked' \subseteq Leaked, lost' = lost, OwnIds'
  PROVE  LeakInv'
<1>1. IsFiniteSet(Leaked') /\ Cardinality(Leaked') <= Cardinality(Leaked)
  BY FS_Subset DEF LeakInv
<1>2. Cardinality(Leaked) \in Nat /\ Cardinality(Leaked') \in Nat /\ lost \in Nat
  BY <1>1, FS_CardinalityType DEF LeakInv, SlotInv, AllocTypeOK
<1> QED
  BY <1>1, <1>2 DEF LeakInv

\* A step that only changes where a writer is: it owns what it owned.
LEMMA LeakMove ==
  ASSUME SlotInv, LeakInv, NEW t \in Threads,
         UNCHANGED <<pages, free, loc, lost>>,
         Busy(t), store'[t].id = store[t].id,
         \A u \in Threads \ {t} : store'[u] = store[u],
         Holding(t) => Holding(t)' /\ SlotHeld(t)' = SlotHeld(t)
  PROVE  LeakInv'
<1>1. OwnIds'
  BY DEF LeakInv, OwnIds, Busy
<1>2. \A u \in Threads : Holding(u) => Holding(u)' /\ SlotHeld(u)' = SlotHeld(u)
  BY DEF Holding, SlotHeld
<1>3. \A f : Known(f) => Known(f)'
  BY <1>2 DEF Known
<1>4. Leaked' \subseteq Leaked
  BY <1>3 DEF Leaked, UsedSlots
<1> QED
  BY <1>1, <1>4, NoneLeaked

LEMMA LeakBegin ==
  ASSUME SlotInv, LeakInv, NEW t \in Threads, NEW i \in Ids, NEW s \in SectionsOf[t],
         BeginStore(t, i, s)
  PROVE  LeakInv'
<1>1. /\ store'[t] = [pc |-> "find", id |-> i, section |-> s]
      /\ \A u \in Threads \ {t} : store'[u] = store[u]
      /\ UNCHANGED <<pages, free, loc, lost>> /\ ~Busy(t) /\ loc[i] = NoLoc
      /\ \A u \in Threads : Busy(u) => store[u].id # i
  BY DEF BeginStore, SlotInv, AllocTypeOK
<1>2. OwnIds'
  BY <1>1 DEF LeakInv, OwnIds, Busy
<1>3. \A u \in Threads : Holding(u) => Holding(u)' /\ SlotHeld(u)' = SlotHeld(u)
  BY <1>1 DEF Holding, SlotHeld, Busy
<1>4. \A f : Known(f) => Known(f)'
  BY <1>1, <1>3 DEF Known
<1>5. Leaked' \subseteq Leaked
  BY <1>1, <1>4 DEF Leaked, UsedSlots
<1> QED
  BY <1>1, <1>2, <1>5, NoneLeaked

\* The slot a writer takes becomes its own.
LEMMA LeakTakeFree ==
  ASSUME SlotInv, LeakInv, NEW t \in Threads, TakeFree(t)
  PROVE  LeakInv'
<1> DEFINE s == store[t].section
<1>1. PICK f \in free[s] : free' = [free EXCEPT ![s] = @ \ {f}] /\ Take(t, f[1], f[2], "write")
  BY DEF TakeFree
<1>2. store[t] \in Looking /\ s \in Sections /\ store[t].pc = "find"
  BY WriterShape DEF TakeFree
<1>3. f \in Slot /\ f = <<f[1], f[2]>>
  BY <1>2 DEF SlotInv, AllocTypeOK, Slot
<1>4. /\ store'[t] = [pc |-> "write", id |-> store[t].id, section |-> s,
                      page |-> f[1], slot |-> f[2]]
      /\ \A u \in Threads \ {t} : store'[u] = store[u]
      /\ UNCHANGED <<pages, loc, lost>>
  BY <1>1 DEF SlotInv, AllocTypeOK, Take, TakeFree
<1>5. Holding(t)' /\ SlotHeld(t)' = f /\ ~Holding(t) /\ Busy(t)
  BY <1>2, <1>3, <1>4 DEF Holding, SlotHeld, Busy
<1>6. OwnIds'
  BY <1>4, <1>5 DEF LeakInv, OwnIds, Busy
<1>7. \A u \in Threads : Holding(u) => Holding(u)' /\ SlotHeld(u)' = SlotHeld(u)
  BY <1>4, <1>5 DEF Holding, SlotHeld
<1>8. \A r \in Sections : \A g \in free[r] : g = f \/ g \in free'[r]
  BY <1>1, <1>2 DEF SlotInv, AllocTypeOK
<1>9. \A g : Known(g) => Known(g)'
  BY <1>4, <1>5, <1>7, <1>8 DEF Known
<1>10. Leaked' \subseteq Leaked
  BY <1>4, <1>9 DEF Leaked, UsedSlots
<1> QED
  BY <1>4, <1>6, <1>10, NoneLeaked

\* So does the one it adds to the used slots of a page, old or fresh.
LEMMA LeakTakeNew ==
  ASSUME SlotInv, LeakInv, NEW t \in Threads, Busy(t), ~Holding(t),
         NEW p \in Nat, NEW n \in Nat,
         Holding(t)' /\ SlotHeld(t)' = <<p, n>> /\ store'[t].id = store[t].id,
         \A u \in Threads \ {t} : store'[u] = store[u],
         UNCHANGED <<free, loc, lost>>,
         \A f \in UsedSlots' : f = <<p, n>> \/ f \in UsedSlots
  PROVE  LeakInv'
<1>1. OwnIds'
  BY DEF LeakInv, OwnIds, Busy
<1>2. \A u \in Threads : Holding(u) => Holding(u)' /\ SlotHeld(u)' = SlotHeld(u)
  BY DEF Holding, SlotHeld
<1>3. \A f : Known(f) => Known(f)'
  BY <1>2 DEF Known
<1>4. Known(<<p, n>>)'
  BY DEF Known
<1>5. Leaked' \subseteq Leaked
  BY <1>3, <1>4 DEF Leaked
<1> QED
  BY <1>1, <1>5, NoneLeaked

LEMMA LeakTakeOpen ==
  ASSUME SlotInv, LeakInv, NEW t \in Threads, TakeOpen(t)
  PROVE  LeakInv'
<1>1. store[t].pc = "find" /\ store[t] \in Looking /\ store[t].section \in Sections
  BY WriterShape DEF TakeOpen
<1> DEFINE s == store[t].section
<1>2. PICK p \in open[s] :
        /\ pages' = [pages EXCEPT ![p].used = @ + 1]
        /\ Take(t, p, pages[p].used, "write")
  BY DEF TakeOpen
<1>3. p \in DOMAIN pages /\ p \in Nat \ {0} /\ pages[p] \in Page
  BY <1>1 DEF SlotInv, AllocTypeOK, OpenPagesHaveRoom
<1>4. PICK n \in Nat : n = pages[p].used
  BY <1>3 DEF Page
<1>5. /\ store'[t] = [pc |-> "write", id |-> store[t].id, section |-> s, page |-> p, slot |-> n]
      /\ \A u \in Threads \ {t} : store'[u] = store[u]
      /\ UNCHANGED <<free, loc, lost>>
  BY <1>2, <1>4 DEF SlotInv, AllocTypeOK, Take, TakeOpen
<1>6. Holding(t)' /\ SlotHeld(t)' = <<p, n>> /\ ~Holding(t) /\ Busy(t)
  BY <1>1, <1>5 DEF Holding, SlotHeld, Busy
<1>7. \A f \in UsedSlots' : f = <<p, n>> \/ f \in UsedSlots
  <2>1. DOMAIN pages' = DOMAIN pages
    BY <1>2
  <2>2. pages'[p].used = n + 1 /\ \A q \in DOMAIN pages \ {p} : pages'[q] = pages[q]
    BY <1>2, <1>3, <1>4 DEF Page
  <2> SUFFICES ASSUME NEW f \in UsedSlots' PROVE f = <<p, n>> \/ f \in UsedSlots
    OBVIOUS
  <2>3. PICK q \in DOMAIN pages, m \in 0..(SlotsPerPage - 1) : f = <<q, m>> /\ m < pages'[q].used
    BY <2>1 DEF UsedSlots
  <2>4. CASE q = p /\ m = n
    BY <2>3, <2>4
  <2>5. CASE q = p /\ m # n
    <3>1. m < n
      BY <2>2, <2>3, <2>5
    <3>2. f[1] = q /\ f[2] = m
      BY <2>3
    <3> QED
      BY <2>3, <2>5, <3>1, <3>2, <1>4 DEF UsedSlots
  <2>6. CASE q # p
    BY <2>2, <2>3, <2>6 DEF UsedSlots
  <2> QED
    BY <2>4, <2>5, <2>6
<1> QED
  BY <1>3, <1>5, <1>6, <1>7, LeakTakeNew

LEMMA LeakFreshPage ==
  ASSUME SlotInv, LeakInv, NEW t \in Threads, FreshPage(t)
  PROVE  LeakInv'
<1>1. store[t].pc = "fresh" /\ store[t] \in Looking /\ store[t].section \in Sections
  BY WriterShape DEF FreshPage
<1> DEFINE s == store[t].section
<1>2. PICK p \in Nat : p = Len(pages) + 1
  BY DEF SlotInv, AllocTypeOK
<1>3. /\ store'[t] = [pc |-> "publish", id |-> store[t].id, section |-> s, page |-> p, slot |-> 0]
      /\ \A u \in Threads \ {t} : store'[u] = store[u]
      /\ UNCHANGED <<free, loc, lost>>
  BY <1>2 DEF SlotInv, AllocTypeOK, FreshPage, Take
<1>4. Holding(t)' /\ SlotHeld(t)' = <<p, 0>> /\ ~Holding(t) /\ Busy(t)
  BY <1>1, <1>3 DEF Holding, SlotHeld, Busy
<1>5. \A f \in UsedSlots' : f = <<p, 0>> \/ f \in UsedSlots
  <2>1. /\ DOMAIN pages' = DOMAIN pages \cup {p} /\ pages'[p].used = 1
        /\ \A q \in DOMAIN pages : pages'[q] = pages[q]
    <3>1. pages \in Seq(Page) /\ [section |-> s, used |-> 1] \in Page
      BY <1>1, SlotsPerPageAssumption DEF SlotInv, AllocTypeOK, Page
    <3>2. pages' = Append(pages, [section |-> s, used |-> 1])
      BY DEF FreshPage
    <3> QED
      BY <3>1, <3>2, <1>2
  <2> SUFFICES ASSUME NEW f \in UsedSlots' PROVE f = <<p, 0>> \/ f \in UsedSlots
    OBVIOUS
  <2>2. PICK q \in DOMAIN pages', m \in 0..(SlotsPerPage - 1) : f = <<q, m>> /\ m < pages'[q].used
    BY DEF UsedSlots
  <2>3. CASE q = p
    BY <2>1, <2>2, <2>3, SlotsPerPageAssumption
  <2>4. CASE q # p
    BY <2>1, <2>2, <2>4 DEF UsedSlots
  <2> QED
    BY <2>3, <2>4
<1> QED
  BY <1>3, <1>4, <1>5, LeakTakeNew

\* A failed store is the only step that drops a slot, and it drops one.
LEMMA LeakGiveUp ==
  ASSUME SlotInv, LeakInv, NEW t \in Threads, GiveUp(t)
  PROVE  LeakInv'
<1>1. /\ UNCHANGED <<pages, free, loc>> /\ lost' = lost + 1
      /\ store'[t] = Idle /\ \A u \in Threads \ {t} : store'[u] = store[u]
  BY DEF GiveUp, SlotInv, AllocTypeOK
<1>2. OwnIds'
  BY <1>1 DEF LeakInv, OwnIds, Busy, Idle
<1>3. \A u \in Threads \ {t} : Holding(u) => Holding(u)' /\ SlotHeld(u)' = SlotHeld(u)
  BY <1>1 DEF Holding, SlotHeld
<1>4. \A f : Known(f) => Known(f)' \/ f = SlotHeld(t)
  BY <1>1, <1>3 DEF Known
<1>5. Leaked' \subseteq Leaked \cup {SlotHeld(t)}
  BY <1>1, <1>4 DEF Leaked, UsedSlots
<1>6. /\ IsFiniteSet(Leaked \cup {SlotHeld(t)})
      /\ Cardinality(Leaked \cup {SlotHeld(t)}) <= Cardinality(Leaked) + 1
  <2>1. IsFiniteSet(Leaked) /\ Cardinality(Leaked) \in Nat
    BY FS_CardinalityType DEF LeakInv
  <2>2. /\ IsFiniteSet(Leaked \cup {SlotHeld(t)})
        /\ \/ Cardinality(Leaked \cup {SlotHeld(t)}) = Cardinality(Leaked)
           \/ Cardinality(Leaked \cup {SlotHeld(t)}) = Cardinality(Leaked) + 1
    BY <2>1, FS_AddElement, Zenon
  <2> QED
    BY <2>1, <2>2
<1>7. IsFiniteSet(Leaked') /\ Cardinality(Leaked') <= Cardinality(Leaked \cup {SlotHeld(t)})
  BY <1>5, <1>6, FS_Subset
<1>8. /\ Cardinality(Leaked) \in Nat /\ Cardinality(Leaked') \in Nat /\ lost \in Nat
      /\ Cardinality(Leaked \cup {SlotHeld(t)}) \in Nat
  BY <1>6, <1>7, FS_CardinalityType DEF LeakInv, SlotInv, AllocTypeOK
<1> QED
  BY <1>1, <1>2, <1>6, <1>7, <1>8 DEF LeakInv

\* assign_location passes the slot on, and the id had none to lose.
LEMMA LeakAssign ==
  ASSUME SlotInv, LeakInv, NEW t \in Threads, AssignLocation(t)
  PROVE  LeakInv'
<1>1. store[t].pc = "assign" /\ store[t] \in Placing
  BY WriterShape DEF AssignLocation
<1>2. PICK i \in Ids : i = store[t].id
  BY <1>1 DEF Placing
<1>3. Busy(t) /\ loc[i] = NoLoc
  BY <1>1, <1>2 DEF LeakInv, OwnIds, Busy
<1>4. /\ UNCHANGED <<pages, free, lost>>
      /\ loc'[i] = SlotHeld(t) /\ \A j \in Ids \ {i} : loc'[j] = loc[j]
      /\ store'[t] = Idle /\ \A u \in Threads \ {t} : store'[u] = store[u]
  BY <1>2 DEF AssignLocation, SlotInv, AllocTypeOK, Locations
<1>5. OwnIds'
  <2>1. \A u \in Threads : Busy(u)' => u # t /\ Busy(u) /\ store'[u].id # i /\ store'[u].id \in Ids
    <3> SUFFICES ASSUME NEW u \in Threads, Busy(u)'
                 PROVE  u # t /\ Busy(u) /\ store'[u].id # i /\ store'[u].id \in Ids
      OBVIOUS
    <3>1. u # t /\ store'[u] = store[u]
      BY <1>4 DEF Busy, Idle
    <3>2. Busy(u) /\ store[u] \in Looking \cup Placing
      BY <3>1 DEF Busy, SlotInv, AllocTypeOK, Idle
    <3>3. store[u].id \in Ids
      BY <3>2 DEF Looking, Placing
    <3> QED
      BY <3>1, <3>2, <3>3, <1>2, <1>3 DEF LeakInv, OwnIds
  <2> QED
    BY <2>1, <1>4 DEF LeakInv, OwnIds
<1>6. \A u \in Threads \ {t} : Holding(u) => Holding(u)' /\ SlotHeld(u)' = SlotHeld(u)
  BY <1>4 DEF Holding, SlotHeld
<1>7. \A f \in UsedSlots : Known(f) => Known(f)'
  <2> SUFFICES ASSUME NEW f \in UsedSlots, Known(f) PROVE Known(f)'
    OBVIOUS
  <2>0. f \in Slot
    BY DEF UsedSlots, Slot, SlotInv, AllocTypeOK
  <2>1. ASSUME NEW j \in Ids, loc[j] = f PROVE Known(f)'
    <3>1. j # i
      BY <2>0, <2>1, <1>3, NoLocAssumption DEF Slot
    <3> QED
      BY <2>1, <3>1, <1>4 DEF Known
  <2>2. ASSUME NEW u \in Threads, Holding(u), SlotHeld(u) = f PROVE Known(f)'
    <3>1. CASE u = t
      BY <2>2, <3>1, <1>4 DEF Known
    <3>2. CASE u # t
      BY <2>2, <3>2, <1>6 DEF Known
    <3> QED
      BY <3>1, <3>2
  <2>3. ASSUME NEW r \in Sections, f \in free[r] PROVE Known(f)'
    BY <2>3, <1>4 DEF Known
  <2> QED
    BY <2>1, <2>2, <2>3 DEF Known
<1>8. Leaked' \subseteq Leaked
  BY <1>4, <1>7 DEF Leaked, UsedSlots
<1> QED
  BY <1>4, <1>5, <1>8, NoneLeaked

\* A reopen finds an owner for every used slot.
LEMMA LeakReopen ==
  ASSUME SlotInv, LeakInv, NEW c \in Capacities, Reopen(c)
  PROVE  LeakInv'
<1>1. /\ pages' = saved.pages /\ loc' = saved.loc /\ lost' = 0
      /\ free' = [s \in Sections |-> Unlocated(s, pages', loc')]
      /\ store' = [t \in Threads |-> Idle]
  BY DEF Reopen
<1>2. OwnIds'
  BY <1>1 DEF OwnIds, Busy, Idle
<1>3. Leaked' = {}
  <2> SUFFICES ASSUME NEW f \in UsedSlots' PROVE Known(f)'
    BY DEF Leaked
  <2>1. /\ f \in (DOMAIN pages') \X (0..(SlotsPerPage - 1)) /\ f[2] < pages'[f[1]].used
        /\ f[1] \in DOMAIN pages'
    BY DEF UsedSlots
  <2>2. pages'[f[1]].section \in Sections
    <3>1. pages' \in Seq(Page)
      BY <1>1 DEF SlotInv, AllocTypeOK
    <3>2. pages'[f[1]] \in Page
      BY <2>1, <3>1
    <3> QED
      BY <3>2 DEF Page
  <2>3. CASE \E i \in Ids : loc'[i] = f
    BY <2>3 DEF Known
  <2>4. CASE \A i \in Ids : loc'[i] # f
    <3>1. f \in free'[pages'[f[1]].section]
      BY <1>1, <2>1, <2>2, <2>4 DEF Unlocated
    <3> QED
      BY <2>2, <3>1 DEF Known
  <2> QED
    BY <2>3, <2>4
<1> QED
  BY <1>1, <1>2, <1>3, FS_EmptySet DEF LeakInv

LEMMA LeakNext ==
  ASSUME SlotInv, LeakInv, [AllocNext]_alloc
  PROVE  LeakInv'
<1>1. CASE UNCHANGED alloc \/ Save
  <2>1. UNCHANGED <<pages, free, loc, store, lost>>
    BY <1>1 DEF alloc, Save
  <2> QED
    BY <2>1 DEF LeakInv, OwnIds, Busy, Leaked, UsedSlots, Known, Holding, SlotHeld
<1>2. ASSUME NEW t \in Threads, FindNothing(t) \/ PublishPage(t) \/ WriteBytes(t)
      PROVE  LeakInv'
  <2>1. store[t].pc \in {"find", "publish", "write"} /\ UNCHANGED <<pages, free, loc, lost>>
    BY <1>2 DEF FindNothing, PublishPage, WriteBytes
  <2>2. PICK pc \in {"fresh", "write", "assign"} :
          /\ store' = [store EXCEPT ![t].pc = pc]
          /\ pc = "fresh" => store[t].pc = "find"
    BY <1>2 DEF FindNothing, PublishPage, WriteBytes
  <2>3. /\ store'[t] = [store[t] EXCEPT !.pc = pc]
        /\ \A u \in Threads \ {t} : store'[u] = store[u]
        /\ pc = "fresh" => store[t].pc = "find"
    BY <2>2 DEF SlotInv, AllocTypeOK
  <2>4. store[t] \in Looking \/ store[t] \in Placing
    BY <2>1, WriterShape
  <2>5. store'[t].id = store[t].id /\ Busy(t)
    BY <2>1, <2>3, <2>4 DEF Looking, Placing, Busy
  <2>6. Holding(t) => Holding(t)' /\ SlotHeld(t)' = SlotHeld(t)
    <3> SUFFICES ASSUME Holding(t) PROVE Holding(t)' /\ SlotHeld(t)' = SlotHeld(t)
      OBVIOUS
    <3>1. pc # "fresh" /\ store[t] \in Placing
      BY <2>3, <2>4 DEF Holding, Looking
    <3> QED
      BY <2>2, <2>3, <3>1 DEF Placing, Holding, SlotHeld
  <2> QED
    BY <2>1, <2>3, <2>5, <2>6, LeakMove
<1>3. ASSUME NEW t \in Threads, Store(t) PROVE LeakInv'
  BY <1>2, <1>3, LeakBegin, LeakTakeFree, LeakTakeOpen, LeakFreshPage, LeakAssign DEF Store
<1>4. ASSUME NEW t \in Threads, WriteFails(t) PROVE LeakInv'
  BY <1>4, LeakGiveUp DEF WriteFails
<1>5. ASSUME NEW c \in Capacities, Reopen(c) PROVE LeakInv'
  BY <1>5, LeakReopen
<1> QED
  BY <1>1, <1>2, <1>3, <1>4, <1>5 DEF AllocNext

\* The slots that belong to nobody are at most those of the stores that
\* failed since the store was opened; a reopen takes all of them back
\* (deserializeMetadata rebuilds freeSlots from what is located).
THEOREM FailedStoresCostTheirSlot == AllocSpec => []NoSlotLeaks
<1>1. SlotInv /\ LeakInv /\ [AllocNext]_alloc => LeakInv'
  BY LeakNext
<1>2. ASSUME LeakInv PROVE NoSlotLeaks
  <2> DEFINE used == {f \in (DOMAIN pages) \X (0..(SlotsPerPage - 1)) : f[2] < pages[f[1]].used}
             known == {loc[i] : i \in Ids} \cup {SlotHeld(t) : t \in {u \in Threads : Holding(u)}}
                        \cup UNION {free[s] : s \in Sections}
  <2>1. \A f : f \in known <=> Known(f)
    BY DEF Known
  <2>2. used \ known = Leaked
    BY <2>1 DEF Leaked, UsedSlots
  <2> QED
    BY <1>2, <2>2 DEF NoSlotLeaks, LeakInv
<1> QED
  BY <1>1, <1>2, LeakInit, SlotInvariant, PTL DEF AllocSpec

(***************************************************************************)
(* The inductive invariant for any threads                                 *)
(***************************************************************************)

Loads == [pc : {"overlay", "install"}, page : Nat \ {0}, data : Data, late : BOOLEAN]

IOTypes ==
  /\ Len(pages) <= MaxPages
  /\ disk \in [1..MaxPages -> Data]
  /\ buffer \in [Sections -> Buffers \cup {NoBuffer}]
  /\ order \in Seq(Sections)
  /\ cache \in Seq(CachedPages)
  /\ load \in [Threads -> Loads \cup {Idle}]
  /\ \A t \in Threads : Loading(t) => load[t].page \in DOMAIN pages
  /\ torn \subseteq DOMAIN pages /\ overtaken \subseteq DOMAIN pages

\* A slot and a buffer are of the section their page belongs to.
AtHome ==
  /\ \A t \in Threads : Busy(t) => store[t].section \in SectionsOf[t]
  /\ \A t \in Threads : Holding(t) => pages[store[t].page].section = store[t].section
  /\ \A s \in Live : buffer[s].page \in DOMAIN pages /\ pages[buffer[s].page].section = s

\* Pages are only added while a process lives.
SavedFirst == Len(saved.pages) <= Len(pages)

Caps ==
  /\ BufferCap > 0 => /\ IsFiniteSet(Live) /\ Cardinality(Live) <= BufferCap
                      /\ \A s \in Live : \E k \in DOMAIN order : order[k] = s
  /\ CacheWithinCap
  /\ \A t \in Threads : Loading(t) => MaxCached > 0

PageInv == SlotInv /\ LeakInv /\ IOTypes /\ AtHome /\ SavedFirst /\ Caps

(***************************************************************************)
(* The inductive invariant for the bytes                                   *)
(***************************************************************************)

\* The bytes of a page as a reader that skips the cache sees them.
View(p) == IF Holds(pages[p].section, p) THEN buffer[pages[p].section].data ELSE disk[p]

\* A page's first slot is in use or being written, since a store into it
\* does not fail, and a checkpoint sees no store under way.  So a writer has
\* a first slot to write only after it added the page, which is then younger
\* than the checkpoint and has no buffer.
FirstInUse(p) == \/ \E i \in Ids : loc[i] = <<p, 0>>
                 \/ \E t \in Threads : Holding(t) /\ SlotHeld(t) = <<p, 0>>
Starting(t) == store[t].pc \in {"publish", "write"} /\ store[t].slot = 0
FirstIsNew(t) == Starting(t) => /\ store[t].page > Len(saved.pages)
                                /\ ~Holds(store[t].section, store[t].page)

FirstSlots ==
  /\ \A p \in DOMAIN pages : FirstInUse(p)
  /\ \A p \in DOMAIN saved.pages : \E i \in Ids : saved.loc[i] = <<p, 0>>
  /\ \A s \in Sections : \A f \in free[s] : f[2] # 0
  /\ \A t \in Threads : FirstIsNew(t)
  /\ \A t \in Threads : store[t].pc = "direct" => store[t].slot # 0

\* Unless a writer overtook that of the first slot, nothing is on a page
\* before its first record is, and who writes past the buffer does so on a
\* page whose buffer is flushed for good.
Written1(t) == store[t].pc \in {"direct", "cached", "assign"}
InTurn ==
  /\ \A t \in Threads : Starting(t) /\ store[t].page \notin overtaken =>
       /\ \A i \in Ids : loc[i] # NoLoc => loc[i][1] # store[t].page
       /\ \A u \in Threads : Written1(u) => store[u].page # store[t].page
  /\ \A t \in Threads : store[t].pc = "direct" /\ store[t].page \notin overtaken =>
       ~Holds(store[t].section, store[t].page)

\* No buffer covers a page of the checkpoint, and no slot of the checkpoint
\* is ever given away.
Checkpointed ==
  /\ \A s \in Live : buffer[s].page > Len(saved.pages)
  /\ \A i \in Ids : saved.loc[i] # NoLoc => loc[i] = saved.loc[i]
  /\ CheckpointedOnDisk

Bytes ==
  /\ \A i \in Ids : loc[i] # NoLoc /\ loc[i][1] \notin Spoiled => View(loc[i][1])[loc[i][2]] = i
  /\ \A t \in Threads : store[t].pc \in {"cached", "assign"} /\ store[t].page \notin Spoiled =>
       View(store[t].page)[store[t].slot] = store[t].id

DiskInv == FirstSlots /\ InTurn /\ Checkpointed /\ Bytes

\* Bytes d of page p hold every record that is located there, or about to be,
\* with locations l and writers st.
Fits(l, st, p, d) ==
  /\ \A i \in Ids : l[i] # NoLoc /\ l[i][1] = p => d[l[i][2]] = i
  /\ \A t \in Threads : st[t].pc = "assign" /\ st[t].page = p => d[st[t].slot] = st[t].id

CacheFits ==
  \A k \in DOMAIN cache : ~cache[k].late /\ cache[k].page \notin Spoiled =>
    Fits(loc, store, cache[k].page, cache[k].data)

LoadFits ==
  \A t \in Threads : Loading(t) /\ ~load[t].late /\ load[t].page \notin Spoiled =>
    \/ Fits(loc, store, load[t].page, load[t].data)
    \/ load[t].pc = "overlay" /\ Holds(pages[load[t].page].section, load[t].page)

ReadInv == CacheFits /\ LoadFits

(***************************************************************************)
(* The allocator beneath                                                   *)
(***************************************************************************)

\* A writer that has its slot carries all of it, within the file.
LEMMA HeldShape ==
  ASSUME SlotInv, Len(pages) <= MaxPages, NEW t \in Threads, Holding(t)
  PROVE  /\ store[t] \in Placing
         /\ store[t].id \in Ids /\ store[t].section \in Sections
         /\ store[t].page \in DOMAIN pages /\ store[t].page \in 1..MaxPages
         /\ store[t].slot \in Slots
<1>1. store[t] \in Placing
  BY DEF SlotInv, AllocTypeOK, Holding, Idle, Looking, Placing
<1>2. Used(pages, SlotHeld(t)) /\ SlotHeld(t) = <<store[t].page, store[t].slot>>
  BY DEF SlotInv, InUse, SlotHeld
<1>3. store[t].page \in DOMAIN pages /\ store[t].slot < pages[store[t].page].used
  BY <1>2 DEF Used
<1>4. pages \in Seq(Page) /\ pages[store[t].page] \in Page
  BY <1>3 DEF SlotInv, AllocTypeOK
<1>5. store[t].slot \in Nat /\ pages[store[t].page].used \in 1..SlotsPerPage
  BY <1>1, <1>4 DEF Placing, Page
<1>6. store[t].slot \in Slots
  BY <1>3, <1>5, SlotsPerPageAssumption DEF Slots
<1>7. store[t].page \in 1..MaxPages
  BY <1>3, <1>4, SlotBoundsAssumption
<1> QED
  BY <1>1, <1>3, <1>6, <1>7 DEF Placing

\* Located slots lie in the file.
LEMMA LocatedShape ==
  ASSUME SlotInv, Len(pages) <= MaxPages, NEW i \in Ids, loc[i] # NoLoc
  PROVE  /\ loc[i] = <<loc[i][1], loc[i][2]>>
         /\ loc[i][1] \in DOMAIN pages /\ loc[i][1] \in 1..MaxPages /\ loc[i][2] \in Slots
<1>1. loc[i] \in Slot /\ Used(pages, loc[i])
  BY SlotTypes DEF SlotInv, InUse
<1>2. loc[i][1] \in DOMAIN pages /\ loc[i][2] < pages[loc[i][1]].used
  BY <1>1 DEF Used
<1>3. pages \in Seq(Page) /\ pages[loc[i][1]] \in Page
  BY <1>2 DEF SlotInv, AllocTypeOK
<1>4. loc[i][2] \in Nat /\ pages[loc[i][1]].used \in 1..SlotsPerPage
  BY <1>1, <1>3 DEF Slot, Page
<1>5. loc[i][2] \in Slots
  BY <1>2, <1>4, SlotsPerPageAssumption DEF Slots
<1>6. loc[i][1] \in 1..MaxPages
  BY <1>2, <1>3, SlotBoundsAssumption
<1> QED
  BY <1>1, <1>2, <1>5, <1>6 DEF Slot

\* The steps of a writer between its slot and its location, as the
\* allocator sees them: none of its tables changes.
Move(t, pc) ==
  /\ store[t].pc \in {"write", "direct", "cached"}
  /\ store' = [store EXCEPT ![t].pc = pc]
  /\ UNCHANGED <<pages, open, free, loc, capacity, arrays, saved, lost>>

LEMMA Moves ==
  ASSUME NEW t \in Threads
  PROVE  /\ BufferWrite(t) \/ DirectWrite(t) => Move(t, "cached")
         /\ Bypass(t) => Move(t, "direct")
         /\ UpdateCache(t) => Move(t, "assign")
BY DEF BufferWrite, DirectWrite, Bypass, UpdateCache, Move

\* What such a step leaves as it was.
LEMMA MoveFacts ==
  ASSUME SlotInv, NEW t \in Threads, NEW pc \in {"direct", "cached", "assign"}, Move(t, pc)
  PROVE  /\ store[t] \in Placing /\ store'[t] \in Placing /\ store'[t].pc = pc
         /\ store'[t].id = store[t].id /\ store'[t].section = store[t].section
         /\ store'[t].page = store[t].page /\ store'[t].slot = store[t].slot
         /\ \A u \in Threads \ {t} : store'[u] = store[u]
         /\ \A u \in Threads : Holding(u)' = Holding(u) /\ SlotHeld(u)' = SlotHeld(u)
         /\ \A u \in Threads : Busy(u)' = Busy(u)
         /\ Busy(t) /\ Holding(t) /\ SlotHeld(t) = <<store[t].page, store[t].slot>>
<1>1. store[t] \in Placing
  BY DEF SlotInv, AllocTypeOK, Move, Idle, Looking, Placing
<1>2. /\ store'[t] = [store[t] EXCEPT !.pc = pc]
      /\ \A u \in Threads \ {t} : store'[u] = store[u]
  BY DEF Move, SlotInv, AllocTypeOK
<1>3. /\ store'[t] \in Placing /\ store'[t].pc = pc
      /\ store'[t].id = store[t].id /\ store'[t].section = store[t].section
      /\ store'[t].page = store[t].page /\ store'[t].slot = store[t].slot
  BY <1>1, <1>2 DEF Placing
<1> QED
  BY <1>1, <1>2, <1>3 DEF Move, Holding, SlotHeld, Busy

LEMMA MoveSound ==
  ASSUME SlotInv, LeakInv, NEW t \in Threads, NEW pc \in {"direct", "cached", "assign"}, Move(t, pc)
  PROVE  SlotInv' /\ LeakInv'
<1>1. UNCHANGED <<pages, open, free, loc, capacity, arrays, saved, lost>>
  BY DEF Move
<1>2. /\ store'[t] \in Placing /\ store'[t].pc = pc /\ store'[t].id = store[t].id
      /\ \A u \in Threads \ {t} : store'[u] = store[u]
      /\ \A u \in Threads : Holding(u)' = Holding(u) /\ SlotHeld(u)' = SlotHeld(u)
      /\ Busy(t) /\ Holding(t)
  BY MoveFacts
<1>3. AllocTypeOK'
  <2>1. store' \in [Threads -> {Idle} \cup Looking \cup Placing]
    BY <1>2 DEF SlotInv, AllocTypeOK, Move
  <2> QED
    BY <2>1, <1>1 DEF SlotInv, AllocTypeOK
<1>4. InUse' /\ SlotsNotShared'
  BY <1>1, <1>2 DEF SlotInv, InUse, SlotsNotShared
<1>5. FreshPagesPrivate'
  BY <1>1, <1>2 DEF SlotInv, FreshPagesPrivate
<1>6. SavedSound' /\ OpenPagesHaveRoom'
  BY <1>1 DEF SlotInv, SavedSound, OpenPagesHaveRoom
<1>7. SlotInv'
  BY <1>3, <1>4, <1>5, <1>6 DEF SlotInv
<1>8. LeakInv'
  BY <1>1, <1>2, LeakMove
<1> QED
  BY <1>7, <1>8

LEMMA AllocSound ==
  ASSUME SlotInv, LeakInv, [Next]_vars
  PROVE  SlotInv' /\ LeakInv'
<1>1. CASE [AllocNext]_alloc
  BY <1>1, SlotNext, LeakNext
<1>2. ASSUME NEW t \in Threads, NEW pc \in {"direct", "cached", "assign"}, Move(t, pc)
      PROVE  SlotInv' /\ LeakInv'
  BY <1>2, MoveSound
<1>3. ASSUME NEW t \in Threads, BufferWrite(t) \/ Bypass(t) \/ DirectWrite(t) \/ UpdateCache(t)
      PROVE  SlotInv' /\ LeakInv'
  BY <1>2, <1>3, Moves
<1>4. ASSUME NEW t \in Threads, DirectFails(t) PROVE SlotInv' /\ LeakInv'
  BY <1>4, GiveUpSound, LeakGiveUp DEF DirectFails
<1>5. ASSUME NEW t \in Threads, Place(t) \/ Checkpoint(t) PROVE [AllocNext]_alloc
  BY <1>5 DEF Place, Checkpoint, AllocNext
<1>6. ASSUME NEW t \in Threads, \/ \E i \in Ids : Pread(t, i)
                                \/ Overlay(t) \/ Install(t)
      PROVE  [AllocNext]_alloc
  BY <1>6 DEF Pread, Overlay, Install
<1>7. ASSUME NEW c \in Capacities, Restart(c) PROVE [AllocNext]_alloc
  BY <1>7 DEF Restart, AllocNext
<1>8. UNCHANGED vars => [AllocNext]_alloc
  BY DEF vars
<1> QED
  BY <1>1, <1>3, <1>4, <1>5, <1>6, <1>7, <1>8 DEF Next

(***************************************************************************)
(* Writing through a buffer                                                *)
(***************************************************************************)

\* A set of naturals has a smallest element.
LEMMA MinIsLeast ==
  ASSUME NEW T \in SUBSET Nat, T # {}
  PROVE  Min(T) \in T /\ \A y \in T : Min(T) <= y
<1>1. IsWellFoundedOn(OpToRel(<, Nat), Nat)
  BY NatLessThanWellFounded, Zenon
<1>2. PICK x \in T : \A y \in T : ~ (<<y, x>> \in OpToRel(<, Nat))
  BY <1>1, WFMin
<1>3. \A y \in T : x <= y
  <2> SUFFICES ASSUME NEW y \in T PROVE ~(y < x)
    OBVIOUS
  <2>1. ~ (<<y, x>> \in OpToRel(<, Nat))
    BY <1>2
  <2>2. OpToRel(<, Nat) = {w \in Nat \X Nat : w[1] < w[2]}
    BY DEF OpToRel
  <2> QED
    BY <2>1, <2>2
<1> QED
  BY <1>3 DEF Min

\* The victim is the first live section of the queue but for s itself.
LEMMA PositionFacts ==
  ASSUME order \in Seq(Sections), NEW s
  PROVE  \/ /\ Position(s) \in 1..Len(order) /\ order[Position(s)] \in Live \ {s}
            /\ \A j \in 1..Len(order) : order[j] \in Live \ {s} => Position(s) <= j
         \/ Position(s) = 0 /\ \A j \in 1..Len(order) : order[j] \notin Live \ {s}
<1> DEFINE I == {j \in 1..Len(order) : order[j] \in Live \ {s}}
<1>1. Position(s) = IF I # {} THEN Min(I) ELSE 0
  BY DEF Position, SelectInSeq
<1>2. I \in SUBSET Nat
  OBVIOUS
<1>3. CASE I # {}
  <2>1. Min(I) \in I /\ \A y \in I : Min(I) <= y
    BY <1>2, <1>3, MinIsLeast
  <2> QED
    BY <1>1, <1>3, <2>1
<1>4. CASE I = {}
  BY <1>1, <1>4
<1> QED
  BY <1>3, <1>4

\* What a write or a flush does to the loads under way: it makes some late.
LoadsKept ==
  /\ load' \in [Threads -> Loads \cup {Idle}]
  /\ \A u \in Threads : Loading(u)' = Loading(u)
  /\ \A u \in Threads : Loading(u) =>
       /\ load'[u].pc = load[u].pc /\ load'[u].page = load[u].page /\ load'[u].data = load[u].data
       /\ load[u].late => load'[u].late
LateOn(q) == \A u \in Threads : Loading(u) /\ load[u].page = q => load'[u].late

LEMMA LateFacts ==
  ASSUME load \in [Threads -> Loads \cup {Idle}], NEW P, LateFor(P)
  PROVE  LoadsKept /\ \A q \in P : LateOn(q)
<1>1. ASSUME NEW u \in Threads, Loading(u) PROVE load[u] \in Loads
  BY <1>1 DEF Loading, Idle
<1>2. ASSUME NEW u \in Threads, Loading(u), load[u].page \in P
      PROVE  /\ load'[u] \in Loads /\ load'[u].late
             /\ load'[u].pc = load[u].pc /\ load'[u].page = load[u].page /\ load'[u].data = load[u].data
  <2>1. load'[u] = [load[u] EXCEPT !.late = TRUE]
    BY <1>2 DEF LateFor
  <2> QED
    BY <1>1, <1>2, <2>1 DEF Loads
<1>3. ASSUME NEW u \in Threads, ~(Loading(u) /\ load[u].page \in P) PROVE load'[u] = load[u]
  BY <1>3 DEF LateFor
<1>4. DOMAIN load' = Threads /\ load' = [u \in Threads |-> load'[u]]
  BY DEF LateFor
<1>5. load' \in [Threads -> Loads \cup {Idle}]
  BY <1>2, <1>3, <1>4
<1>6. ASSUME NEW u \in Threads PROVE Loading(u)' = Loading(u)
  BY <1>2, <1>3 DEF Loading
<1> QED
  BY <1>2, <1>3, <1>5, <1>6 DEF LoadsKept, LateOn

\* A flush gives each page of the file and each cached one the bytes of a
\* buffer on that page, if one is flushed and the file takes all of it, and
\* leaves it alone otherwise.
LEMMA FlushFacts ==
  ASSUME NEW fs \in SUBSET Buffers, Flush(fs), disk \in [1..MaxPages -> Data],
         cache \in Seq(CachedPages), load \in [Threads -> Loads \cup {Idle}]
  PROVE  /\ disk' \in [1..MaxPages -> Data] /\ cache' \in Seq(CachedPages)
         /\ torn \subseteq torn' /\ \A q \in torn' : q \in torn \/ \E b \in fs : b.page = q
         /\ \A q \in 1..MaxPages :
              \/ \E b \in fs : b.page = q /\ (disk'[q] = b.data \/ q \in torn')
              \/ disk'[q] = disk[q] /\ \A b \in fs : b.page # q
         /\ Len(cache') = Len(cache) /\ DOMAIN cache' = DOMAIN cache
         /\ \A k \in DOMAIN cache :
              /\ cache'[k].page = cache[k].page
              /\ \/ \E b \in fs : b.page = cache[k].page /\ cache'[k].data = b.data
                 \/ cache'[k] = cache[k]
         /\ LoadsKept /\ \A b \in fs : LateOn(b.page)
<1> DEFINE P == {b.page : b \in fs}
           bytes(p) == (CHOOSE b \in fs : b.page = p).data
<1>1. \A p \in P : \E b \in fs : b.page = p /\ bytes(p) = b.data
  OBVIOUS
<1>2. \A p \in P : bytes(p) \in Data
  BY <1>1 DEF Buffers
<1>3. PICK reach \in Written(P) :
        /\ disk' = [p \in DOMAIN disk |->
                      IF p \in P THEN [n \in Slots |-> IF n < reach[p] THEN bytes(p)[n] ELSE disk[p][n]]
                      ELSE disk[p]]
        /\ torn' = torn \cup {p \in P : reach[p] < SlotsPerPage}
  BY DEF Flush
<1>4. /\ cache' = [k \in DOMAIN cache |->
                    IF cache[k].page \in P
                    THEN [page |-> cache[k].page, data |-> bytes(cache[k].page), late |-> FALSE]
                    ELSE cache[k]]
      /\ LateFor(P)
  BY DEF Flush
<1>5. \A b \in fs : b.page \in P
  OBVIOUS
<1>6. \A p \in P : \E b \in fs : b.page = p
  OBVIOUS
<1> HIDE DEF P, bytes
<1>7. \A p \in P : reach[p] \in 0..SlotsPerPage
  BY <1>3 DEF Written
<1>8. ASSUME NEW q \in 1..MaxPages
      PROVE  /\ disk'[q] \in Data
             /\ \/ \E b \in fs : b.page = q /\ (disk'[q] = b.data \/ q \in torn')
                \/ disk'[q] = disk[q] /\ \A b \in fs : b.page # q
  <2>1. CASE q \notin P
    BY <2>1, <1>3, <1>5
  <2>2. CASE q \in P
    <3>1. disk'[q] = [n \in Slots |-> IF n < reach[q] THEN bytes(q)[n] ELSE disk[q][n]]
      BY <2>2, <1>3
    <3>2. bytes(q) \in [Slots -> Ids \cup {Zero}] /\ disk[q] \in [Slots -> Ids \cup {Zero}]
      BY <2>2, <1>2 DEF Data
    <3>3. disk'[q] \in Data
      BY <3>1, <3>2 DEF Data
    <3>4. CASE reach[q] < SlotsPerPage
      BY <2>2, <3>3, <3>4, <1>3, <1>6
    <3>5. CASE ~(reach[q] < SlotsPerPage)
      <4>1. \A n \in Slots : n < reach[q]
        BY <2>2, <3>5, <1>7, SlotsPerPageAssumption DEF Slots
      <4>2. disk'[q] = [n \in Slots |-> bytes(q)[n]]
        BY <3>1, <4>1
      <4>3. disk'[q] = bytes(q)
        BY <3>2, <4>2
      <4> QED
        BY <2>2, <3>3, <4>3, <1>1
    <3> QED
      BY <3>4, <3>5
  <2> QED
    BY <2>1, <2>2
<1>9. disk' \in [1..MaxPages -> Data]
  <2>1. DOMAIN disk' = 1..MaxPages /\ disk' = [q \in 1..MaxPages |-> disk'[q]]
    BY <1>3
  <2> QED
    BY <2>1, <1>8
<1>10. \A k \in DOMAIN cache : cache[k] \in CachedPages
  OBVIOUS
<1>11. ASSUME NEW k \in DOMAIN cache
       PROVE  /\ cache'[k] \in CachedPages /\ cache'[k].page = cache[k].page
              /\ \/ \E b \in fs : b.page = cache[k].page /\ cache'[k].data = b.data
                 \/ cache'[k] = cache[k]
  <2>1. CASE cache[k].page \notin P
    BY <2>1, <1>4, <1>10
  <2>2. CASE cache[k].page \in P
    <3>1. cache'[k] = [page |-> cache[k].page, data |-> bytes(cache[k].page), late |-> FALSE]
      BY <2>2, <1>4
    <3> QED
      BY <2>2, <3>1, <1>1, <1>2, <1>10 DEF CachedPages
  <2> QED
    BY <2>1, <2>2
<1>12. DOMAIN cache' = DOMAIN cache /\ cache' \in Seq(CachedPages) /\ Len(cache') = Len(cache)
  <2>1. DOMAIN cache = 1..Len(cache) /\ Len(cache) \in Nat
    OBVIOUS
  <2>2. cache' = [k \in 1..Len(cache) |-> cache'[k]]
    BY <1>4, <2>1
  <2> QED
    BY <2>1, <2>2, <1>11
<1>13. LoadsKept /\ \A b \in fs : LateOn(b.page)
  BY <1>4, <1>5, LateFacts
<1>14. torn \subseteq torn' /\ \A q \in torn' : q \in torn \/ \E b \in fs : b.page = q
  BY <1>3, <1>6
<1> QED
  BY <1>8, <1>9, <1>11, <1>12, <1>13, <1>14

\* A buffer is what a reader of its page sees.
LEMMA BufferIsView ==
  ASSUME AtHome, NEW r \in Live
  PROVE  /\ buffer[r].page \in DOMAIN pages /\ pages[buffer[r].page].section = r
         /\ View(buffer[r].page) = buffer[r].data
BY DEF AtHome, View, Holds, Live

\* What writeToSectionBuffer does, to the bytes of the page it writes and to
\* those of every other: seen through the buffers, only the record changes,
\* or the whole page where a new buffer starts on it, but for what a failed
\* flush spoils.  A page that loses its buffer makes its loads late.
Kept(s, p) == IF Holds(s, p) THEN buffer[s].data ELSE Blank

Wrote(t, s, p, n, new) ==
  /\ s = store[t].section /\ p = store[t].page /\ n = store[t].slot
  /\ new.page = p /\ new.data = [Kept(s, p) EXCEPT ![n] = store[t].id]
  /\ Holds(s, p) \/ n = 0
  /\ buffer' \in [Sections -> Buffers \cup {NoBuffer}]
  /\ \A r \in Sections : buffer'[r] \in {NoBuffer, buffer[r]} \/ (r = s /\ buffer'[r] = new)
  /\ disk' \in [1..MaxPages -> Data]
  /\ \A q \in 1..MaxPages : disk'[q] = disk[q] \/ q = p \/ \E r \in Live : buffer[r].page = q
  /\ View(p)' = new.data \/ p \in torn'
  /\ \A q \in DOMAIN pages \ {p} : View(q)' = View(q) \/ q \in torn'
  /\ cache' \in Seq(CachedPages) /\ Len(cache') = Len(cache) /\ DOMAIN cache' = DOMAIN cache
  /\ \A k \in DOMAIN cache :
       /\ cache'[k].page = cache[k].page
       /\ \/ cache'[k] = cache[k]
          \/ cache'[k].data = View(cache[k].page)' \/ cache[k].page \in torn'
  /\ torn \subseteq torn' /\ torn' \subseteq DOMAIN pages
  /\ LoadsKept
  /\ \A q \in DOMAIN pages :
       LateOn(q) \/ (Holds(pages[q].section, q) => Holds(pages[q].section, q)')

LEMMA BufferWriteFacts ==
  ASSUME SlotInv, IOTypes, AtHome, NEW t \in Threads, BufferWrite(t)
  PROVE  \E s \in Sections, p \in DOMAIN pages, n \in Slots, new \in Buffers :
           p \in 1..MaxPages /\ pages[p].section = s /\ Wrote(t, s, p, n, new)
<1>1. Holding(t)
  BY DEF BufferWrite, Holding
<1>2. PICK s \in Sections, p \in DOMAIN pages, n \in Slots, i \in Ids :
        s = store[t].section /\ p = store[t].page /\ n = store[t].slot /\ i = store[t].id
  BY <1>1, HeldShape DEF IOTypes
<1>3. p \in 1..MaxPages /\ pages[p].section = s
  BY <1>1, <1>2, HeldShape DEF AtHome, IOTypes
<1> DEFINE new == [page |-> p, data |-> [Kept(s, p) EXCEPT ![n] = i]]
           moved == IF buffer[s] # NoBuffer /\ ~Holds(s, p) THEN {buffer[s]} ELSE {}
           full == n + 1 >= SlotsPerPage
           fs == {buffer[v] : v \in Victims(s)} \cup moved \cup (IF full THEN {new} ELSE {})
<1>4. /\ ~MidPage(s, p, n)
      /\ Flush(fs)
      /\ buffer' = [x \in Sections |-> IF x = s THEN (IF full THEN NoBuffer ELSE new)
                                       ELSE IF x \in Victims(s) THEN NoBuffer ELSE buffer[x]]
      /\ pages' = pages
  BY <1>2 DEF BufferWrite, Kept
<1>5. Kept(s, p) \in Data /\ new \in Buffers
  <2>1. Kept(s, p) \in Data
    BY DEF Kept, Holds, IOTypes, Buffers, Blank, Data
  <2> QED
    BY <2>1, <1>3 DEF Buffers, Data
<1>6. /\ Victims(s) \subseteq Live \ {s}
      /\ Live \subseteq Sections /\ \A r \in Live : buffer[r] \in Buffers
  <2>1. order \in Seq(Sections)
    BY DEF IOTypes
  <2>2. Position(s) # 0 => order[Position(s)] \in Live \ {s}
    BY <2>1, PositionFacts
  <2> QED
    BY <2>2 DEF Victims, Live, IOTypes
<1>7. fs \in SUBSET Buffers
  BY <1>5, <1>6 DEF Live
<1>8. ASSUME NEW b \in fs, b # new
      PROVE  \E r \in Live : b = buffer[r] /\ (r \in Victims(s) \/ (r = s /\ ~Holds(s, p)))
  BY <1>8, <1>6 DEF Live
<1>9. new \in fs => full
  <2> SUFFICES ASSUME new \in fs, ~full PROVE FALSE
    OBVIOUS
  <2>1. PICK r \in Live : new = buffer[r] /\ (r \in Victims(s) \/ (r = s /\ ~Holds(s, p)))
    BY <1>6 DEF Live
  <2>2. buffer[r].page = p
    BY <2>1
  <2>3. r = s
    BY <2>2, <1>3, BufferIsView
  <2> QED
    BY <2>1, <2>2, <2>3, <1>6 DEF Holds, Live
<1> HIDE DEF new, moved, full, fs
<1>10. /\ new.page = p /\ new.data = [Kept(s, p) EXCEPT ![n] = store[t].id]
       /\ Holds(s, p) \/ n = 0
  BY <1>2, <1>4 DEF new, MidPage
<1>11. /\ buffer' \in [Sections -> Buffers \cup {NoBuffer}]
       /\ \A r \in Sections : buffer'[r] \in {NoBuffer, buffer[r]} \/ (r = s /\ buffer'[r] = new)
  BY <1>4, <1>5 DEF IOTypes
<1>12. /\ disk' \in [1..MaxPages -> Data] /\ cache' \in Seq(CachedPages)
       /\ torn \subseteq torn' /\ \A q \in torn' : q \in torn \/ \E b \in fs : b.page = q
       /\ \A q \in 1..MaxPages :
            \/ \E b \in fs : b.page = q /\ (disk'[q] = b.data \/ q \in torn')
            \/ disk'[q] = disk[q] /\ \A b \in fs : b.page # q
       /\ Len(cache') = Len(cache) /\ DOMAIN cache' = DOMAIN cache
       /\ \A k \in DOMAIN cache :
            /\ cache'[k].page = cache[k].page
            /\ \/ \E b \in fs : b.page = cache[k].page /\ cache'[k].data = b.data
               \/ cache'[k] = cache[k]
       /\ LoadsKept /\ \A b \in fs : LateOn(b.page)
  BY <1>4, <1>7, FlushFacts DEF IOTypes
<1>13. \A q \in 1..MaxPages : disk'[q] = disk[q] \/ q = p \/ \E r \in Live : buffer[r].page = q
  BY <1>8, <1>10, <1>12
<1>14. \A b \in fs : b.page = p => b = new
  <2> SUFFICES ASSUME NEW b \in fs, b.page = p, b # new PROVE FALSE
    OBVIOUS
  <2>1. PICK r \in Live : b = buffer[r] /\ (r \in Victims(s) \/ (r = s /\ ~Holds(s, p)))
    BY <1>8
  <2>2. r = s
    BY <2>1, <1>3, BufferIsView
  <2> QED
    BY <2>1, <2>2, <1>6 DEF Holds, Live
<1>15. View(p)' = new.data \/ p \in torn'
  <2>1. CASE full
    <3>1. new \in fs
      BY <2>1 DEF fs
    <3>2. disk'[p] = new.data \/ p \in torn'
      BY <3>1, <1>3, <1>10, <1>12, <1>14
    <3>3. buffer'[s] = NoBuffer
      BY <2>1, <1>4
    <3> QED
      BY <3>2, <3>3, <1>3, <1>4 DEF View, Holds
  <2>2. CASE ~full
    <3>1. buffer'[s] = new /\ new # NoBuffer
      BY <2>2, <1>4, <1>5, NoBufferAssumption
    <3> QED
      BY <3>1, <1>3, <1>4, <1>10 DEF View, Holds
  <2> QED
    BY <2>1, <2>2
<1>16. ASSUME NEW q \in DOMAIN pages, q # p
       PROVE  /\ View(q)' = View(q) \/ q \in torn'
              /\ \A b \in fs : b.page = q => b.data = View(q)
              /\ LateOn(q) \/ (Holds(pages[q].section, q) => Holds(pages[q].section, q)')
  <2>1. q \in 1..MaxPages /\ pages[q].section \in Sections
    <3>1. pages \in Seq(Page) /\ pages[q] \in Page
      BY DEF SlotInv, AllocTypeOK
    <3> QED
      BY <3>1, SlotBoundsAssumption DEF IOTypes, Page
  <2> DEFINE r == pages[q].section
  <2>2. ASSUME NEW b \in fs, b.page = q
        PROVE  /\ b = buffer[r] /\ r \in Live /\ b.data = View(q)
               /\ r \in Victims(s) \/ (r = s /\ ~Holds(s, p))
    <3>1. PICK x \in Live : b = buffer[x] /\ (x \in Victims(s) \/ (x = s /\ ~Holds(s, p)))
      BY <1>8, <1>10, <1>16, <2>2
    <3> QED
      BY <3>1, <2>2, BufferIsView
  <2>3. CASE \E b \in fs : b.page = q
    <3>1. PICK b \in fs : b.page = q
      BY <2>3
    <3>2. b = buffer[r] /\ r \in Live /\ (r \in Victims(s) \/ (r = s /\ ~Holds(s, p)))
      BY <3>1, <2>2
    <3>3. buffer'[r] = NoBuffer \/ buffer'[r] = new
      BY <3>2, <2>1, <1>4
    <3>4. ~Holds(r, q)'
      BY <3>3, <1>4, <1>10, <1>16 DEF Holds
    <3>5. disk'[q] = View(q) \/ q \in torn'
      BY <2>1, <2>2, <2>3, <1>12
    <3>6. LateOn(q)
      BY <3>1, <1>12
    <3> QED
      BY <3>4, <3>5, <3>6, <2>2, <1>4 DEF View
  <2>4. CASE \A b \in fs : b.page # q
    <3>1. disk'[q] = disk[q]
      BY <2>1, <2>4, <1>12
    <3>2. CASE Holds(r, q)
      <4>1. buffer[r] \notin fs /\ r \in Live /\ buffer[r].page = q
        BY <3>2, <2>1, <2>4 DEF Holds, Live
      <4>2. r # s /\ r \notin Victims(s)
        <5>1. r \notin Victims(s)
          BY <4>1 DEF fs
        <5>2. r # s
          <6> SUFFICES ASSUME r = s PROVE FALSE
            OBVIOUS
          <6>1. buffer[s] # NoBuffer /\ ~Holds(s, p)
            BY <4>1, <1>16 DEF Holds, Live
          <6> QED
            BY <6>1, <4>1 DEF fs, moved
        <5> QED
          BY <5>1, <5>2
      <4>3. buffer'[r] = buffer[r]
        BY <4>2, <2>1, <1>4
      <4> QED
        BY <4>3, <2>4, <3>2, <1>4 DEF View, Holds
    <3>3. CASE ~Holds(r, q)
      <4>1. ~Holds(r, q)'
        BY <3>3, <2>1, <1>4, <1>10, <1>11, <1>16 DEF Holds
      <4> QED
        BY <4>1, <3>1, <3>3, <2>4, <1>4 DEF View
    <3> QED
      BY <3>2, <3>3
  <2> QED
    BY <2>2, <2>3, <2>4
<1>17. ASSUME NEW k \in DOMAIN cache
       PROVE  \/ cache'[k] = cache[k]
              \/ cache'[k].data = View(cache[k].page)' \/ cache[k].page \in torn'
  <2>1. CASE \E b \in fs : b.page = cache[k].page /\ cache'[k].data = b.data
    <3>1. PICK b \in fs : b.page = cache[k].page /\ cache'[k].data = b.data
      BY <2>1
    <3>2. CASE b.page = p
      BY <3>1, <3>2, <1>12, <1>14, <1>15
    <3>3. CASE b.page # p
      <4>1. b.page \in DOMAIN pages
        BY <3>3, <1>8, <1>10, BufferIsView
      <4>2. View(b.page)' = b.data \/ b.page \in torn'
        BY <3>3, <4>1, <1>16
      <4> QED
        BY <3>1, <4>2, <1>4, <1>12, SMTT(30) DEF View, Holds
    <3> QED
      BY <3>2, <3>3
  <2> QED
    BY <2>1, <1>12
<1>18. LateOn(p) \/ (Holds(s, p) => Holds(s, p)')
  <2>1. CASE full
    BY <2>1, <1>10, <1>12 DEF fs
  <2>2. CASE ~full
    BY <2>2, <1>4, <1>5, <1>10, NoBufferAssumption DEF Holds
  <2> QED
    BY <2>1, <2>2
<1>19. torn' \subseteq DOMAIN pages
  <2>1. \A b \in fs : b.page \in DOMAIN pages
    BY <1>8, <1>10, BufferIsView
  <2> QED
    BY <2>1, <1>12 DEF IOTypes
<1>20. Wrote(t, s, p, n, new)
  <2>1. \A q \in DOMAIN pages :
          LateOn(q) \/ (Holds(pages[q].section, q) => Holds(pages[q].section, q)')
    <3> SUFFICES ASSUME NEW q \in DOMAIN pages
                 PROVE  LateOn(q) \/ (Holds(pages[q].section, q) => Holds(pages[q].section, q)')
      OBVIOUS
    <3>1. CASE q = p
      BY <3>1, <1>3, <1>4, <1>18 DEF Holds
    <3>2. CASE q # p
      BY <3>2, <1>16
    <3> QED
      BY <3>1, <3>2
  <2> QED
    BY <2>1, <1>2, <1>10, <1>11, <1>12, <1>13, <1>15, <1>16, <1>17, <1>19 DEF Wrote
<1> QED
  BY <1>3, <1>5, <1>20

\* What a queue holds after its first k entries went and s was put behind.
Requeue(o, k, s, own) == SubSeq(o, k + 1, Len(o)) \o <<s>> \o own

LEMMA Requeued ==
  ASSUME NEW S, NEW o \in Seq(S), NEW k \in Nat, 0 < k, k <= Len(o), NEW s \in S, NEW own \in Seq(S)
  PROVE  /\ Requeue(o, k, s, own) \in Seq(S)
         /\ \E j \in DOMAIN Requeue(o, k, s, own) : Requeue(o, k, s, own)[j] = s
         /\ \A i \in DOMAIN o : i > k =>
              \E j \in DOMAIN Requeue(o, k, s, own) : Requeue(o, k, s, own)[j] = o[i]
<1>1. PICK l \in Nat : l = Len(o) /\ DOMAIN o = 1..l /\ k <= l
  OBVIOUS
<1>2. PICK m \in Nat : m = l - k
  <2>1. l - k \in Nat
    BY <1>1
  <2> QED
    BY <2>1
<1>3. PICK rest \in Seq(S) : /\ rest = SubSeq(o, k + 1, Len(o)) /\ Len(rest) = m
                            /\ \A i \in Nat : 0 < i /\ i <= m => rest[i] = o[k + i]
  <2>1. \A i \in (k + 1)..l : o[i] \in S
    BY <1>1
  <2>2. k + 1 \in Int /\ l \in Int
    BY <1>1
  <2>3. /\ SubSeq(o, k + 1, l) \in Seq(S)
        /\ Len(SubSeq(o, k + 1, l)) = IF k + 1 <= l THEN l - (k + 1) + 1 ELSE 0
        /\ \A i \in 1..(l - (k + 1) + 1) : SubSeq(o, k + 1, l)[i] = o[(k + 1) + i - 1]
    BY <2>1, <2>2, SubSeqProperties
  <2>4. Len(SubSeq(o, k + 1, l)) = m
    BY <1>1, <1>2, <2>3
  <2>5. ASSUME NEW i \in Nat, 0 < i, i <= m PROVE SubSeq(o, k + 1, l)[i] = o[k + i]
    <3>1. i \in 1..(l - (k + 1) + 1) /\ (k + 1) + i - 1 = k + i
      BY <1>1, <1>2, <2>5
    <3> QED
      BY <3>1, <2>3
  <2> QED
    BY <1>1, <2>3, <2>4, <2>5
<1>4. PICK front \in Seq(S) : /\ front = rest \o <<s>> /\ Len(front) = m + 1
                             /\ \A i \in Nat : 0 < i /\ i <= m => front[i] = o[k + i]
                             /\ front[m + 1] = s
  <2>1. <<s>> \in Seq(S) /\ Len(<<s>>) = 1 /\ <<s>>[1] = s
    OBVIOUS
  <2>2. /\ rest \o <<s>> \in Seq(S) /\ Len(rest \o <<s>>) = Len(rest) + Len(<<s>>)
        /\ \A i \in 1..(Len(rest) + Len(<<s>>)) :
             (rest \o <<s>>)[i] = IF i <= Len(rest) THEN rest[i] ELSE <<s>>[i - Len(rest)]
    BY <2>1, ConcatProperties
  <2>3. (rest \o <<s>>)[m + 1] = s
    <3>1. m + 1 \in 1..(Len(rest) + Len(<<s>>)) /\ ~(m + 1 <= Len(rest)) /\ m + 1 - Len(rest) = 1
      BY <1>3, <2>1
    <3> QED
      BY <3>1, <2>1, <2>2
  <2>4. ASSUME NEW i \in Nat, 0 < i, i <= m PROVE (rest \o <<s>>)[i] = o[k + i]
    <3>1. i \in 1..(Len(rest) + Len(<<s>>)) /\ i <= Len(rest)
      BY <1>3, <2>1, <2>4
    <3> QED
      BY <3>1, <1>3, <2>2, <2>4
  <2> QED
    BY <1>3, <2>1, <2>2, <2>3, <2>4
<1>5. PICK n \in Nat : n = Len(own)
  OBVIOUS
<1> DEFINE o2 == front \o own
<1>6. /\ o2 \in Seq(S) /\ Len(o2) = Len(front) + Len(own)
      /\ \A i \in 1..(Len(front) + Len(own)) :
           o2[i] = IF i <= Len(front) THEN front[i] ELSE own[i - Len(front)]
  BY ConcatProperties
<1> HIDE DEF o2
<1>7. DOMAIN o2 = 1..Len(o2)
  BY <1>6
<1>8. \A i \in Nat : 0 < i /\ i <= m + 1 => i \in DOMAIN o2 /\ o2[i] = front[i]
  <2> SUFFICES ASSUME NEW i \in Nat, 0 < i, i <= m + 1 PROVE i \in DOMAIN o2 /\ o2[i] = front[i]
    OBVIOUS
  <2>1. i \in 1..(Len(front) + Len(own)) /\ i <= Len(front)
    BY <1>4, <1>5
  <2> QED
    BY <2>1, <1>6, <1>7
<1>9. m + 1 \in DOMAIN o2 /\ o2[m + 1] = s
  <2>1. m + 1 \in Nat /\ 0 < m + 1 /\ m + 1 <= m + 1
    OBVIOUS
  <2> QED
    BY <2>1, <1>4, <1>8
<1>10. ASSUME NEW i \in DOMAIN o, i > k PROVE i - k \in DOMAIN o2 /\ o2[i - k] = o[i]
  <2>1. i - k \in Nat /\ 0 < i - k /\ i - k <= m /\ i - k <= m + 1 /\ k + (i - k) = i
    BY <1>10, <1>1, <1>2
  <2> QED
    BY <2>1, <1>4, <1>8
<1>11. o2 = Requeue(o, k, s, own)
  BY <1>3, <1>4 DEF o2, Requeue
<1>12. /\ \E j \in DOMAIN o2 : o2[j] = s
       /\ \A i \in DOMAIN o : i > k => \E j \in DOMAIN o2 : o2[j] = o[i]
  BY <1>9, <1>10
<1> QED
  BY <1>6, <1>11, <1>12

\* The sections with a buffer after a write, and the queue.
BufferCaps ==
  BufferCap > 0 => /\ IsFiniteSet(Live) /\ Cardinality(Live) <= BufferCap
                   /\ \A s \in Live : \E k \in DOMAIN order : order[k] = s

\* The eviction loop finds a victim whenever a new buffer exceeds the cap,
\* and drops nothing but that victim and stale entries from the queue.
LEMMA BufferWriteCaps ==
  ASSUME SlotInv, IOTypes, AtHome, BufferCaps, NEW t \in Threads, BufferWrite(t)
  PROVE  order' \in Seq(Sections) /\ BufferCaps'
<1>1. PICK s \in Sections, p \in DOMAIN pages, n \in Slots, new \in Buffers :
        Wrote(t, s, p, n, new)
  BY BufferWriteFacts
<1>2. s = store[t].section /\ order' = OrderAfter(s)
      /\ \A x \in Sections \ {s} : x \in Victims(s) => buffer'[x] = NoBuffer
  BY <1>1 DEF BufferWrite, Wrote
<1>3. Live' \subseteq Live \cup {s} /\ Live' \cap (Victims(s) \ {s}) = {}
  BY <1>1, <1>2 DEF Wrote, Live
<1>4. order \in Seq(Sections) /\ DOMAIN order = 1..Len(order) /\ Len(order) \in Nat
  BY DEF IOTypes
<1>5. CASE buffer[s] # NoBuffer
  <2>1. order' = order /\ s \in Live
    BY <1>2, <1>5 DEF OrderAfter, Live
  <2>2. Live' \subseteq Live
    BY <2>1, <1>3
  <2>3. IsFiniteSet(Live) => IsFiniteSet(Live') /\ Cardinality(Live') <= Cardinality(Live)
    BY <2>2, FS_Subset
  <2>4. BufferCap > 0 => Cardinality(Live) \in Nat /\ IsFiniteSet(Live') /\ Cardinality(Live') \in Nat
    BY <2>3, FS_CardinalityType DEF BufferCaps
  <2> QED
    BY <2>1, <2>2, <2>3, <2>4, <1>4, BufferCapAssumption DEF BufferCaps
<1>6. CASE buffer[s] = NoBuffer /\ BufferCap = 0
  BY <1>2, <1>4, <1>6 DEF OrderAfter, BufferCaps
<1>7. CASE buffer[s] = NoBuffer /\ BufferCap > 0
  <2>1. s \notin Live /\ IsFiniteSet(Live) /\ Cardinality(Live) \in Nat /\ Cardinality(Live) <= BufferCap
        /\ \A x \in Live : \E k \in DOMAIN order : order[k] = x
    BY <1>7, FS_CardinalityType DEF BufferCaps, Live
  <2>2. CASE OverCap
    <3>1. Live # {}
      <4>1. Cardinality(Live) # 0
        BY <2>1, <2>2, BufferCapAssumption DEF OverCap
      <4> QED
        BY <4>1, FS_EmptySet
    <3>2. PICK k \in 1..Len(order) :
            /\ k = Position(s) /\ order[k] \in Live
            /\ \A j \in 1..Len(order) : order[j] \in Live => k <= j
      <4>1. Live \ {s} = Live
        BY <2>1
      <4>2. \E j \in 1..Len(order) : order[j] \in Live
        BY <3>1, <2>1, <1>4
      <4> QED
        BY <4>1, <4>2, <1>4, PositionFacts
    <3>3. Victims(s) = {order[k]}
      BY <3>2, <2>2, <1>7 DEF Victims
    <3>4. PICK own \in Seq(Sections) : order' = Requeue(order, k, s, own)
      <4> DEFINE own == [j \in 1..Cardinality({i \in 1..k : order[i] = s}) |-> s]
      <4>1. order' = Requeue(order, k, s, own)
        <5>1. ~(buffer[s] # NoBuffer \/ BufferCap = 0) /\ Victims(s) # {}
          BY <1>7, <3>3, BufferCapAssumption
        <5> QED
          BY <5>1, <1>2, <3>2 DEF OrderAfter, Requeue
      <4>2. IsFiniteSet({i \in 1..k : order[i] = s})
        <5>1. k \in Int /\ IsFiniteSet(1..k)
          BY FS_Interval
        <5>2. {i \in 1..k : order[i] = s} \subseteq 1..k
          OBVIOUS
        <5> QED
          BY <5>1, <5>2, FS_Subset
      <4>3. Cardinality({i \in 1..k : order[i] = s}) \in Nat
        BY <4>2, FS_CardinalityType
      <4>4. own \in Seq(Sections)
        BY <4>3
      <4> QED
        BY <4>1, <4>4
    <3>5. /\ order' \in Seq(Sections) /\ \E j \in DOMAIN order' : order'[j] = s
          /\ \A i \in 1..Len(order) : i > k => \E j \in DOMAIN order' : order'[j] = order[i]
      <4>1. k \in Nat /\ 0 < k /\ k <= Len(order)
        BY <1>4
      <4> QED
        BY <4>1, <3>4, <1>4, Requeued, SMTT(30)
    <3>6. Live' \subseteq (Live \ {order[k]}) \cup {s}
      BY <1>3, <2>1, <3>2, <3>3
    <3>7. ASSUME NEW x \in Live' PROVE \E j \in DOMAIN order' : order'[j] = x
      <4>1. CASE x = s
        BY <4>1, <3>5
      <4>2. CASE x # s
        <5>1. x \in Live /\ x # order[k]
          BY <4>2, <3>6
        <5>2. PICK i \in 1..Len(order) : order[i] = x
          BY <5>1, <2>1, <1>4
        <5>3. i > k
          BY <5>1, <5>2, <3>2
        <5> QED
          BY <5>2, <5>3, <3>5
      <4> QED
        BY <4>1, <4>2
    <3>8. /\ IsFiniteSet((Live \ {order[k]}) \cup {s})
          /\ Cardinality((Live \ {order[k]}) \cup {s}) <= Cardinality(Live)
      <4>1. IsFiniteSet(Live \ {order[k]}) /\ Cardinality(Live \ {order[k]}) = Cardinality(Live) - 1
        BY <2>1, <3>2, FS_RemoveElement
      <4>2. /\ IsFiniteSet((Live \ {order[k]}) \cup {s})
            /\ \/ Cardinality((Live \ {order[k]}) \cup {s}) = Cardinality(Live \ {order[k]})
               \/ Cardinality((Live \ {order[k]}) \cup {s}) = Cardinality(Live \ {order[k]}) + 1
        BY <4>1, FS_AddElement, Zenon
      <4> QED
        BY <4>1, <4>2, <2>1
    <3>9. IsFiniteSet(Live') /\ Cardinality(Live') <= Cardinality((Live \ {order[k]}) \cup {s})
      BY <3>6, <3>8, FS_Subset
    <3>10. Cardinality(Live') \in Nat /\ Cardinality((Live \ {order[k]}) \cup {s}) \in Nat
      BY <3>8, <3>9, FS_CardinalityType
    <3>11. Cardinality(Live') <= BufferCap
      BY <3>8, <3>9, <3>10, <2>1, BufferCapAssumption
    <3> QED
      BY <3>5, <3>7, <3>9, <3>11 DEF BufferCaps
  <2>3. CASE ~OverCap
    <3>1. Cardinality(Live) + 1 <= BufferCap
      BY <2>1, <2>3, <1>7, BufferCapAssumption DEF OverCap
    <3>2. order' = Append(order, s)
      BY <1>2, <1>7, <2>3, BufferCapAssumption DEF OrderAfter, Victims
    <3>3. /\ order' \in Seq(Sections) /\ order'[Len(order) + 1] = s /\ Len(order) + 1 \in DOMAIN order'
          /\ \A j \in DOMAIN order : j \in DOMAIN order' /\ order'[j] = order[j]
      BY <3>2, <1>4
    <3>4. \A x \in Live' : \E j \in DOMAIN order' : order'[j] = x
      BY <3>3, <2>1, <1>3
    <3>5. IsFiniteSet(Live \cup {s}) /\ Cardinality(Live \cup {s}) = Cardinality(Live) + 1
      BY <2>1, FS_AddElement
    <3>6. IsFiniteSet(Live') /\ Cardinality(Live') <= Cardinality(Live \cup {s})
      BY <3>5, <1>3, FS_Subset
    <3>7. Cardinality(Live') \in Nat
      BY <3>6, FS_CardinalityType
    <3>8. Cardinality(Live') <= BufferCap
      BY <3>1, <3>5, <3>6, <3>7, <2>1, BufferCapAssumption
    <3> QED
      BY <3>3, <3>4, <3>6, <3>8 DEF BufferCaps
  <2> QED
    BY <2>2, <2>3
<1> QED
  BY <1>5, <1>6, <1>7, BufferCapAssumption

(***************************************************************************)
(* The invariant for any threads                                           *)
(***************************************************************************)

\* A step of the allocator only adds pages, and a writer takes slots of its
\* own section.
LEMMA StoreFacts ==
  ASSUME SlotInv, AtHome, Len(pages) <= MaxPages, NEW t \in Threads, Store(t)
  PROVE  /\ saved' = saved
         /\ Len(pages) <= Len(pages') /\ Len(pages') <= MaxPages
         /\ \A p \in DOMAIN pages : p \in DOMAIN pages' /\ pages'[p].section = pages[p].section
         /\ \A u \in Threads \ {t} : store'[u] = store[u]
         /\ Busy(t)' => store'[t].section \in SectionsOf[t]
         /\ Holding(t)' => pages'[store'[t].page].section = store'[t].section
<1>1. pages \in Seq(Page) /\ Len(pages) \in Nat
  BY DEF SlotInv, AllocTypeOK
<1>2. ASSUME NEW i \in Ids, NEW s \in SectionsOf[t], BeginStore(t, i, s)
      PROVE  /\ saved' = saved /\ pages' = pages
             /\ \A u \in Threads \ {t} : store'[u] = store[u]
             /\ store'[t].section \in SectionsOf[t] /\ ~Holding(t)'
  BY <1>2 DEF BeginStore, SlotInv, AllocTypeOK, Holding
<1>3. CASE TakeFree(t)
  <2>1. store[t] \in Looking /\ store[t].section \in Sections /\ Busy(t)
    BY <1>3, WriterShape DEF TakeFree, Busy
  <2>2. PICK f \in free[store[t].section] : Take(t, f[1], f[2], "write")
    BY <1>3 DEF TakeFree
  <2>3. /\ saved' = saved /\ pages' = pages
        /\ \A u \in Threads \ {t} : store'[u] = store[u]
        /\ store'[t].section = store[t].section /\ store'[t].page = f[1]
    BY <1>3, <2>2 DEF TakeFree, Take, SlotInv, AllocTypeOK
  <2>4. pages[f[1]].section = store[t].section
    BY <2>1, <2>2 DEF SlotInv, InUse
  <2> QED
    BY <1>1, <2>1, <2>3, <2>4 DEF AtHome
<1>4. CASE TakeOpen(t)
  <2>1. store[t] \in Looking /\ store[t].section \in Sections /\ Busy(t)
    BY <1>4, WriterShape DEF TakeOpen, Busy
  <2>2. PICK p \in open[store[t].section] :
          pages' = [pages EXCEPT ![p].used = @ + 1] /\ Take(t, p, pages[p].used, "write")
    BY <1>4 DEF TakeOpen
  <2>3. /\ saved' = saved
        /\ \A u \in Threads \ {t} : store'[u] = store[u]
        /\ store'[t].section = store[t].section /\ store'[t].page = p
    BY <1>4, <2>2 DEF TakeOpen, Take, SlotInv, AllocTypeOK
  <2>4. p \in DOMAIN pages /\ pages[p] \in Page /\ pages[p].section = store[t].section
    BY <1>1, <2>1, <2>2 DEF SlotInv, OpenPagesHaveRoom
  <2>5. /\ DOMAIN pages' = DOMAIN pages /\ Len(pages') = Len(pages)
        /\ \A q \in DOMAIN pages : pages'[q].section = pages[q].section
    BY <1>1, <2>2, <2>4 DEF Page
  <2> QED
    BY <1>1, <2>1, <2>3, <2>4, <2>5 DEF AtHome
<1>5. CASE FreshPage(t)
  <2>1. store[t] \in Looking /\ store[t].section \in Sections /\ Busy(t)
    BY <1>5, WriterShape DEF FreshPage, Busy
  <2>2. /\ saved' = saved /\ Len(pages) < MaxPages
        /\ \A u \in Threads \ {t} : store'[u] = store[u]
        /\ store'[t].section = store[t].section /\ store'[t].page = Len(pages) + 1
        /\ pages' = Append(pages, [section |-> store[t].section, used |-> 1])
    BY <1>5 DEF FreshPage, Take, SlotInv, AllocTypeOK
  <2>3. /\ Len(pages') = Len(pages) + 1
        /\ \A p \in DOMAIN pages : p \in DOMAIN pages' /\ pages'[p] = pages[p]
        /\ pages'[Len(pages) + 1].section = store[t].section
    BY <1>1, <2>2
  <2> QED
    BY <1>1, <2>1, <2>2, <2>3, SlotBoundsAssumption DEF AtHome
<1>6. CASE FindNothing(t) \/ PublishPage(t)
  <2>1. \/ store[t] \in Looking /\ store[t].pc = "find" /\ Busy(t)
        \/ store[t] \in Placing /\ store[t].pc = "publish" /\ Busy(t) /\ Holding(t)
    BY <1>6, WriterShape DEF FindNothing, PublishPage, Busy, Holding
  <2>2. /\ saved' = saved /\ pages' = pages
        /\ \A u \in Threads \ {t} : store'[u] = store[u]
        /\ \/ store'[t] = [store[t] EXCEPT !.pc = "fresh"] /\ store[t].pc = "find"
           \/ store'[t] = [store[t] EXCEPT !.pc = "write"] /\ store[t].pc = "publish"
    BY <1>6 DEF FindNothing, PublishPage, SlotInv, AllocTypeOK
  <2>3. CASE store[t].pc = "find"
    <3>1. store'[t].section = store[t].section /\ store'[t].pc = "fresh"
      BY <2>1, <2>2, <2>3 DEF Looking
    <3> QED
      BY <1>1, <2>1, <2>2, <3>1 DEF AtHome, Holding
  <2>4. CASE store[t].pc = "publish"
    <3>1. store'[t].section = store[t].section /\ store'[t].page = store[t].page
      BY <2>1, <2>2, <2>4 DEF Placing
    <3> QED
      BY <1>1, <2>1, <2>2, <2>4, <3>1 DEF AtHome
  <2> QED
    BY <2>1, <2>3, <2>4
<1>7. CASE AssignLocation(t)
  <2>1. /\ saved' = saved /\ pages' = pages /\ store'[t] = Idle
        /\ \A u \in Threads \ {t} : store'[u] = store[u]
    BY <1>7 DEF AssignLocation, SlotInv, AllocTypeOK
  <2> QED
    BY <1>1, <2>1 DEF Busy, Holding, Idle
<1> QED
  BY <1>1, <1>2, <1>3, <1>4, <1>5, <1>6, <1>7 DEF Store

LEMMA PageInit == Init => PageInv
<1> SUFFICES ASSUME Init PROVE PageInv
  OBVIOUS
<1>1. SlotInv /\ LeakInv
  BY InitSound, LeakInit DEF Init
<1>2. pages = <<>> /\ Len(pages) = 0 /\ saved.pages = <<>> /\ Len(saved.pages) = 0
      /\ \A t \in Threads : ~Busy(t) /\ ~Holding(t)
  BY DEF Init, AllocInit, Busy, Holding, Idle
<1>3. Live = {} /\ \A t \in Threads : ~Loading(t)
  BY DEF Init, Live, Loading, Idle
<1>4. Blank \in Data
  BY DEF Blank, Data
<1>5. IOTypes
  BY <1>2, <1>3, <1>4, SlotBoundsAssumption DEF Init, IOTypes
<1>6. AtHome /\ SavedFirst
  BY <1>2, <1>3 DEF AtHome, SavedFirst
<1>7. Caps
  BY <1>3, FS_EmptySet, BufferCapAssumption DEF Init, Caps, CacheWithinCap
<1> QED
  BY <1>1, <1>5, <1>6, <1>7 DEF PageInv

\* A step of the allocator moves no bytes.
LEMMA PlacePages ==
  ASSUME PageInv, NEW t \in Threads, Place(t)
  PROVE  IOTypes' /\ AtHome' /\ SavedFirst' /\ Caps'
<1>1. Store(t) /\ UNCHANGED <<disk, buffer, order, cache, load, torn, overtaken>>
  BY DEF Place, io
<1>2. /\ saved' = saved
      /\ Len(pages) <= Len(pages') /\ Len(pages') <= MaxPages
      /\ \A p \in DOMAIN pages : p \in DOMAIN pages' /\ pages'[p].section = pages[p].section
      /\ \A u \in Threads \ {t} : store'[u] = store[u]
      /\ Busy(t)' => store'[t].section \in SectionsOf[t]
      /\ Holding(t)' => pages'[store'[t].page].section = store'[t].section
  BY <1>1, StoreFacts DEF PageInv, IOTypes
<1>3. Live' = Live /\ \A u \in Threads : Loading(u)' = Loading(u)
  BY <1>1 DEF Live, Loading
<1>4. IOTypes'
  BY <1>1, <1>2, <1>3 DEF PageInv, IOTypes
<1>5. AtHome'
  <2>1. ASSUME NEW u \in Threads, Busy(u)' PROVE store'[u].section \in SectionsOf[u]
    BY <2>1, <1>2 DEF PageInv, AtHome, Busy
  <2>2. ASSUME NEW u \in Threads, Holding(u)'
        PROVE  pages'[store'[u].page].section = store'[u].section
    <3>1. CASE u = t
      BY <2>2, <3>1, <1>2
    <3>2. CASE u # t
      <4>1. Holding(u) /\ store'[u] = store[u]
        BY <2>2, <3>2, <1>2 DEF Holding
      <4>2. store[u].page \in DOMAIN pages
        BY <4>1, HeldShape DEF PageInv, IOTypes
      <4> QED
        BY <4>1, <4>2, <1>2 DEF PageInv, AtHome
    <3> QED
      BY <3>1, <3>2
  <2>3. \A s \in Live' : buffer'[s].page \in DOMAIN pages' /\ pages'[buffer'[s].page].section = s
    BY <1>1, <1>2, <1>3 DEF PageInv, AtHome
  <2> QED
    BY <2>1, <2>2, <2>3 DEF AtHome
<1>6. SavedFirst'
  <2>1. Len(saved.pages) \in Nat /\ Len(pages) \in Nat /\ Len(pages') \in Nat
    <3>1. SlotInv'
      BY SlotNext, <1>1 DEF PageInv, AllocNext
    <3> QED
      BY <3>1 DEF PageInv, SlotInv, AllocTypeOK
  <2> QED
    BY <1>2, <2>1 DEF PageInv, SavedFirst
<1>7. Caps'
  BY <1>1, <1>3 DEF PageInv, Caps, CacheWithinCap
<1> QED
  BY <1>4, <1>5, <1>6, <1>7

\* The steps of a writer that has its slot keep it at home.
LEMMA MoveHome ==
  ASSUME PageInv, NEW t \in Threads, NEW pc \in {"direct", "cached", "assign"}, Move(t, pc)
  PROVE  /\ \A u \in Threads : Busy(u)' => store'[u].section \in SectionsOf[u]
         /\ \A u \in Threads : Holding(u)' => pages'[store'[u].page].section = store'[u].section
         /\ pages' = pages /\ saved' = saved
<1>1. /\ store'[t].section = store[t].section /\ store'[t].page = store[t].page
      /\ \A u \in Threads \ {t} : store'[u] = store[u]
      /\ \A u \in Threads : Busy(u)' = Busy(u) /\ Holding(u)' = Holding(u)
  BY MoveFacts DEF PageInv
<1>2. pages' = pages /\ saved' = saved
  BY DEF Move
<1>3. \A u \in Threads : store'[u].section = store[u].section /\ store'[u].page = store[u].page
  BY <1>1
<1> QED
  BY <1>1, <1>2, <1>3 DEF PageInv, AtHome

LEMMA BufferWritePages ==
  ASSUME PageInv, NEW t \in Threads, BufferWrite(t)
  PROVE  IOTypes' /\ AtHome' /\ SavedFirst' /\ Caps'
<1>1. Move(t, "cached") /\ overtaken' = overtaken
  BY Moves DEF BufferWrite
<1>2. PICK s \in Sections, p \in DOMAIN pages, n \in Slots, new \in Buffers :
        p \in 1..MaxPages /\ pages[p].section = s /\ Wrote(t, s, p, n, new)
  BY BufferWriteFacts DEF PageInv
<1>3. order' \in Seq(Sections) /\ BufferCaps'
  BY BufferWriteCaps DEF PageInv, Caps, BufferCaps
<1>4. /\ pages' = pages /\ saved' = saved /\ LoadsKept
      /\ \A u \in Threads : Loading(u)' = Loading(u)
  BY <1>1, <1>2 DEF Move, Wrote, LoadsKept
<1>5. IOTypes'
  BY <1>1, <1>2, <1>3, <1>4 DEF PageInv, IOTypes, Wrote, LoadsKept
<1>6. \A r \in Live' : \/ r \in Live /\ buffer'[r] = buffer[r]
                       \/ r = s /\ buffer'[r].page = p
  BY <1>2 DEF Wrote, Live
<1>7. \A r \in Live' : buffer'[r].page \in DOMAIN pages /\ pages[buffer'[r].page].section = r
  BY <1>2, <1>6 DEF PageInv, AtHome
<1>8. AtHome'
  BY <1>1, <1>4, <1>7, MoveHome DEF AtHome
<1>9. SavedFirst'
  BY <1>4 DEF PageInv, SavedFirst
<1>10. CacheWithinCap'
  BY <1>2 DEF PageInv, Caps, CacheWithinCap, Wrote
<1>11. Caps'
  BY <1>3, <1>4, <1>10 DEF PageInv, Caps, BufferCaps
<1> QED
  BY <1>5, <1>8, <1>9, <1>11

\* Steps that leave the buffers alone.
LEMMA MovePages ==
  ASSUME PageInv, NEW t \in Threads, NEW pc \in {"direct", "cached", "assign"}, Move(t, pc),
         UNCHANGED <<buffer, order, torn>>, LoadsKept, disk' \in [1..MaxPages -> Data],
         overtaken' \subseteq DOMAIN pages, cache' \in Seq(CachedPages), Len(cache') = Len(cache), DOMAIN cache' = DOMAIN cache,
         \A k \in DOMAIN cache : cache'[k].page = cache[k].page
  PROVE  IOTypes' /\ AtHome' /\ SavedFirst' /\ Caps'
<1>1. pages' = pages /\ saved' = saved /\ Live' = Live /\ \A u \in Threads : Loading(u)' = Loading(u)
  BY DEF Move, LoadsKept, Live
<1>2. IOTypes' /\ SavedFirst'
  BY <1>1 DEF PageInv, IOTypes, SavedFirst, LoadsKept
<1>3. AtHome'
  BY <1>1, MoveHome DEF PageInv, AtHome
<1>4. Caps'
  BY <1>1 DEF PageInv, Caps, CacheWithinCap
<1> QED
  BY <1>2, <1>3, <1>4

\* Changing one record keeps a page a page.
LEMMA RecordChange ==
  ASSUME NEW d \in Data, NEW n \in Slots, NEW i \in Ids
  PROVE  [d EXCEPT ![n] = i] \in Data
BY DEF Data

\* A load that nothing happens to.
LEMMA LoadsStay ==
  ASSUME PageInv, load' = load
  PROVE  LoadsKept
BY DEF PageInv, IOTypes, LoadsKept, Loading

LEMMA WritePages ==
  ASSUME PageInv, NEW t \in Threads, Bypass(t) \/ DirectWrite(t) \/ UpdateCache(t)
  PROVE  IOTypes' /\ AtHome' /\ SavedFirst' /\ Caps'
<1>1. CASE Bypass(t)
  <2>1. /\ Move(t, "direct") /\ UNCHANGED <<disk, buffer, order, cache, load, torn>>
        /\ Holding(t)
    BY <1>1, Moves DEF Bypass, Holding
  <2>2. disk' \in [1..MaxPages -> Data] /\ cache' \in Seq(CachedPages) /\ LoadsKept
    BY <2>1, LoadsStay DEF PageInv, IOTypes
  <2>3. store[t].page \in DOMAIN pages
    BY <2>1, HeldShape DEF PageInv, IOTypes
  <2>4. overtaken' \subseteq DOMAIN pages
    BY <1>1, <2>3 DEF Bypass, PageInv, IOTypes
  <2> QED
    BY <2>1, <2>2, <2>4, MovePages
<1>2. CASE DirectWrite(t)
  <2>1. Move(t, "cached") /\ Holding(t) /\ UNCHANGED <<buffer, order, cache, load, torn, overtaken>>
    BY <1>2, Moves DEF DirectWrite, Holding
  <2>2. PICK p \in 1..MaxPages, n \in Slots, i \in Ids :
          p = store[t].page /\ n = store[t].slot /\ i = store[t].id
    BY <2>1, HeldShape DEF PageInv, IOTypes
  <2>3. disk' = [disk EXCEPT ![p][n] = i] /\ disk[p] \in Data
    BY <1>2, <2>2 DEF DirectWrite, PageInv, IOTypes
  <2>4. disk' \in [1..MaxPages -> Data]
    BY <2>3, RecordChange DEF PageInv, IOTypes
  <2>5. cache' \in Seq(CachedPages) /\ LoadsKept /\ overtaken' \subseteq DOMAIN pages
    BY <2>1, LoadsStay DEF PageInv, IOTypes
  <2> QED
    BY <2>1, <2>4, <2>5, MovePages
<1>3. CASE UpdateCache(t)
  <2>1. Move(t, "assign") /\ Holding(t) /\ UNCHANGED <<disk, buffer, order, torn, overtaken>>
    BY <1>3, Moves DEF UpdateCache, Holding
  <2>2. PICK p \in 1..MaxPages, n \in Slots, i \in Ids :
          p = store[t].page /\ n = store[t].slot /\ i = store[t].id
    BY <2>1, HeldShape DEF PageInv, IOTypes
  <2>3. cache' = [k \in DOMAIN cache |-> IF cache[k].page # p THEN cache[k]
                                         ELSE [cache[k] EXCEPT !.data[n] = i]]
    BY <1>3, <2>2 DEF UpdateCache
  <2>4. cache \in Seq(CachedPages) /\ \A k \in DOMAIN cache : cache[k] \in CachedPages
    BY DEF PageInv, IOTypes
  <2>5. \A k \in DOMAIN cache : cache'[k].page = cache[k].page /\ cache'[k] \in CachedPages
    <3> SUFFICES ASSUME NEW k \in DOMAIN cache
                 PROVE  cache'[k].page = cache[k].page /\ cache'[k] \in CachedPages
      OBVIOUS
    <3>1. CASE cache[k].page # p
      BY <3>1, <2>3, <2>4
    <3>2. CASE cache[k].page = p
      <4>1. cache[k].data \in Data /\ [cache[k].data EXCEPT ![n] = i] \in Data
        BY <2>4, RecordChange DEF CachedPages
      <4>2. cache'[k] = [page |-> p, data |-> [cache[k].data EXCEPT ![n] = i], late |-> cache[k].late]
        BY <3>2, <2>3, <2>4 DEF CachedPages
      <4> QED
        BY <3>2, <4>1, <4>2, <2>4 DEF CachedPages
    <3> QED
      BY <3>1, <3>2
  <2>6. DOMAIN cache' = DOMAIN cache /\ Len(cache') = Len(cache) /\ cache' \in Seq(CachedPages)
    <3>1. Len(cache) \in Nat /\ DOMAIN cache = 1..Len(cache) /\ DOMAIN cache' = DOMAIN cache
      BY <2>3, <2>4
    <3>2. cache' = [k \in 1..Len(cache) |-> cache'[k]]
      BY <2>3, <3>1
    <3> QED
      BY <2>5, <3>1, <3>2
  <2>7. disk' \in [1..MaxPages -> Data] /\ LoadsKept /\ overtaken' \subseteq DOMAIN pages
    BY <1>3, <2>1, LateFacts DEF UpdateCache, PageInv, IOTypes
  <2> QED
    BY <2>1, <2>5, <2>6, <2>7, MovePages
<1> QED
  BY <1>1, <1>2, <1>3

LEMMA DirectFailsPages ==
  ASSUME PageInv, NEW t \in Threads, DirectFails(t)
  PROVE  IOTypes' /\ AtHome' /\ SavedFirst' /\ Caps'
<1>1. /\ UNCHANGED <<pages, saved, disk, buffer, order, cache, load, torn, overtaken>>
      /\ store'[t] = Idle /\ \A u \in Threads \ {t} : store'[u] = store[u]
  BY DEF DirectFails, GiveUp, io, PageInv, SlotInv, AllocTypeOK
<1>2. Live' = Live /\ \A u \in Threads : Loading(u)' = Loading(u)
  BY <1>1 DEF Live, Loading
<1>3. IOTypes' /\ SavedFirst' /\ Caps'
  BY <1>1, <1>2 DEF PageInv, IOTypes, SavedFirst, Caps, CacheWithinCap
<1>4. AtHome'
  BY <1>1, <1>2 DEF PageInv, AtHome, Busy, Holding, Idle
<1> QED
  BY <1>3, <1>4

\* A load takes bytes, and the cache takes the page if it has not got it.
LEMMA LoadPages ==
  ASSUME PageInv, NEW t \in Threads,
         (\E i \in Ids : Pread(t, i)) \/ Overlay(t) \/ Install(t)
  PROVE  IOTypes' /\ AtHome' /\ SavedFirst' /\ Caps'
<1>1. UNCHANGED <<pages, saved, store, disk, buffer, order, torn, overtaken>>
  BY DEF Pread, Overlay, Install, alloc
<1>2. Live' = Live /\ AtHome' /\ SavedFirst'
  BY <1>1 DEF PageInv, AtHome, SavedFirst, Live, Busy, Holding
<1>3. ASSUME NEW i \in Ids, Pread(t, i) PROVE IOTypes' /\ Caps'
  <2>1. loc[i] # NoLoc /\ cache' = cache /\ MaxCached > 0
    BY <1>3 DEF Pread
  <2>2. PICK p \in DOMAIN pages : p = loc[i][1] /\ p \in 1..MaxPages
    BY <2>1, LocatedShape DEF PageInv, IOTypes
  <2>3. load' = [load EXCEPT ![t] = [pc |-> "overlay", page |-> p, data |-> disk[p], late |-> FALSE]]
    BY <1>3, <2>2 DEF Pread
  <2>4. [pc |-> "overlay", page |-> p, data |-> disk[p], late |-> FALSE] \in Loads
    BY <2>2 DEF Loads, PageInv, IOTypes
  <2>5. /\ load' \in [Threads -> Loads \cup {Idle}] /\ load'[t].page = p
        /\ \A u \in Threads \ {t} : load'[u] = load[u]
    BY <2>3, <2>4 DEF PageInv, IOTypes
  <2>6. IOTypes'
    BY <1>1, <2>1, <2>2, <2>5 DEF PageInv, IOTypes, Loading
  <2>7. Caps'
    BY <1>1, <1>2, <2>1, <2>5 DEF PageInv, Caps, CacheWithinCap, Loading
  <2> QED
    BY <2>6, <2>7
<1>4. CASE Overlay(t)
  <2>1. load[t].pc = "overlay" /\ Loading(t) /\ cache' = cache
    BY <1>4 DEF Overlay, Loading
  <2>2. load[t] \in Loads /\ load[t].page \in DOMAIN pages
    BY <2>1 DEF PageInv, IOTypes, Idle
  <2> DEFINE s == pages[load[t].page].section
             d == IF Holds(s, load[t].page) THEN buffer[s].data ELSE load[t].data
  <2>3. load' = [load EXCEPT ![t].pc = "install", ![t].data = d]
    BY <1>4 DEF Overlay
  <2>4. d \in Data
    <3>1. s \in Sections
      <4>1. pages \in Seq(Page) /\ pages[load[t].page] \in Page
        BY <2>2 DEF PageInv, SlotInv, AllocTypeOK
      <4> QED
        BY <4>1 DEF Page
    <3> QED
      BY <2>2, <3>1 DEF Holds, Loads, PageInv, IOTypes, Buffers
  <2> HIDE DEF d
  <2>5. /\ load'[t] = [pc |-> "install", page |-> load[t].page, data |-> d, late |-> load[t].late]
        /\ \A u \in Threads \ {t} : load'[u] = load[u]
    BY <2>2, <2>3 DEF PageInv, IOTypes, Loads
  <2>6. load'[t] \in Loads /\ load'[t].page = load[t].page
    BY <2>2, <2>4, <2>5 DEF Loads
  <2>7. load' \in [Threads -> Loads \cup {Idle}]
    BY <2>3, <2>6 DEF PageInv, IOTypes
  <2>8. IOTypes'
    BY <1>1, <2>1, <2>2, <2>5, <2>6, <2>7 DEF PageInv, IOTypes, Loading
  <2>9. Caps'
    BY <1>1, <1>2, <2>1, <2>5 DEF PageInv, Caps, CacheWithinCap, Loading
  <2> QED
    BY <1>2, <2>8, <2>9
<1>5. CASE Install(t)
  <2>1. /\ load[t].pc = "install" /\ Loading(t)
        /\ load' = [load EXCEPT ![t] = Idle]
    BY <1>5 DEF Install, Loading
  <2>2. load[t] \in Loads /\ load[t].page \in DOMAIN pages
    BY <2>1 DEF PageInv, IOTypes, Idle
  <2>3. PICK b \in CachedPages :
          b = [page |-> load[t].page, data |-> load[t].data, late |-> load[t].late]
    <3>1. load[t].page \in 1..MaxPages
      BY <2>2, SlotBoundsAssumption DEF PageInv, IOTypes, SlotInv, AllocTypeOK
    <3> QED
      BY <2>2, <3>1 DEF Loads, CachedPages
  <2>4. /\ load' \in [Threads -> Loads \cup {Idle}]
        /\ \A u \in Threads : Loading(u)' => Loading(u) /\ load'[u] = load[u]
    BY <2>1 DEF PageInv, IOTypes, Loading, Idle
  <2>5. MaxCached \in Nat /\ MaxCached > 0 /\ cache \in Seq(CachedPages) /\ Len(cache) <= MaxCached
    BY <2>1, BufferCapAssumption DEF PageInv, IOTypes, Caps, CacheWithinCap
  <2>6. cache' \in Seq(CachedPages) /\ CacheWithinCap'
    <3>1. CASE Cached(b.page)
      <4>1. cache' = cache
        BY <1>5, <2>3, <3>1 DEF Install
      <4> QED
        BY <4>1, <2>5 DEF PageInv, Caps, CacheWithinCap
    <3>2. CASE ~Cached(b.page)
      <4>1. cache' = Append(IF Len(cache) < MaxCached THEN cache ELSE Tail(cache), b)
        BY <1>5, <2>3, <3>2 DEF Install
      <4> DEFINE c == IF Len(cache) < MaxCached THEN cache ELSE Tail(cache)
      <4>2. /\ c \in Seq(CachedPages) /\ Len(c) < MaxCached
            /\ \/ \A k \in DOMAIN c : k \in DOMAIN cache /\ c[k] = cache[k]
               \/ \A k \in DOMAIN c : k + 1 \in DOMAIN cache /\ c[k] = cache[k + 1]
        <5>1. CASE Len(cache) < MaxCached
          BY <5>1, <2>5
        <5>2. CASE ~(Len(cache) < MaxCached)
          <6>1. cache # <<>> /\ Len(cache) = MaxCached
            BY <5>2, <2>5
          <6>2. /\ Tail(cache) \in Seq(CachedPages) /\ Len(Tail(cache)) = Len(cache) - 1
                /\ \A k \in DOMAIN Tail(cache) : k + 1 \in DOMAIN cache /\ Tail(cache)[k] = cache[k + 1]
            <7>1. /\ Tail(cache) \in Seq(CachedPages) /\ Len(Tail(cache)) = Len(cache) - 1
                  /\ \A i \in 1..Len(Tail(cache)) : Tail(cache)[i] = cache[i + 1]
              BY <6>1, <2>5, HeadTailProperties
            <7>2. DOMAIN Tail(cache) = 1..Len(Tail(cache)) /\ DOMAIN cache = 1..Len(cache)
              BY <7>1, <2>5
            <7>3. \A k \in DOMAIN Tail(cache) : k + 1 \in DOMAIN cache
              BY <7>1, <7>2, <6>1, <2>5
            <7> QED
              BY <7>1, <7>2, <7>3
          <6> QED
            BY <5>2, <6>1, <6>2, <2>5
        <5> QED
          BY <5>1, <5>2
      <4> HIDE DEF c
      <4>3. \A j, k \in DOMAIN c : c[j].page = c[k].page => j = k
        BY <4>2, <2>5 DEF PageInv, Caps, CacheWithinCap
      <4>4. \A k \in DOMAIN c : c[k].page # b.page
        BY <4>2, <3>2 DEF Cached
      <4>5. /\ cache' \in Seq(CachedPages) /\ Len(cache') = Len(c) + 1 /\ DOMAIN cache' = 1..(Len(c) + 1)
            /\ cache'[Len(c) + 1] = b /\ \A k \in DOMAIN c : cache'[k] = c[k]
            /\ DOMAIN c = 1..Len(c) /\ Len(c) \in Nat
        BY <4>1, <4>2 DEF c
      <4>6. \A j, k \in DOMAIN cache' : cache'[j].page = cache'[k].page => j = k
        <5> SUFFICES ASSUME NEW j \in DOMAIN cache', NEW k \in DOMAIN cache',
                            cache'[j].page = cache'[k].page
                     PROVE  j = k
          OBVIOUS
        <5>1. (j \in DOMAIN c \/ j = Len(c) + 1) /\ (k \in DOMAIN c \/ k = Len(c) + 1)
          BY <4>5
        <5> QED
          BY <5>1, <4>3, <4>4, <4>5
      <4> QED
        BY <4>2, <4>5, <4>6, <2>5 DEF CacheWithinCap
    <3> QED
      BY <3>1, <3>2
  <2>7. IOTypes'
    BY <1>1, <2>4, <2>6 DEF PageInv, IOTypes
  <2>8. Caps'
    BY <1>1, <1>2, <2>4, <2>6 DEF PageInv, Caps
  <2> QED
    BY <1>2, <2>7, <2>8
<1> QED
  BY <1>2, <1>3, <1>4, <1>5

\* flushWrites moves what the buffers hold into the file: no reader sees a
\* difference, but for what a failed flush spoils.
LEMMA FlushWritesFacts ==
  ASSUME SlotInv, IOTypes, AtHome, FlushWrites, UNCHANGED pages
  PROVE  /\ Live' = {} /\ buffer' \in [Sections -> {NoBuffer}] /\ order' = <<>>
         /\ disk' \in [1..MaxPages -> Data]
         /\ \A q \in 1..MaxPages : disk'[q] = disk[q] \/ \E r \in Live : buffer[r].page = q
         /\ \A q \in DOMAIN pages : View(q)' = View(q) \/ q \in torn'
         /\ cache' \in Seq(CachedPages) /\ Len(cache') = Len(cache) /\ DOMAIN cache' = DOMAIN cache
         /\ \A k \in DOMAIN cache :
              /\ cache'[k].page = cache[k].page
              /\ \/ cache'[k] = cache[k]
                 \/ cache'[k].data = View(cache[k].page)' \/ cache[k].page \in torn'
         /\ torn \subseteq torn' /\ torn' \subseteq DOMAIN pages
         /\ LoadsKept
         /\ \A q \in DOMAIN pages : LateOn(q) \/ ~Holds(pages[q].section, q)
<1> DEFINE fs == {buffer[s] : s \in Live}
<1>1. /\ Flush(fs) /\ buffer' = [s \in Sections |-> NoBuffer] /\ order' = <<>>
      /\ fs \in SUBSET Buffers
  BY DEF FlushWrites, IOTypes, Live
<1>2. \A b \in fs : /\ b.page \in DOMAIN pages /\ b.data = View(b.page)
                    /\ \E r \in Live : r = pages[b.page].section /\ b = buffer[r]
  BY BufferIsView
<1>3. ASSUME NEW r \in Live PROVE buffer[r] \in fs
  OBVIOUS
<1> HIDE DEF fs
<1>4. /\ disk' \in [1..MaxPages -> Data] /\ cache' \in Seq(CachedPages)
      /\ torn \subseteq torn' /\ \A q \in torn' : q \in torn \/ \E b \in fs : b.page = q
      /\ LoadsKept /\ \A b \in fs : LateOn(b.page)
      /\ \A q \in 1..MaxPages :
           \/ \E b \in fs : b.page = q /\ (disk'[q] = b.data \/ q \in torn')
           \/ disk'[q] = disk[q] /\ \A b \in fs : b.page # q
      /\ Len(cache') = Len(cache) /\ DOMAIN cache' = DOMAIN cache
      /\ \A k \in DOMAIN cache :
           /\ cache'[k].page = cache[k].page
           /\ \/ \E b \in fs : b.page = cache[k].page /\ cache'[k].data = b.data
              \/ cache'[k] = cache[k]
  BY <1>1, FlushFacts DEF IOTypes
<1>5. Live' = {} /\ buffer' \in [Sections -> {NoBuffer}]
  BY <1>1 DEF Live
<1>6. \A q \in 1..MaxPages : disk'[q] = disk[q] \/ \E r \in Live : buffer[r].page = q
  BY <1>2, <1>4
<1>7. ASSUME NEW q \in DOMAIN pages
      PROVE  /\ View(q)' = View(q) \/ q \in torn'
             /\ LateOn(q) \/ ~Holds(pages[q].section, q)
  <2>1. q \in 1..MaxPages /\ pages[q].section \in Sections
    <3>1. pages \in Seq(Page) /\ pages[q] \in Page
      BY DEF SlotInv, AllocTypeOK
    <3> QED
      BY <3>1, SlotBoundsAssumption DEF IOTypes, Page
  <2>2. View(q)' = disk'[q]
    BY <2>1, <1>1 DEF View, Holds
  <2>3. CASE Holds(pages[q].section, q)
    <3>1. buffer[pages[q].section] \in fs /\ buffer[pages[q].section].page = q
      BY <2>1, <2>3, <1>3 DEF Holds, Live
    <3> QED
      BY <3>1, <2>1, <2>2, <1>2, <1>4
  <2>4. CASE ~Holds(pages[q].section, q)
    <3>1. \A b \in fs : b.page # q
      BY <2>4, <1>2 DEF Holds, Live
    <3> QED
      BY <3>1, <2>1, <2>2, <2>4, <1>4 DEF View
  <2> QED
    BY <2>3, <2>4
<1>8. ASSUME NEW k \in DOMAIN cache
      PROVE  \/ cache'[k] = cache[k]
             \/ cache'[k].data = View(cache[k].page)' \/ cache[k].page \in torn'
  <2>1. CASE \E b \in fs : b.page = cache[k].page /\ cache'[k].data = b.data
    <3>1. PICK b \in fs : b.page = cache[k].page /\ cache'[k].data = b.data
      BY <2>1
    <3>2. View(b.page)' = b.data \/ b.page \in torn'
      BY <1>2, <1>7
    <3> QED
      BY <3>1, <3>2, <1>4 DEF View, Holds
  <2> QED
    BY <2>1, <1>4
<1>9. torn' \subseteq DOMAIN pages
  BY <1>2, <1>4 DEF IOTypes
<1> QED
  BY <1>1, <1>4, <1>5, <1>6, <1>7, <1>8, <1>9

LEMMA CheckpointPages ==
  ASSUME PageInv, NEW t \in Threads, Checkpoint(t)
  PROVE  IOTypes' /\ AtHome' /\ SavedFirst' /\ Caps'
<1>1. /\ UNCHANGED <<pages, store, overtaken>> /\ saved'.pages = pages
      /\ FlushWrites
  BY DEF Checkpoint, Save
<1>2. /\ Live' = {} /\ buffer' \in [Sections -> {NoBuffer}] /\ order' = <<>>
      /\ disk' \in [1..MaxPages -> Data]
      /\ cache' \in Seq(CachedPages) /\ Len(cache') = Len(cache) /\ DOMAIN cache' = DOMAIN cache
      /\ \A k \in DOMAIN cache : cache'[k].page = cache[k].page
      /\ torn' \subseteq DOMAIN pages /\ LoadsKept
  BY <1>1, FlushWritesFacts DEF PageInv
<1>3. \A u \in Threads : Loading(u)' = Loading(u) /\ Busy(u)' = Busy(u) /\ Holding(u)' = Holding(u)
  BY <1>1, <1>2 DEF LoadsKept, Busy, Holding
<1>4. IOTypes'
  BY <1>1, <1>2, <1>3 DEF PageInv, IOTypes, LoadsKept
<1>5. AtHome'
  BY <1>1, <1>2, <1>3 DEF PageInv, AtHome
<1>6. SavedFirst'
  BY <1>1 DEF SavedFirst, PageInv, SlotInv, AllocTypeOK
<1>7. Caps'
  BY <1>2, <1>3, FS_EmptySet, BufferCapAssumption DEF PageInv, Caps, CacheWithinCap
<1> QED
  BY <1>4, <1>5, <1>6, <1>7

LEMMA RestartPages ==
  ASSUME PageInv, NEW c \in Capacities, Restart(c)
  PROVE  IOTypes' /\ AtHome' /\ SavedFirst' /\ Caps'
<1>1. /\ pages' = saved.pages /\ saved' = saved /\ disk' = disk
      /\ store' = [t \in Threads |-> Idle] /\ load' = [t \in Threads |-> Idle]
      /\ buffer' = [s \in Sections |-> NoBuffer] /\ order' = <<>> /\ cache' = <<>>
      /\ torn' \subseteq DOMAIN saved.pages /\ overtaken' \subseteq DOMAIN saved.pages
  BY DEF Restart, Reopen
<1>2. /\ Live' = {}
      /\ \A u \in Threads : ~Loading(u)' /\ ~Busy(u)' /\ ~Holding(u)'
  BY <1>1 DEF Live, Loading, Busy, Holding, Idle
<1>3. Len(saved.pages) \in Nat /\ Len(pages) \in Nat
  BY DEF PageInv, SlotInv, AllocTypeOK
<1>4. IOTypes'
  <2>1. Len(saved.pages) <= MaxPages
    BY <1>3, SlotBoundsAssumption DEF PageInv, IOTypes, SavedFirst
  <2> QED
    BY <1>1, <1>2, <2>1 DEF PageInv, IOTypes
<1>5. AtHome' /\ SavedFirst'
  BY <1>1, <1>2, <1>3 DEF AtHome, SavedFirst
<1>6. Caps'
  BY <1>1, <1>2, FS_EmptySet, BufferCapAssumption DEF Caps, CacheWithinCap
<1> QED
  BY <1>4, <1>5, <1>6

LEMMA PageNext ==
  ASSUME PageInv, [Next]_vars
  PROVE  PageInv'
<1>1. SlotInv' /\ LeakInv'
  BY AllocSound DEF PageInv
<1>2. CASE UNCHANGED vars
  <2>1. /\ UNCHANGED <<pages, saved, store, disk, buffer, order, cache, load, torn, overtaken>>
        /\ Live' = Live
        /\ \A u \in Threads : Loading(u)' = Loading(u) /\ Busy(u)' = Busy(u) /\ Holding(u)' = Holding(u)
    BY <1>2 DEF vars, alloc, io, Loading, Busy, Holding, Live
  <2>2. IOTypes' /\ AtHome' /\ SavedFirst' /\ Caps'
    BY <2>1 DEF PageInv, IOTypes, AtHome, SavedFirst, Caps, CacheWithinCap
  <2> QED
    BY <1>1, <2>2 DEF PageInv
<1>3. ASSUME NEW t \in Threads,
             \/ Place(t) \/ BufferWrite(t) \/ Bypass(t) \/ DirectWrite(t) \/ DirectFails(t)
             \/ UpdateCache(t) \/ Checkpoint(t)
             \/ (\E i \in Ids : Pread(t, i)) \/ Overlay(t) \/ Install(t)
      PROVE  IOTypes' /\ AtHome' /\ SavedFirst' /\ Caps'
  BY <1>3, PlacePages, BufferWritePages, WritePages, DirectFailsPages, LoadPages, CheckpointPages
<1>4. ASSUME NEW c \in Capacities, Restart(c) PROVE IOTypes' /\ AtHome' /\ SavedFirst' /\ Caps'
  BY <1>4, RestartPages
<1> QED
  BY <1>1, <1>2, <1>3, <1>4 DEF Next, PageInv

-----------------------------------------------------------------------------
THEOREM PageInvariant == Spec => []PageInv
<1>1. PageInv /\ [Next]_vars => PageInv'
  BY PageNext
<1> QED
  BY <1>1, PageInit, PTL DEF Spec

\* The state stays well-typed, within the file's pages and the slots of a
\* page.
THEOREM TypeCorrect == Spec => []TypeOK
<1>1. ASSUME PageInv PROVE TypeOK
  <2>1. AllocTypeOK /\ IOTypes
    BY <1>1 DEF PageInv, SlotInv
  <2>2. ASSUME NEW t \in Threads, Loading(t) PROVE load[t].data \in Data /\ load[t].late \in BOOLEAN
    <3>1. load[t] \in Loads
      BY <2>1, <2>2 DEF IOTypes, Loading, Idle
    <3> QED
      BY <3>1 DEF Loads
  <2> QED
    BY <2>1, <2>2 DEF TypeOK, IOTypes
<1> QED
  BY <1>1, PageInvariant, PTL

\* The eviction loop of writeToSectionBuffer always finds a victim and keeps
\* the buffers of a shard within its cap, and loadPageToCache caches a page
\* once, in no more slots than allowed, however many threads write and load.
THEOREM BuffersAndCacheStayWithinCaps == Spec => []CapsHold
<1>1. ASSUME PageInv PROVE CapsHold
  <2>1. \A s \in Live : BufferCap > 0 => s \in Range(order)
    BY <1>1 DEF PageInv, Caps, Range
  <2> QED
    BY <1>1, <2>1 DEF PageInv, Caps, CapsHold, BuffersWithinCap
<1> QED
  BY <1>1, PageInvariant, PTL

(***************************************************************************)
(* The bytes                                                               *)
(***************************************************************************)

LEMMA DiskInit == Init => DiskInv
<1> SUFFICES ASSUME Init PROVE DiskInv
  OBVIOUS
<1>1. /\ pages = <<>> /\ saved.pages = <<>> /\ DOMAIN pages = {} /\ DOMAIN saved.pages = {}
      /\ \A i \in Ids : loc[i] = NoLoc /\ saved.loc[i] = NoLoc
      /\ \A s \in Sections : free[s] = {} /\ buffer[s] = NoBuffer
      /\ \A t \in Threads : store[t] = Idle
  BY DEF Init, AllocInit
<1>2. FirstSlots
  BY <1>1 DEF FirstSlots, FirstIsNew, Starting, Idle
<1>3. InTurn
  BY <1>1 DEF InTurn, Starting, Written1, Idle
<1>4. Checkpointed
  BY <1>1 DEF Checkpointed, CheckpointedOnDisk, Live
<1>5. Bytes
  BY <1>1 DEF Bytes, Idle
<1> QED
  BY <1>2, <1>3, <1>4, <1>5 DEF DiskInv

\* The allocator's steps but the last move neither bytes nor locations.
LEMMA PlaceBytes ==
  ASSUME PageInv, DiskInv, NEW t \in Threads, Place(t), loc' = loc,
         store'[t].pc \notin {"cached", "assign"}
  PROVE  Checkpointed' /\ Bytes' /\ \A q \in DOMAIN pages : View(q)' = View(q)
<1>1. Store(t) /\ UNCHANGED <<disk, buffer, order, cache, load, torn, overtaken>>
  BY DEF Place, io
<1>2. /\ saved' = saved
      /\ \A p \in DOMAIN pages : pages'[p].section = pages[p].section
      /\ \A u \in Threads \ {t} : store'[u] = store[u]
  BY <1>1, StoreFacts DEF PageInv, IOTypes
<1>3. \A q \in DOMAIN pages : View(q)' = View(q)
  BY <1>1, <1>2 DEF View, Holds
<1>4. Checkpointed'
  BY <1>1, <1>2 DEF DiskInv, Checkpointed, CheckpointedOnDisk, Live, Spoiled
<1>5. Bytes'
  <2>0. Spoiled' = Spoiled
    BY <1>1 DEF Spoiled
  <2>1. ASSUME NEW i \in Ids, loc'[i] # NoLoc, loc[i][1] \notin Spoiled PROVE View(loc[i][1])'[loc[i][2]] = i
    <3>1. loc[i][1] \in DOMAIN pages
      BY <2>1, LocatedShape DEF PageInv, IOTypes
    <3> QED
      BY <2>1, <3>1, <1>3 DEF DiskInv, Bytes
  <2>2. ASSUME NEW u \in Threads, store'[u].pc \in {"cached", "assign"}, store'[u].page \notin Spoiled
        PROVE  View(store[u].page)'[store'[u].slot] = store'[u].id
    <3>1. u # t /\ store'[u] = store[u] /\ Holding(u)
      BY <2>2, <1>2 DEF Holding
    <3>2. store[u].page \in DOMAIN pages
      BY <3>1, HeldShape DEF PageInv, IOTypes
    <3> QED
      BY <2>2, <3>1, <3>2, <1>2, <1>3 DEF DiskInv, Bytes
  <2> QED
    BY <2>0, <2>1, <2>2 DEF Bytes
<1> QED
  BY <1>3, <1>4, <1>5

\* A writer that looks for a slot, or has just taken one, keeps every first
\* slot in use, if it leaves the pages of the others alone.
LEMMA FirstSlotsKept ==
  ASSUME PageInv, FirstSlots, NEW t \in Threads, ~Holding(t),
         UNCHANGED <<loc, saved, buffer>>,
         \A u \in Threads \ {t} : store'[u] = store[u],
         \A s \in Sections : free'[s] \subseteq free[s],
         \A p \in DOMAIN pages' \ DOMAIN pages : FirstInUse(p)',
         FirstIsNew(t)', store'[t].pc # "direct"
  PROVE  FirstSlots'
<1>1. \A u \in Threads : Holding(u) => Holding(u)' /\ SlotHeld(u)' = SlotHeld(u)
  BY DEF Holding, SlotHeld
<1>2. \A p \in DOMAIN pages : FirstInUse(p)'
  BY <1>1 DEF FirstSlots, FirstInUse
<1>3. ASSUME NEW u \in Threads \ {t} PROVE FirstIsNew(u)'
  <2>1. store'[u] = store[u] /\ FirstIsNew(u)
    BY <1>3 DEF FirstSlots
  <2> QED
    BY <2>1 DEF FirstIsNew, Starting, Holds
<1>4. \A u \in Threads : store'[u].pc = "direct" => store'[u].slot # 0
  BY DEF FirstSlots
<1> QED
  BY <1>2, <1>3, <1>4 DEF FirstSlots

\* Who begins on a first slot has just added its page.
StartsFresh(t) == Starting(t)' => \/ store'[t].page \notin DOMAIN pages
                                  \/ Starting(t) /\ store'[t].page = store[t].page

LEMMA PlaceFirst ==
  ASSUME PageInv, DiskInv, NEW t \in Threads, Place(t), ~AssignLocation(t)
  PROVE  FirstSlots' /\ loc' = loc /\ ~Written1(t)' /\ StartsFresh(t)
<1>0. UNCHANGED <<disk, buffer, order, cache, load>>
  BY DEF Place, io
<1>1. pages \in Seq(Page) /\ Len(pages) \in Nat /\ FirstSlots
  BY DEF PageInv, DiskInv, SlotInv, AllocTypeOK
<1>2. ASSUME NEW i \in Ids, NEW s \in SectionsOf[t], BeginStore(t, i, s)
      PROVE  FirstSlots' /\ loc' = loc /\ ~Written1(t)' /\ StartsFresh(t)
  <2>1. /\ UNCHANGED <<pages, free, loc, saved>> /\ ~Holding(t)
        /\ \A u \in Threads \ {t} : store'[u] = store[u]
        /\ store'[t].pc = "find"
    BY <1>2 DEF BeginStore, Holding, Busy, PageInv, SlotInv, AllocTypeOK
  <2>2. FirstIsNew(t)'
    BY <2>1 DEF FirstIsNew, Starting
  <2> QED
    BY <1>0, <1>1, <2>1, <2>2, FirstSlotsKept DEF Written1, StartsFresh, Starting
<1>3. CASE FindNothing(t)
  <2>1. store[t] \in Looking /\ store[t].pc = "find"
    BY <1>3, WriterShape DEF FindNothing, PageInv
  <2>2. /\ UNCHANGED <<pages, free, loc, saved>> /\ ~Holding(t)
        /\ \A u \in Threads \ {t} : store'[u] = store[u]
        /\ store'[t].pc = "fresh"
    BY <1>3, <2>1 DEF FindNothing, Holding, PageInv, SlotInv, AllocTypeOK, Looking
  <2>3. FirstIsNew(t)'
    BY <2>2 DEF FirstIsNew, Starting
  <2> QED
    BY <1>0, <1>1, <2>2, <2>3, FirstSlotsKept DEF Written1, StartsFresh, Starting
<1>4. CASE TakeFree(t)
  <2>1. store[t] \in Looking /\ store[t].pc = "find" /\ store[t].section \in Sections
    BY <1>4, WriterShape DEF TakeFree, PageInv, Looking
  <2>2. PICK f \in free[store[t].section] :
          /\ free' = [free EXCEPT ![store[t].section] = @ \ {f}]
          /\ Take(t, f[1], f[2], "write")
    BY <1>4 DEF TakeFree
  <2>3. /\ UNCHANGED <<pages, loc, saved>> /\ ~Holding(t)
        /\ \A u \in Threads \ {t} : store'[u] = store[u]
        /\ store'[t].pc = "write" /\ store'[t].slot = f[2]
    BY <1>4, <2>1, <2>2 DEF TakeFree, Take, Holding, PageInv, SlotInv, AllocTypeOK
  <2>4. f[2] # 0
    BY <2>1, <2>2, <1>1 DEF FirstSlots
  <2>5. \A r \in Sections : free'[r] \subseteq free[r]
    BY <2>2 DEF PageInv, SlotInv, AllocTypeOK
  <2>6. FirstIsNew(t)'
    BY <2>3, <2>4 DEF FirstIsNew, Starting
  <2> QED
    BY <1>0, <1>1, <2>3, <2>4, <2>5, <2>6, FirstSlotsKept DEF Written1, StartsFresh, Starting
<1>5. CASE TakeOpen(t)
  <2>1. store[t] \in Looking /\ store[t].pc = "find" /\ store[t].section \in Sections
    BY <1>5, WriterShape DEF TakeOpen, PageInv, Looking
  <2>2. PICK p \in open[store[t].section] :
          pages' = [pages EXCEPT ![p].used = @ + 1] /\ Take(t, p, pages[p].used, "write")
    BY <1>5 DEF TakeOpen
  <2>3. /\ UNCHANGED <<free, loc, saved>> /\ ~Holding(t)
        /\ \A u \in Threads \ {t} : store'[u] = store[u]
        /\ store'[t].pc = "write" /\ store'[t].slot = pages[p].used
    BY <1>5, <2>1, <2>2 DEF TakeOpen, Take, Holding, PageInv, SlotInv, AllocTypeOK
  <2>4. p \in DOMAIN pages /\ pages[p] \in Page /\ pages[p].section = store[t].section
    BY <1>1, <2>1, <2>2 DEF PageInv, SlotInv, OpenPagesHaveRoom
  <2>5. FirstIsNew(t)' /\ StartsFresh(t)
    <3>1. pages[p].used # 0
      BY <2>4 DEF Page
    <3> QED
      BY <2>3, <3>1 DEF FirstIsNew, StartsFresh, Starting
  <2>6. DOMAIN pages' = DOMAIN pages
    BY <2>2
  <2> QED
    BY <1>0, <1>1, <2>3, <2>5, <2>6, FirstSlotsKept DEF Written1
<1>6. CASE FreshPage(t)
  <2>1. store[t] \in Looking /\ store[t].pc = "fresh" /\ store[t].section \in Sections
    BY <1>6, WriterShape DEF FreshPage, PageInv, Looking
  <2>2. PICK p \in Nat : p = Len(pages) + 1
    BY <1>1
  <2>3. /\ UNCHANGED <<free, loc, saved>> /\ ~Holding(t)
        /\ \A u \in Threads \ {t} : store'[u] = store[u]
        /\ store'[t].pc = "publish" /\ store'[t].slot = 0 /\ store'[t].page = p
        /\ pages' = Append(pages, [section |-> store[t].section, used |-> 1])
    BY <1>6, <2>1, <2>2 DEF FreshPage, Take, Holding, PageInv, SlotInv, AllocTypeOK
  <2>4. /\ DOMAIN pages' = DOMAIN pages \cup {p}
        /\ p \notin DOMAIN pages
    BY <1>1, <2>2, <2>3
  <2>5. FirstIsNew(t)'
    <3>1. p > Len(saved.pages)
      BY <1>1, <2>2 DEF PageInv, SavedFirst, SlotInv, AllocTypeOK
    <3>2. \A s \in Sections : ~Holds(s, p)
      BY <2>4 DEF Holds, PageInv, AtHome, Live
    <3>3. store'[t].section = store[t].section
      BY <1>6 DEF FreshPage, Take, PageInv, SlotInv, AllocTypeOK
    <3> QED
      BY <1>0, <2>1, <2>3, <3>1, <3>2, <3>3 DEF FirstIsNew, Holds
  <2>6. FirstInUse(p)'
    BY <2>3 DEF FirstInUse, Holding, SlotHeld
  <2> QED
    BY <1>0, <1>1, <2>3, <2>4, <2>5, <2>6, FirstSlotsKept DEF Written1, StartsFresh
<1>7. CASE PublishPage(t)
  <2>1. store[t] \in Placing /\ store[t].pc = "publish"
    BY <1>7, WriterShape DEF PublishPage, PageInv
  <2>2. /\ UNCHANGED <<pages, free, loc, saved>>
        /\ \A u \in Threads \ {t} : store'[u] = store[u]
        /\ store'[t] = [store[t] EXCEPT !.pc = "write"]
    BY <1>7 DEF PublishPage, PageInv, SlotInv, AllocTypeOK
  <2>3. store'[t].pc = "write" /\ store'[t].page = store[t].page /\ store'[t].slot = store[t].slot
        /\ store'[t].section = store[t].section
    BY <2>1, <2>2 DEF Placing
  <2>4. ASSUME NEW u \in Threads PROVE Holding(u) => Holding(u)' /\ SlotHeld(u)' = SlotHeld(u)
    BY <2>1, <2>2, <2>3 DEF Holding, SlotHeld
  <2>5. ASSUME NEW u \in Threads PROVE FirstIsNew(u)'
    <3>1. FirstIsNew(u) /\ saved' = saved /\ pages' = pages
      BY <1>1, <2>2 DEF FirstSlots
    <3> QED
      BY <1>0, <2>1, <2>2, <2>3, <3>1 DEF FirstIsNew, Starting, Holds
  <2>6. \A u \in Threads : store'[u].pc = "direct" => store'[u].slot # 0
    BY <1>1, <2>2, <2>3 DEF FirstSlots
  <2>7. ASSUME NEW p \in DOMAIN pages PROVE FirstInUse(p)'
    <3>1. FirstInUse(p) /\ loc' = loc
      BY <1>1, <2>2 DEF FirstSlots
    <3> QED
      BY <2>4, <3>1 DEF FirstInUse
  <2> QED
    BY <1>1, <2>1, <2>2, <2>3, <2>5, <2>6, <2>7 DEF FirstSlots, Written1, StartsFresh, Starting
<1> QED
  BY <1>2, <1>3, <1>4, <1>5, <1>6, <1>7 DEF Place, Store

\* Nothing is on a page that was just added.
LEMMA PlaceInTurn ==
  ASSUME PageInv, DiskInv, NEW t \in Threads, Place(t), ~AssignLocation(t)
  PROVE  InTurn'
<1>1. /\ UNCHANGED <<disk, buffer, order, cache, load, torn, overtaken>> /\ Store(t)
      /\ InTurn
  BY DEF Place, io, DiskInv
<1>2. loc' = loc /\ ~Written1(t)' /\ StartsFresh(t)
  BY PlaceFirst
<1>3. \A u \in Threads \ {t} : store'[u] = store[u]
  BY <1>1, StoreFacts DEF PageInv, IOTypes
<1>4. \A u \in Threads : Written1(u)' => Written1(u) /\ store'[u] = store[u]
  BY <1>2, <1>3 DEF Written1
<1>5. \A i \in Ids : loc[i] # NoLoc => loc[i][1] \in DOMAIN pages
  BY LocatedShape DEF PageInv, IOTypes
<1>6. \A u \in Threads : Written1(u) => store[u].page \in DOMAIN pages
  BY HeldShape DEF PageInv, IOTypes, Written1, Holding
<1>7. ASSUME NEW u \in Threads, Starting(u)', store'[u].page \notin overtaken
      PROVE  /\ \A i \in Ids : loc[i] # NoLoc => loc[i][1] # store'[u].page
             /\ \A v \in Threads : Written1(v) => store[v].page # store'[u].page
  <2>1. CASE store'[u].page \notin DOMAIN pages
    BY <2>1, <1>5, <1>6
  <2>2. CASE Starting(u) /\ store'[u].page = store[u].page
    BY <2>2, <1>1, <1>7 DEF InTurn
  <2>3. u # t => Starting(u) /\ store'[u].page = store[u].page
    BY <1>3, <1>7 DEF Starting
  <2> QED
    BY <2>1, <2>2, <2>3, <1>2, <1>7 DEF StartsFresh
<1>8. ASSUME NEW u \in Threads, store'[u].pc = "direct", store'[u].page \notin overtaken
      PROVE  ~Holds(store[u].section, store[u].page) /\ store'[u] = store[u]
  BY <1>1, <1>4, <1>8 DEF InTurn, Written1
<1>9. ASSUME NEW u \in Threads, store'[u].pc = "direct", store'[u].page \notin overtaken
      PROVE  ~Holds(store[u].section, store[u].page)'
  BY <1>1, <1>8, <1>9 DEF Holds
<1> QED
  BY <1>1, <1>2, <1>4, <1>7, <1>9 DEF InTurn

\* A location passes from the writer that made it to its id.
LEMMA AssignDisk ==
  ASSUME PageInv, DiskInv, NEW t \in Threads, Place(t), AssignLocation(t)
  PROVE  DiskInv'
<1>1. /\ Holding(t) /\ Busy(t) /\ store[t].pc = "assign"
      /\ UNCHANGED <<pages, free, saved, disk, buffer, order, cache, load, torn, overtaken>>
  BY DEF AssignLocation, Place, io, Holding, Busy
<1>2. PICK i \in Ids, p \in DOMAIN pages, n \in Slots :
        i = store[t].id /\ p = store[t].page /\ n = store[t].slot
  BY <1>1, HeldShape DEF PageInv, IOTypes
<1>3. loc[i] = NoLoc
  BY <1>1, <1>2 DEF PageInv, LeakInv, OwnIds
<1>4. /\ loc'[i] = <<p, n>> /\ SlotHeld(t) = <<p, n>>
      /\ \A j \in Ids \ {i} : loc'[j] = loc[j]
      /\ store'[t] = Idle
      /\ \A u \in Threads \ {t} : store'[u] = store[u]
  BY <1>2 DEF AssignLocation, SlotHeld, PageInv, SlotInv, AllocTypeOK, Locations
<1>5. \A q : View(q)' = View(q)
  BY <1>1 DEF View, Holds
<1>6. FirstSlots'
  <2>1. ASSUME NEW q \in DOMAIN pages PROVE FirstInUse(q)'
    <3>1. FirstInUse(q)
      BY <2>1 DEF DiskInv, FirstSlots
    <3>2. CASE \E j \in Ids : loc[j] = <<q, 0>>
      <4>1. PICK j \in Ids : loc[j] = <<q, 0>>
        BY <3>2
      <4>2. <<q, 0>> # NoLoc
        <5>1. <<q, 0>> \in (Nat \ {0}) \X Nat
          BY <2>1 DEF PageInv, SlotInv, AllocTypeOK
        <5> QED
          BY <5>1, NoLocAssumption
      <4>3. loc'[j] = <<q, 0>>
        BY <4>1, <4>2, <1>3, <1>4
      <4> QED
        BY <4>3 DEF FirstInUse
    <3>3. CASE \E u \in Threads : Holding(u) /\ SlotHeld(u) = <<q, 0>>
      <4>1. PICK u \in Threads : Holding(u) /\ SlotHeld(u) = <<q, 0>>
        BY <3>3
      <4>2. CASE u = t
        BY <4>1, <4>2, <1>4 DEF FirstInUse
      <4>3. CASE u # t
        BY <4>1, <4>3, <1>4 DEF FirstInUse, Holding, SlotHeld
      <4> QED
        BY <4>2, <4>3
    <3> QED
      BY <3>1, <3>2, <3>3 DEF FirstInUse
  <2>2. ASSUME NEW u \in Threads PROVE FirstIsNew(u)'
    <3>1. FirstIsNew(u) /\ (store'[u] = store[u] \/ store'[u] = Idle)
      BY <1>4 DEF DiskInv, FirstSlots
    <3> QED
      BY <1>1, <3>1 DEF FirstIsNew, Starting, Holds, Idle
  <2>3. \A u \in Threads : store'[u].pc = "direct" => store'[u].slot # 0
    BY <1>4 DEF DiskInv, FirstSlots, Idle
  <2> QED
    BY <1>1, <2>1, <2>2, <2>3 DEF DiskInv, FirstSlots
<1>7. InTurn'
  <2>1. Written1(t) /\ InTurn /\ store[t].page = p
    BY <1>1, <1>2 DEF Written1, DiskInv
  <2>2. \A u \in Threads : (Starting(u)' \/ Written1(u)') => u # t /\ store'[u] = store[u]
    BY <1>4 DEF Starting, Written1, Idle
  <2>3. ASSUME NEW u \in Threads, Starting(u)', store'[u].page \notin overtaken
        PROVE  /\ \A j \in Ids : loc'[j] # NoLoc => loc'[j][1] # store[u].page
               /\ \A v \in Threads : Written1(v)' => store'[v].page # store[u].page
    <3>1. Starting(u) /\ store'[u] = store[u]
      BY <2>2, <2>3 DEF Starting
    <3>2. /\ \A j \in Ids : loc[j] # NoLoc => loc[j][1] # store[u].page
          /\ \A v \in Threads : Written1(v) => store[v].page # store[u].page
      BY <2>1, <2>3, <3>1 DEF InTurn
    <3>3. loc'[i][1] # store[u].page
      BY <1>4, <2>1, <3>2
    <3>4. \A v \in Threads : Written1(v)' => Written1(v) /\ store'[v] = store[v]
      BY <2>2 DEF Written1
    <3> QED
      BY <1>4, <3>2, <3>3, <3>4
  <2>4. ASSUME NEW u \in Threads, store'[u].pc = "direct", store'[u].page \notin overtaken
        PROVE  store'[u] = store[u] /\ ~Holds(store[u].section, store[u].page)
    BY <2>1, <2>2, <2>4 DEF InTurn, Written1
  <2>5. ASSUME NEW u \in Threads, store'[u].pc = "direct", store'[u].page \notin overtaken
        PROVE  ~Holds(store[u].section, store[u].page)'
    BY <1>1, <2>4, <2>5 DEF Holds
  <2> QED
    BY <1>1, <2>2, <2>3, <2>5 DEF InTurn
<1>8. Checkpointed'
  BY <1>1, <1>3, <1>4 DEF DiskInv, Checkpointed, CheckpointedOnDisk, Live, Spoiled
<1>9. Bytes'
  <2>0. Spoiled' = Spoiled
    BY <1>1 DEF Spoiled
  <2>1. ASSUME NEW j \in Ids, loc'[j] # NoLoc, loc'[j][1] \notin Spoiled PROVE View(loc'[j][1])[loc'[j][2]] = j
    <3>1. CASE j = i
      <4>1. store[t].page \notin Spoiled
        BY <2>1, <3>1, <1>2, <1>4
      <4> QED
        BY <3>1, <4>1, <1>1, <1>2, <1>4 DEF DiskInv, Bytes
    <3>2. CASE j # i
      BY <2>1, <3>2, <1>4 DEF DiskInv, Bytes
    <3> QED
      BY <3>1, <3>2
  <2>2. ASSUME NEW u \in Threads, store'[u].pc \in {"cached", "assign"}, store'[u].page \notin Spoiled
        PROVE  u # t /\ store'[u] = store[u] /\ View(store[u].page)[store[u].slot] = store[u].id
    BY <2>2, <1>4 DEF DiskInv, Bytes, Idle
  <2> QED
    BY <2>0, <2>1, <2>2, <1>5 DEF Bytes
<1> QED
  BY <1>6, <1>7, <1>8, <1>9 DEF DiskInv

\* A record written, in the buffer or in the file, is a record a reader sees,
\* and no other is lost but on a spoiled page: the page's other slots keep
\* their bytes, or have none.
LEMMA RecordWritten ==
  ASSUME PageInv, DiskInv, NEW t \in Threads, Move(t, "cached"), Spoiled \subseteq Spoiled',
         NEW p \in DOMAIN pages, NEW n \in Slots, NEW i \in Ids,
         p = store[t].page, n = store[t].slot, i = store[t].id,
         NEW old \in Data,
         p \notin Spoiled' => View(p)' = [old EXCEPT ![n] = i] /\ (old = View(p) \/ Starting(t)),
         \A q \in DOMAIN pages \ {p} : View(q)' = View(q) \/ q \in Spoiled'
  PROVE  Bytes'
<1>1. /\ Holding(t) /\ SlotHeld(t) = <<p, n>> /\ loc' = loc
      /\ store'[t].id = i /\ store'[t].page = p /\ store'[t].slot = n
      /\ \A u \in Threads \ {t} : store'[u] = store[u]
  BY MoveFacts DEF PageInv, Move
<1>2. p \notin Spoiled' => View(p)'[n] = i /\ \A m \in Slots \ {n} : View(p)'[m] = old[m]
  BY DEF Data
<1>3. ASSUME p \notin Spoiled', Starting(t)
      PROVE  /\ \A j \in Ids : loc[j] # NoLoc => loc[j][1] # p
             /\ \A u \in Threads : Written1(u) => store[u].page # p
  <2>1. p \notin overtaken
    BY <1>3 DEF Spoiled
  <2> QED
    BY <2>1, <1>3 DEF DiskInv, InTurn
<1>4. ASSUME NEW j \in Ids, loc[j] # NoLoc, loc[j][1] \notin Spoiled'
      PROVE  View(loc[j][1])'[loc[j][2]] = j
  <2>0. PICK q \in DOMAIN pages, m \in Slots : loc[j] = <<q, m>>
    BY <1>4, LocatedShape DEF PageInv, IOTypes
  <2>1. q = loc[j][1] /\ m = loc[j][2] /\ q \notin Spoiled /\ q \notin Spoiled'
    BY <2>0, <1>4
  <2>2. View(q)[m] = j
    <3>1. View(loc[j][1])[loc[j][2]] = j
      BY <1>4, <2>1 DEF DiskInv, Bytes
    <3> QED
      BY <2>1, <3>1
  <2>3. CASE q # p
    <3>1. View(q)' = View(q)
      BY <2>1, <2>3
    <3> QED
      BY <1>1, <2>1, <2>2, <3>1
  <2>4. CASE q = p
    <3>1. m # n
      BY <2>0, <2>4, <1>1 DEF PageInv, SlotInv, SlotsNotShared
    <3>2. old = View(p)
      BY <1>3, <1>4, <2>1, <2>4
    <3>3. View(p)'[m] = j
      BY <3>1, <3>2, <1>2, <2>1, <2>2, <2>4
    <3>4. loc[j][1] = p /\ loc[j][2] = m /\ loc'[j][1] = p
      BY <1>1, <2>1, <2>4
    <3> QED
      BY <3>3, <3>4
  <2> QED
    BY <2>3, <2>4
<1>5. ASSUME NEW u \in Threads \ {t}, store[u].pc \in {"cached", "assign"}, store[u].page \notin Spoiled'
      PROVE  View(store[u].page)'[store[u].slot] = store[u].id
  <2>1. Holding(u) /\ Written1(u)
    BY <1>5 DEF Holding, Written1
  <2>2. PICK q \in DOMAIN pages, m \in Slots : q = store[u].page /\ m = store[u].slot
    BY <2>1, HeldShape DEF PageInv, IOTypes
  <2>3. View(q)[m] = store[u].id /\ q \notin Spoiled'
    BY <1>5, <2>2 DEF DiskInv, Bytes
  <2>4. CASE q # p
    <3>1. View(q)' = View(q)
      BY <2>3, <2>4
    <3> QED
      BY <1>1, <2>2, <2>3, <3>1
  <2>5. CASE q = p
    <3>1. m # n
      <4>1. SlotHeld(u) # SlotHeld(t)
        BY <1>1, <2>1 DEF PageInv, SlotInv, SlotsNotShared
      <4> QED
        BY <4>1, <1>1, <2>2, <2>5 DEF SlotHeld
    <3>2. old = View(p)
      BY <1>3, <2>1, <2>2, <2>3, <2>5
    <3>3. View(p)'[m] = store[u].id
      BY <3>1, <3>2, <1>2, <2>3, <2>5
    <3> QED
      BY <3>3, <1>1, <2>2, <2>5
  <2> QED
    BY <2>4, <2>5
<1>6. ASSUME NEW u \in Threads, store'[u].pc \in {"cached", "assign"}, store'[u].page \notin Spoiled'
      PROVE  View(store[u].page)'[store[u].slot] = store[u].id
             /\ store'[u].page = store[u].page /\ store'[u].slot = store[u].slot
             /\ store'[u].id = store[u].id
  <2>1. CASE u = t
    BY <2>1, <1>1, <1>2, <1>6
  <2>2. CASE u # t
    BY <2>2, <1>1, <1>5, <1>6
  <2> QED
    BY <2>1, <2>2
<1> QED
  BY <1>1, <1>4, <1>6 DEF Bytes

\* The buffers after a writer's step, for what it does to the first slots of
\* others and to the pages others write past them.
OffBuffer(u) == Starting(u) \/ (store[u].pc = "direct" /\ store[u].page \notin overtaken)
BuffersInTurn(t) ==
  \A u \in Threads \ {t} : OffBuffer(u) =>
    \A s, p : s = store[u].section /\ p = store[u].page => ~Holds(s, p)'

LEMMA OffBufferFacts ==
  ASSUME DiskInv, NEW u \in Threads, OffBuffer(u)
  PROVE  ~Holds(store[u].section, store[u].page)
BY DEF OffBuffer, DiskInv, FirstSlots, FirstIsNew, InTurn

\* Buffers that stay as they are do nothing to them.
LEMMA SameBuffers ==
  ASSUME DiskInv, buffer' = buffer, NEW t \in Threads
  PROVE  BuffersInTurn(t)
<1>1. \A u \in Threads \ {t} : OffBuffer(u) => ~Holds(store[u].section, store[u].page)
  BY OffBufferFacts
<1> QED
  BY <1>1 DEF BuffersInTurn, Holds

\* A writer that has its slot changes no first slot.
LEMMA MoveFirst ==
  ASSUME PageInv, DiskInv, NEW t \in Threads,
         NEW pc \in {"direct", "cached", "assign"}, Move(t, pc), BuffersInTurn(t),
         pc = "direct" => store[t].slot # 0
  PROVE  FirstSlots'
<1>1. /\ UNCHANGED <<pages, free, loc, saved>> /\ store'[t].pc = pc
      /\ store'[t].slot = store[t].slot
      /\ \A u \in Threads \ {t} : store'[u] = store[u]
      /\ \A u \in Threads : Holding(u)' = Holding(u) /\ SlotHeld(u)' = SlotHeld(u)
  BY MoveFacts DEF Move, PageInv
<1>2. ASSUME NEW q \in DOMAIN pages PROVE FirstInUse(q)'
  <2>1. FirstInUse(q)
    BY DEF DiskInv, FirstSlots
  <2> QED
    BY <1>1, <2>1 DEF FirstInUse
<1>3. ASSUME NEW u \in Threads, Starting(u)'
      PROVE  /\ store'[u].page > Len(saved'.pages)
             /\ ~Holds(store[u].section, store[u].page)'
  <2>1. u # t /\ Starting(u) /\ store'[u] = store[u]
    BY <1>1, <1>3 DEF Starting
  <2>2. PICK s, q : s = store[u].section /\ q = store[u].page
    OBVIOUS
  <2>3. FirstIsNew(u) /\ OffBuffer(u)
    BY <2>1 DEF DiskInv, FirstSlots, OffBuffer
  <2>4. ~Holds(s, q)'
    BY <2>1, <2>2, <2>3 DEF BuffersInTurn
  <2>5. store'[u].section = s /\ store'[u].page = q
    BY <2>1, <2>2
  <2> QED
    BY <1>1, <2>1, <2>2, <2>3, <2>4, <2>5 DEF FirstIsNew, Holds
<1>4. \A u \in Threads : FirstIsNew(u)'
  BY <1>3 DEF FirstIsNew
<1>5. ASSUME NEW u \in Threads, store'[u].pc = "direct" PROVE store'[u].slot # 0
  <2>1. CASE u = t
    BY <2>1, <1>1, <1>5
  <2>2. CASE u # t
    BY <2>2, <1>1, <1>5 DEF DiskInv, FirstSlots
  <2> QED
    BY <2>1, <2>2
<1> QED
  BY <1>1, <1>2, <1>4, <1>5 DEF DiskInv, FirstSlots

\* Nor does it get ahead of one unnoticed.
LEMMA MoveInTurn ==
  ASSUME PageInv, DiskInv, NEW t \in Threads,
         NEW pc \in {"direct", "cached", "assign"}, Move(t, pc), BuffersInTurn(t),
         overtaken \subseteq overtaken',
         \A u \in Threads \ {t} : Starting(u) /\ store[u].page = store[t].page =>
           store[t].page \in overtaken',
         pc = "direct" => ~Holds(store[t].section, store[t].page)'
  PROVE  InTurn'
<1>1. /\ loc' = loc /\ store'[t].pc = pc /\ Holding(t)
      /\ store'[t].page = store[t].page /\ store'[t].section = store[t].section
      /\ \A u \in Threads \ {t} : store'[u] = store[u]
  BY MoveFacts DEF Move, PageInv
<1>2. ASSUME NEW u \in Threads, Starting(u)', store'[u].page \notin overtaken'
      PROVE  /\ \A i \in Ids : loc'[i] # NoLoc => loc'[i][1] # store'[u].page
             /\ \A v \in Threads : Written1(v)' => store'[v].page # store'[u].page
  <2>1. u # t /\ Starting(u) /\ store'[u] = store[u] /\ store[u].page \notin overtaken
    BY <1>1, <1>2 DEF Starting
  <2>2. /\ \A i \in Ids : loc[i] # NoLoc => loc[i][1] # store[u].page
        /\ \A v \in Threads : Written1(v) => store[v].page # store[u].page
    BY <2>1 DEF DiskInv, InTurn
  <2>3. store'[t].page # store[u].page
    BY <1>1, <1>2, <2>1
  <2>4. \A v \in Threads \ {t} : Written1(v)' => Written1(v) /\ store'[v] = store[v]
    BY <1>1 DEF Written1
  <2> QED
    BY <1>1, <2>1, <2>2, <2>3, <2>4
<1>3. ASSUME NEW u \in Threads, store'[u].pc = "direct", store'[u].page \notin overtaken'
      PROVE  ~Holds(store[u].section, store[u].page)'
  <2>1. CASE u = t
    BY <2>1, <1>1, <1>3 DEF Holds
  <2>2. CASE u # t
    <3>1. store'[u] = store[u] /\ OffBuffer(u)
      BY <2>2, <1>1, <1>3 DEF OffBuffer
    <3>2. PICK s, q : s = store[u].section /\ q = store[u].page
      OBVIOUS
    <3>3. ~Holds(s, q)'
      BY <2>2, <3>1, <3>2 DEF BuffersInTurn
    <3>4. store'[u].section = s /\ store'[u].page = q
      BY <3>1, <3>2
    <3> QED
      BY <3>3, <3>4 DEF Holds
  <2> QED
    BY <2>1, <2>2
<1> QED
  BY <1>2, <1>3 DEF InTurn

LEMMA BufferWriteDisk ==
  ASSUME PageInv, DiskInv, NEW t \in Threads, BufferWrite(t)
  PROVE  DiskInv'
<1>1. Move(t, "cached") /\ Holding(t) /\ store[t].pc = "write" /\ overtaken' = overtaken
  BY Moves DEF BufferWrite, Holding
<1>2. PICK s \in Sections, p \in DOMAIN pages, n \in Slots, new \in Buffers :
        p \in 1..MaxPages /\ pages[p].section = s /\ Wrote(t, s, p, n, new)
  BY BufferWriteFacts DEF PageInv
<1>3. PICK i \in Ids : i = store[t].id
  BY <1>1, HeldShape DEF PageInv, IOTypes
<1>4. s = store[t].section /\ p = store[t].page /\ n = store[t].slot /\ SlotHeld(t) = <<p, n>>
  BY <1>2 DEF Wrote, SlotHeld
<1>5. /\ pages' = pages /\ saved' = saved /\ loc' = loc /\ store'[t].pc = "cached"
      /\ \A u \in Threads \ {t} : store'[u] = store[u]
  BY <1>1, MoveFacts DEF Move, PageInv
<1>6. n = 0 => Starting(t)
  BY <1>1, <1>4 DEF Starting
<1>7. /\ Kept(s, p) = View(p) \/ Starting(t)
      /\ p > Len(saved.pages)
  <2>1. CASE Holds(s, p)
    <3>1. s \in Live /\ buffer[s].page = p
      BY <2>1 DEF Holds, Live
    <3> QED
      BY <2>1, <3>1, <1>2 DEF Kept, View, DiskInv, Checkpointed
  <2>2. CASE n = 0
    <3>1. FirstIsNew(t)
      BY DEF DiskInv, FirstSlots
    <3> QED
      BY <1>4, <1>6, <2>2, <3>1 DEF FirstIsNew
  <2> QED
    BY <2>1, <2>2, <1>2 DEF Wrote
<1>8. Kept(s, p) \in Data /\ Spoiled \subseteq Spoiled' /\ \A q \in torn' : q \in Spoiled'
  <2>1. Kept(s, p) \in Data
    BY DEF Kept, Holds, PageInv, IOTypes, Buffers, Blank, Data
  <2> QED
    BY <1>1, <1>2, <2>1 DEF Wrote, Spoiled
<1>9. Bytes'
  <2>1. /\ p \notin Spoiled' => View(p)' = [Kept(s, p) EXCEPT ![n] = i]
        /\ \A q \in DOMAIN pages \ {p} : View(q)' = View(q) \/ q \in Spoiled'
    BY <1>2, <1>3, <1>8 DEF Wrote
  <2> QED
    BY <1>1, <1>3, <1>4, <1>7, <1>8, <2>1, RecordWritten
<1>10. ASSUME NEW u \in Threads \ {t}, Starting(u) \/ store[u].pc = "direct"
       PROVE  /\ Starting(u) => store[u].page # p
              /\ store[u].page = p => store[u].section = s
              /\ store[u].pc = "direct" /\ store[u].page = p /\ p \notin overtaken => Holds(s, p)
  <2>1. Holding(u) /\ (store[u].pc = "direct" => Written1(u))
    BY <1>10 DEF Holding, Starting, Written1
  <2>2. store[u].page = p => store[u].section = s
    BY <1>2, <2>1 DEF PageInv, AtHome
  <2>3. ASSUME Starting(u), store[u].page = p PROVE FALSE
    <3>1. ~Holds(s, p)
      BY <2>2, <2>3 DEF DiskInv, FirstSlots, FirstIsNew
    <3>2. n = 0
      BY <3>1, <1>2 DEF Wrote
    <3>3. SlotHeld(u) = SlotHeld(t)
      BY <3>2, <2>3, <1>4 DEF SlotHeld, Starting
    <3> QED
      BY <3>3, <1>1, <2>1 DEF PageInv, SlotInv, SlotsNotShared
  <2>4. ASSUME store[u].pc = "direct", store[u].page = p, p \notin overtaken, ~Holds(s, p) PROVE FALSE
    <3>1. n = 0
      BY <2>4, <1>2 DEF Wrote
    <3> QED
      BY <2>1, <2>4, <3>1, <1>4, <1>6 DEF DiskInv, InTurn
  <2> QED
    BY <2>2, <2>3, <2>4
<1>11. BuffersInTurn(t)
  <2>1. ASSUME NEW r \in Sections, NEW q, ~Holds(r, q), ~(r = s /\ q = p) PROVE ~Holds(r, q)'
    BY <1>2, <2>1 DEF Wrote, Holds
  <2>2. ASSUME NEW u \in Threads \ {t}, Starting(u) \/ store[u].pc = "direct"
        PROVE  store[u].section \in Sections
    <3>1. Holding(u)
      BY <2>2 DEF Holding, Starting
    <3> QED
      BY <3>1, HeldShape DEF PageInv, IOTypes
  <2>3. ASSUME NEW u \in Threads \ {t}, OffBuffer(u),
               NEW r, NEW q, r = store[u].section, q = store[u].page
        PROVE  ~Holds(r, q)'
    <3>1. r \in Sections /\ ~Holds(r, q)
      BY <2>2, <2>3, OffBufferFacts DEF OffBuffer
    <3>2. ~(r = s /\ q = p)
      BY <2>3, <3>1, <1>10 DEF OffBuffer
    <3> QED
      BY <2>1, <3>1, <3>2
  <2> QED
    BY <2>3 DEF BuffersInTurn
<1>12. FirstSlots'
  BY <1>1, <1>11, MoveFirst
<1>13. InTurn'
  <2>1. \A u \in Threads \ {t} : Starting(u) /\ store[u].page = store[t].page =>
          store[t].page \in overtaken'
    BY <1>4, <1>10
  <2> QED
    BY <1>1, <1>11, <2>1, MoveInTurn
<1>14. Checkpointed'
  <2>1. ASSUME NEW r \in Live' PROVE buffer'[r].page > Len(saved.pages)
    <3>1. r \in Sections /\ buffer'[r] # NoBuffer
      BY DEF Live
    <3>2. CASE buffer'[r] = buffer[r]
      BY <3>1, <3>2 DEF DiskInv, Checkpointed, Live
    <3>3. CASE buffer'[r] = new
      BY <3>3, <1>2, <1>7 DEF Wrote
    <3> QED
      BY <3>1, <3>2, <3>3, <1>2 DEF Wrote
  <2>2. ASSUME NEW j \in Ids, saved.loc[j] # NoLoc, saved.loc[j][1] \notin Spoiled
        PROVE  disk'[saved.loc[j][1]][saved.loc[j][2]] = j
    <3>1. saved.loc[j][1] \in 1..Len(saved.pages)
      BY <2>2 DEF PageInv, SlotInv, SavedSound, Used, AllocTypeOK
    <3>2. PICK q \in 1..MaxPages : q = saved.loc[j][1] /\ q <= Len(saved.pages)
      BY <3>1, SlotBoundsAssumption DEF PageInv, IOTypes, SavedFirst, SlotInv, AllocTypeOK
    <3>3. \A r \in Live : buffer[r].page # q
      <4>1. ASSUME NEW r \in Live PROVE buffer[r].page # q
        <5>1. buffer[r].page > Len(saved.pages) /\ buffer[r] \in Buffers
          BY DEF DiskInv, Checkpointed, Live, PageInv, IOTypes
        <5> QED
          BY <5>1, <3>2 DEF Buffers, PageInv, SlotInv, AllocTypeOK
      <4> QED
        BY <4>1
    <3>4. q # p
      BY <1>2, <1>7, <3>2 DEF PageInv, SlotInv, AllocTypeOK
    <3>5. disk'[q] = disk[q]
      BY <1>2, <3>3, <3>4 DEF Wrote
    <3> QED
      BY <2>2, <3>2, <3>5 DEF DiskInv, Checkpointed, CheckpointedOnDisk
  <2>3. \A j \in Ids : saved.loc[j] # NoLoc => loc[j] = saved.loc[j]
    BY DEF DiskInv, Checkpointed
  <2> QED
    BY <1>5, <1>8, <2>1, <2>2, <2>3 DEF Checkpointed, CheckpointedOnDisk
<1> QED
  BY <1>9, <1>12, <1>13, <1>14 DEF DiskInv

LEMMA DirectWriteDisk ==
  ASSUME PageInv, DiskInv, NEW t \in Threads, DirectWrite(t)
  PROVE  DiskInv'
<1>1. /\ Move(t, "cached") /\ Holding(t) /\ store[t].pc = "direct" /\ Written1(t)
      /\ UNCHANGED <<buffer, order, cache, load, torn, overtaken>>
  BY Moves DEF DirectWrite, Holding, Written1
<1>2. PICK p \in DOMAIN pages, n \in Slots, i \in Ids :
        p = store[t].page /\ n = store[t].slot /\ i = store[t].id
  BY <1>1, HeldShape DEF PageInv, IOTypes
<1>3. p \in 1..MaxPages /\ pages[p].section = store[t].section /\ SlotHeld(t) = <<p, n>>
  BY <1>1, <1>2, HeldShape DEF PageInv, IOTypes, AtHome, SlotHeld
<1>4. /\ pages' = pages /\ saved' = saved /\ loc' = loc /\ store'[t].pc = "cached"
      /\ \A u \in Threads \ {t} : store'[u] = store[u]
  BY <1>1, MoveFacts DEF Move, PageInv
<1>5. disk' = [disk EXCEPT ![p][n] = i] /\ disk \in [1..MaxPages -> Data] /\ disk[p] \in Data
  BY <1>2, <1>3 DEF DirectWrite, PageInv, IOTypes
<1>6. Spoiled' = Spoiled /\ (p \notin Spoiled => ~Holds(store[t].section, p))
  BY <1>1, <1>2 DEF DiskInv, InTurn, Spoiled
<1>7. p \notin Spoiled => View(p) = disk[p] /\ View(p)' = [disk[p] EXCEPT ![n] = i]
  <2>1. p \notin Spoiled => View(p) = disk[p]
    BY <1>3, <1>6 DEF View
  <2>2. p \notin Spoiled => View(p)' = disk'[p]
    BY <1>1, <1>3, <1>4, <1>6 DEF View, Holds
  <2> QED
    BY <2>1, <2>2, <1>3, <1>5
<1>8. \A q \in DOMAIN pages \ {p} : View(q)' = View(q)
  BY <1>1, <1>4, <1>5 DEF View, Holds
<1>9. Bytes'
  BY <1>1, <1>2, <1>5, <1>6, <1>7, <1>8, RecordWritten
<1>10. BuffersInTurn(t)
  BY <1>1, SameBuffers
<1>11. FirstSlots'
  BY <1>1, <1>10, MoveFirst
<1>12. InTurn'
  <2>1. \A u \in Threads \ {t} : Starting(u) /\ store[u].page = store[t].page =>
          store[t].page \in overtaken'
    BY <1>1 DEF DiskInv, InTurn
  <2> QED
    BY <1>1, <1>10, <2>1, MoveInTurn
<1>13. Checkpointed'
  <2>1. ASSUME NEW j \in Ids, saved.loc[j] # NoLoc, saved.loc[j][1] \notin Spoiled
        PROVE  disk'[saved.loc[j][1]][saved.loc[j][2]] = j
    <3>1. loc[j] = saved.loc[j] /\ loc[j] # NoLoc
      BY <2>1 DEF DiskInv, Checkpointed
    <3>2. PICK q \in 1..MaxPages, m \in Slots : loc[j] = <<q, m>>
      BY <3>1, LocatedShape DEF PageInv, IOTypes
    <3>3. <<q, m>> # <<p, n>>
      BY <1>1, <1>3, <3>2 DEF PageInv, SlotInv, SlotsNotShared
    <3>4. disk[q][m] = j
      <4>1. disk[saved.loc[j][1]][saved.loc[j][2]] = j
        BY <2>1 DEF DiskInv, Checkpointed, CheckpointedOnDisk
      <4>2. saved.loc[j][1] = q /\ saved.loc[j][2] = m
        BY <3>1, <3>2
      <4> QED
        BY <4>1, <4>2
    <3>5. disk'[q][m] = disk[q][m]
      BY <1>3, <1>5, <3>3 DEF Data
    <3> QED
      BY <3>1, <3>2, <3>4, <3>5
  <2>2. Live' = Live
    BY <1>1 DEF Live
  <2> QED
    BY <1>1, <1>4, <1>6, <2>1, <2>2 DEF DiskInv, Checkpointed, CheckpointedOnDisk
<1> QED
  BY <1>9, <1>11, <1>12, <1>13 DEF DiskInv

\* The other steps of a writer move no bytes a reader sees.
LEMMA MoveBytes ==
  ASSUME PageInv, DiskInv, NEW t \in Threads, NEW pc \in {"direct", "cached", "assign"}, Move(t, pc),
         UNCHANGED <<disk, buffer>>, Spoiled \subseteq Spoiled',
         pc # "direct" => store[t].pc = "cached"
  PROVE  Checkpointed' /\ Bytes'
<1>1. UNCHANGED <<pages, loc, saved>>
  BY DEF Move
<1>2. \A q : View(q)' = View(q)
  BY <1>1 DEF View, Holds
<1>3. Checkpointed'
  BY <1>1 DEF DiskInv, Checkpointed, CheckpointedOnDisk, Live
<1>4. ASSUME NEW u \in Threads, store'[u].pc \in {"cached", "assign"}
      PROVE  /\ store'[u].page = store[u].page /\ store'[u].slot = store[u].slot
             /\ store'[u].id = store[u].id /\ store[u].pc \in {"cached", "assign"}
  <2>1. CASE u = t
    BY <1>4, <2>1, MoveFacts DEF PageInv
  <2>2. CASE u # t
    BY <1>4, <2>2, MoveFacts DEF PageInv
  <2> QED
    BY <2>1, <2>2
<1>5. Bytes'
  <2>1. ASSUME NEW i \in Ids, loc[i] # NoLoc, loc[i][1] \notin Spoiled PROVE View(loc[i][1])[loc[i][2]] = i
    BY <2>1 DEF DiskInv, Bytes
  <2>2. ASSUME NEW u \in Threads, store[u].pc \in {"cached", "assign"}, store[u].page \notin Spoiled
        PROVE  View(store[u].page)[store[u].slot] = store[u].id
    BY <2>2 DEF DiskInv, Bytes
  <2> QED
    BY <1>1, <1>2, <1>4, <2>1, <2>2 DEF Bytes
<1> QED
  BY <1>3, <1>5

LEMMA BypassDisk ==
  ASSUME PageInv, DiskInv, NEW t \in Threads, Bypass(t) \/ UpdateCache(t)
  PROVE  DiskInv'
<1>1. CASE Bypass(t)
  <2>1. /\ Move(t, "direct") /\ UNCHANGED <<disk, buffer, torn>>
        /\ overtaken' = IF FirstPending(store[t].page) THEN overtaken \cup {store[t].page} ELSE overtaken
        /\ store[t].slot # 0 /\ ~Holds(store[t].section, store[t].page)
    BY <1>1, Moves DEF Bypass, MidPage
  <2>2. \A u \in Threads \ {t} : store'[u] = store[u]
    BY <2>1, MoveFacts DEF PageInv
  <2>3. BuffersInTurn(t)
    BY <2>1, SameBuffers
  <2>4. FirstSlots'
    BY <2>1, <2>3, MoveFirst
  <2>5. InTurn'
    <3>1. \A u \in Threads \ {t} : Starting(u) /\ store[u].page = store[t].page =>
            store[t].page \in overtaken'
      BY <2>1 DEF Starting, FirstPending, SlotHeld
    <3>2. ~Holds(store[t].section, store[t].page)'
      BY <2>1, MoveFacts DEF Holds, PageInv
    <3> QED
      BY <2>1, <2>3, <3>1, <3>2, MoveInTurn
  <2>6. Spoiled \subseteq Spoiled'
    BY <2>1 DEF Spoiled
  <2> QED
    BY <2>1, <2>4, <2>5, <2>6, MoveBytes DEF DiskInv
<1>2. CASE UpdateCache(t)
  <2>1. /\ Move(t, "assign") /\ UNCHANGED <<disk, buffer, torn, overtaken>>
        /\ store[t].pc = "cached" /\ Written1(t)
    BY <1>2, Moves DEF UpdateCache, Written1
  <2>2. \A u \in Threads \ {t} : store'[u] = store[u]
    BY <2>1, MoveFacts DEF PageInv
  <2>3. BuffersInTurn(t)
    BY <2>1, SameBuffers
  <2>4. FirstSlots'
    BY <2>1, <2>3, MoveFirst
  <2>5. InTurn'
    <3>1. \A u \in Threads \ {t} : Starting(u) /\ store[u].page = store[t].page =>
            store[t].page \in overtaken'
      BY <2>1 DEF DiskInv, InTurn
    <3> QED
      BY <2>1, <2>3, <3>1, MoveInTurn
  <2>6. Spoiled \subseteq Spoiled'
    BY <2>1 DEF Spoiled
  <2> QED
    BY <2>1, <2>4, <2>5, <2>6, MoveBytes DEF DiskInv
<1> QED
  BY <1>1, <1>2

\* A direct write that fails gives up a slot in the middle of a page.
LEMMA DirectFailsDisk ==
  ASSUME PageInv, DiskInv, NEW t \in Threads, DirectFails(t)
  PROVE  DiskInv'
<1>1. /\ UNCHANGED <<pages, free, loc, saved, disk, buffer, order, cache, load, torn, overtaken>>
      /\ store'[t] = Idle /\ \A u \in Threads \ {t} : store'[u] = store[u]
      /\ store[t].pc = "direct"
  BY DEF DirectFails, GiveUp, io, PageInv, SlotInv, AllocTypeOK
<1>2. \A q : View(q)' = View(q)
  BY <1>1 DEF View, Holds
<1>3. store[t].slot # 0
  BY <1>1 DEF DiskInv, FirstSlots
<1>4. FirstSlots'
  <2>1. ASSUME NEW q \in DOMAIN pages PROVE FirstInUse(q)'
    <3>1. FirstInUse(q)
      BY DEF DiskInv, FirstSlots
    <3>2. ASSUME NEW u \in Threads, Holding(u), SlotHeld(u) = <<q, 0>>
          PROVE  Holding(u)' /\ SlotHeld(u)' = <<q, 0>>
      <4>1. u # t
        BY <1>3, <3>2 DEF SlotHeld
      <4> QED
        BY <1>1, <3>2, <4>1 DEF Holding, SlotHeld
    <3> QED
      BY <1>1, <3>1, <3>2 DEF FirstInUse
  <2>2. ASSUME NEW u \in Threads PROVE FirstIsNew(u)'
    <3>1. FirstIsNew(u) /\ (store'[u] = store[u] \/ store'[u] = Idle)
      BY <1>1 DEF DiskInv, FirstSlots
    <3> QED
      BY <1>1, <3>1 DEF FirstIsNew, Starting, Holds, Idle
  <2>3. \A u \in Threads : store'[u].pc = "direct" => store'[u].slot # 0
    BY <1>1 DEF DiskInv, FirstSlots, Idle
  <2> QED
    BY <1>1, <2>1, <2>2, <2>3 DEF DiskInv, FirstSlots
<1>5. InTurn'
  <2>1. \A u \in Threads : Starting(u)' => Starting(u) /\ store'[u] = store[u]
    BY <1>1 DEF Starting, Idle
  <2>2. \A u \in Threads : Written1(u)' => Written1(u) /\ store'[u] = store[u]
    BY <1>1 DEF Written1, Idle
  <2>3. ASSUME NEW u \in Threads, store'[u].pc = "direct", store'[u].page \notin overtaken
        PROVE  store'[u] = store[u] /\ ~Holds(store[u].section, store[u].page)
    BY <2>2, <2>3 DEF DiskInv, InTurn, Written1
  <2>4. ASSUME NEW u \in Threads, store'[u].pc = "direct", store'[u].page \notin overtaken
        PROVE  ~Holds(store[u].section, store[u].page)'
    BY <1>1, <2>3, <2>4 DEF Holds
  <2> QED
    BY <1>1, <2>1, <2>2, <2>4 DEF DiskInv, InTurn
<1>6. Checkpointed'
  BY <1>1 DEF DiskInv, Checkpointed, CheckpointedOnDisk, Live, Spoiled
<1>7. Bytes'
  <2>0. Spoiled' = Spoiled
    BY <1>1 DEF Spoiled
  <2>1. ASSUME NEW i \in Ids, loc[i] # NoLoc, loc[i][1] \notin Spoiled PROVE View(loc[i][1])[loc[i][2]] = i
    BY <2>1 DEF DiskInv, Bytes
  <2>2. ASSUME NEW u \in Threads, store'[u].pc \in {"cached", "assign"}, store'[u].page \notin Spoiled
        PROVE  u # t /\ store'[u] = store[u] /\ View(store[u].page)[store[u].slot] = store[u].id
    BY <2>2, <1>1 DEF DiskInv, Bytes, Idle
  <2> QED
    BY <1>1, <1>2, <2>0, <2>1, <2>2 DEF Bytes
<1> QED
  BY <1>4, <1>5, <1>6, <1>7 DEF DiskInv

\* Loading a page changes what is cached only.
LEMMA LoadDisk ==
  ASSUME DiskInv, UNCHANGED <<alloc, disk, buffer, torn, overtaken>>
  PROVE  DiskInv'
<1>1. UNCHANGED <<pages, free, loc, saved, store>> /\ Spoiled' = Spoiled
  BY DEF alloc, Spoiled
<1>2. FirstSlots'
  <2>1. \A p \in DOMAIN pages : FirstInUse(p)'
    BY <1>1 DEF DiskInv, FirstSlots, FirstInUse, Holding, SlotHeld
  <2>2. \A u \in Threads : FirstIsNew(u)'
    BY <1>1 DEF DiskInv, FirstSlots, FirstIsNew, Starting, Holds
  <2> QED
    BY <1>1, <2>1, <2>2 DEF DiskInv, FirstSlots
<1>3. InTurn'
  BY <1>1 DEF DiskInv, InTurn, Starting, Written1, Holds
<1>4. Checkpointed'
  BY <1>1 DEF DiskInv, Checkpointed, CheckpointedOnDisk, Live
<1>5. Bytes'
  BY <1>1 DEF DiskInv, Bytes, View, Holds
<1> QED
  BY <1>2, <1>3, <1>4, <1>5 DEF DiskInv

\* A checkpoint sees no store under way, so every page's first slot is an
\* id's; and it is taken of what is then in the file.
LEMMA CheckpointDisk ==
  ASSUME PageInv, DiskInv, NEW t \in Threads, Checkpoint(t)
  PROVE  DiskInv'
<1>1. /\ UNCHANGED <<pages, free, loc, store, overtaken>> /\ saved'.pages = pages /\ saved'.loc = loc
      /\ FlushWrites
      /\ \A u \in Threads : store[u].pc = "idle" /\ store'[u].pc = "idle"
  BY DEF Checkpoint, Save, Quiet, Busy
<1>2. /\ Live' = {} /\ buffer' \in [Sections -> {NoBuffer}]
      /\ \A q \in DOMAIN pages : View(q)' = View(q) \/ q \in torn'
      /\ torn \subseteq torn'
  BY <1>1, FlushWritesFacts DEF PageInv
<1>3. \A q \in DOMAIN pages : \E i \in Ids : loc[i] = <<q, 0>>
  BY <1>1 DEF DiskInv, FirstSlots, FirstInUse, Holding
<1>4. FirstSlots'
  BY <1>1, <1>3 DEF DiskInv, FirstSlots, FirstInUse, FirstIsNew, Starting
<1>5. InTurn'
  BY <1>1 DEF InTurn, Starting, Written1
<1>6. ASSUME NEW i \in Ids, loc[i] # NoLoc, loc[i][1] \notin Spoiled'
      PROVE  View(loc[i][1])'[loc[i][2]] = i /\ disk'[loc[i][1]][loc[i][2]] = i
  <2>1. PICK q \in DOMAIN pages : q = loc[i][1]
    BY <1>6, LocatedShape DEF PageInv, IOTypes
  <2>2. loc[i][1] \notin Spoiled /\ q \notin torn'
    BY <1>1, <1>2, <1>6, <2>1 DEF Spoiled
  <2>3. pages[q].section \in Sections
    <3>1. pages \in Seq(Page) /\ pages[q] \in Page
      BY DEF PageInv, SlotInv, AllocTypeOK
    <3> QED
      BY <3>1 DEF Page
  <2>4. View(q)' = disk'[q] /\ View(q)' = View(q)
    BY <1>1, <1>2, <2>2, <2>3 DEF View, Holds
  <2>5. View(loc[i][1])[loc[i][2]] = i
    BY <1>6, <2>2 DEF DiskInv, Bytes
  <2> QED
    BY <1>1, <2>1, <2>4, <2>5
<1>7. Bytes'
  BY <1>1, <1>6 DEF Bytes
<1>8. Checkpointed'
  BY <1>1, <1>2, <1>6 DEF Checkpointed, CheckpointedOnDisk
<1> QED
  BY <1>4, <1>5, <1>7, <1>8 DEF DiskInv

\* A restart goes back to the checkpoint, whose records are in the file; the
\* slots it finds free are not the first of a page.
LEMMA RestartDisk ==
  ASSUME PageInv, DiskInv, NEW c \in Capacities, Restart(c)
  PROVE  DiskInv'
<1>1. /\ pages' = saved.pages /\ loc' = saved.loc /\ saved' = saved /\ disk' = disk
      /\ free' = [s \in Sections |-> Unlocated(s, saved.pages, saved.loc)]
      /\ store' = [t \in Threads |-> Idle] /\ buffer' = [s \in Sections |-> NoBuffer]
  BY DEF Restart, Reopen
<1>2. Live' = {} /\ \A u \in Threads : store'[u].pc = "idle"
  BY <1>1 DEF Live, Idle
<1>3. \A q \in DOMAIN saved.pages : \E i \in Ids : saved.loc[i] = <<q, 0>>
  BY DEF DiskInv, FirstSlots
<1>4. ASSUME NEW s \in Sections, NEW f \in free'[s] PROVE f[2] # 0
  <2>1. /\ f \in (DOMAIN saved.pages) \X (0..(SlotsPerPage - 1))
        /\ \A i \in Ids : saved.loc[i] # f
    BY <1>1 DEF Unlocated
  <2>2. f = <<f[1], f[2]>> /\ f[1] \in DOMAIN saved.pages
    BY <2>1
  <2> QED
    BY <2>1, <2>2, <1>3
<1>5. FirstSlots'
  BY <1>1, <1>2, <1>3, <1>4 DEF FirstSlots, FirstInUse, FirstIsNew, Starting
<1>6. InTurn'
  BY <1>1, <1>2 DEF InTurn, Starting, Written1
<1>7. ASSUME NEW i \in Ids, saved.loc[i] # NoLoc, saved.loc[i][1] \notin Spoiled'
       PROVE  saved.loc[i][1] \notin Spoiled
  <2>1. saved.loc[i][1] \in DOMAIN saved.pages
    BY <1>7 DEF PageInv, SlotInv, SavedSound, Used
  <2> QED
    BY <1>7, <2>1 DEF Restart, Spoiled
<1>8. CheckpointedOnDisk' /\ Checkpointed'
  BY <1>1, <1>2, <1>7 DEF DiskInv, Checkpointed, CheckpointedOnDisk
<1>9. Bytes'
  <2>1. ASSUME NEW i \in Ids, saved.loc[i] # NoLoc, saved.loc[i][1] \notin Spoiled'
        PROVE  View(saved.loc[i][1])'[saved.loc[i][2]] = i
    <3>1. saved.loc[i][1] \in DOMAIN saved.pages
      BY <2>1 DEF PageInv, SlotInv, SavedSound, Used
    <3>2. saved.pages[saved.loc[i][1]].section \in Sections
      <4>1. saved.pages \in Seq(Page)
        BY DEF PageInv, SlotInv, AllocTypeOK
      <4>2. saved.pages[saved.loc[i][1]] \in Page
        BY <3>1, <4>1
      <4> QED
        BY <4>2 DEF Page
    <3>3. View(saved.loc[i][1])' = disk[saved.loc[i][1]]
      BY <1>1, <3>2 DEF View, Holds
    <3>4. disk[saved.loc[i][1]][saved.loc[i][2]] = i
      BY <2>1, <1>7 DEF DiskInv, Checkpointed, CheckpointedOnDisk
    <3> QED
      BY <1>1, <3>3, <3>4
  <2> QED
    BY <1>1, <1>2, <2>1 DEF Bytes
<1> QED
  BY <1>5, <1>6, <1>8, <1>9 DEF DiskInv

LEMMA PlaceDisk ==
  ASSUME PageInv, DiskInv, NEW t \in Threads, Place(t)
  PROVE  DiskInv'
<1>1. CASE AssignLocation(t)
  BY <1>1, AssignDisk
<1>2. CASE ~AssignLocation(t)
  <2>1. FirstSlots' /\ loc' = loc /\ store'[t].pc \notin {"cached", "assign"}
    BY <1>2, PlaceFirst DEF Written1
  <2> QED
    BY <1>2, <2>1, PlaceInTurn, PlaceBytes DEF DiskInv
<1> QED
  BY <1>1, <1>2

LEMMA DiskNext ==
  ASSUME PageInv, DiskInv, [Next]_vars
  PROVE  DiskInv'
<1>1. CASE UNCHANGED vars
  BY <1>1, LoadDisk DEF vars, io
<1>2. ASSUME NEW t \in Threads, \/ \E i \in Ids : Pread(t, i)
                                \/ Overlay(t) \/ Install(t)
      PROVE  DiskInv'
  <2>1. UNCHANGED <<alloc, disk, buffer, torn, overtaken>>
    BY <1>2 DEF Pread, Overlay, Install
  <2> QED
    BY <2>1, LoadDisk
<1>3. ASSUME NEW t \in Threads,
             \/ Place(t) \/ BufferWrite(t) \/ Bypass(t) \/ DirectWrite(t) \/ DirectFails(t)
             \/ UpdateCache(t) \/ Checkpoint(t)
      PROVE  DiskInv'
  BY <1>3, PlaceDisk, BufferWriteDisk, BypassDisk, DirectWriteDisk, DirectFailsDisk, CheckpointDisk
<1>4. ASSUME NEW c \in Capacities, Restart(c) PROVE DiskInv'
  BY <1>4, RestartDisk
<1> QED
  BY <1>1, <1>2, <1>3, <1>4 DEF Next

-----------------------------------------------------------------------------
\* flushWrites runs before the metadata is saved, and nothing written later,
\* through a buffer or past it, touches a record of the checkpoint, for any
\* number of writers in a section: only a failed flush of the record's page, or
\* a writer that overtook that of the page's first slot, can have lost it.
THEOREM CheckpointStaysOnDisk == Spec => []CheckpointedOnDisk
<1>1. Init => PageInv /\ DiskInv
  BY PageInit, DiskInit
<1>2. PageInv /\ DiskInv /\ [Next]_vars => (PageInv /\ DiskInv)'
  BY PageNext, DiskNext
<1>3. DiskInv => CheckpointedOnDisk
  BY DEF DiskInv, Checkpointed
<1> QED
  BY <1>1, <1>2, <1>3, PTL DEF Spec

(***************************************************************************)
(* What readers see                                                        *)
(***************************************************************************)

\* Whatever bytes fit the records of a page still fit them after a step.
KeepsFit == \A q, d : Fits(loc, store, q, d) => Fits(loc', store', q, d)

\* What a reader sees past the cache fits, but on a spoiled page.
LEMMA ViewFits ==
  ASSUME DiskInv, NEW p, p \notin Spoiled
  PROVE  Fits(loc, store, p, View(p))
BY DEF Fits, DiskInv, Bytes

LEMMA ViewFitsAfter ==
  ASSUME DiskInv', NEW p, p \notin Spoiled', NEW d, d = View(p)'
  PROVE  Fits(loc', store', p, d)
<1>1. ASSUME NEW i \in Ids, loc'[i] # NoLoc, loc'[i][1] = p PROVE d[loc'[i][2]] = i
  <2>1. View(loc[i][1])'[loc'[i][2]] = i
    BY <1>1 DEF DiskInv, Bytes
  <2>2. View(loc[i][1])' = View(p)'
    BY <1>1 DEF View
  <2> QED
    BY <2>1, <2>2
<1>2. ASSUME NEW t \in Threads, store'[t].pc = "assign", store'[t].page = p
      PROVE  d[store'[t].slot] = store'[t].id
  <2>1. View(store[t].page)'[store'[t].slot] = store'[t].id
    BY <1>2 DEF DiskInv, Bytes
  <2>2. View(store[t].page)' = View(p)'
    BY <1>2 DEF View
  <2> QED
    BY <2>1, <2>2
<1> QED
  BY <1>1, <1>2 DEF Fits

\* Who has just written is not about to locate its record.
LEMMA OthersFit ==
  ASSUME NEW t \in Threads, loc' = loc, store'[t].pc # "assign",
         \A u \in Threads \ {t} : store'[u] = store[u]
  PROVE  KeepsFit
BY DEF KeepsFit, Fits

LEMMA ReadInit == Init => ReadInv
BY DEF Init, AllocInit, ReadInv, CacheFits, LoadFits, Loading, Idle

\* The steps of writers and checkpoints: cached pages stay, or become what is
\* in the buffer, and a load that is not late stays right, since the buffer it
\* has yet to lay over its bytes is still there.
LEMMA ReadKept ==
  ASSUME PageInv, ReadInv, DiskInv', KeepsFit, Spoiled \subseteq Spoiled', LoadsKept,
         DOMAIN cache' = DOMAIN cache,
         \A k \in DOMAIN cache :
           /\ cache'[k].page = cache[k].page
           /\ \/ cache'[k] = cache[k]
              \/ cache'[k].data = View(cache[k].page)' \/ cache[k].page \in Spoiled',
         \A q \in DOMAIN pages :
           LateOn(q) \/ (Holds(pages[q].section, q) => Holds(pages[q].section, q)')
  PROVE  ReadInv'
<1>1. ASSUME NEW k \in DOMAIN cache, ~cache'[k].late, cache'[k].page \notin Spoiled'
      PROVE  Fits(loc', store', cache'[k].page, cache'[k].data)
  <2>1. PICK q, d : q = cache[k].page /\ d = cache'[k].data
    OBVIOUS
  <2>2. q \notin Spoiled' /\ q \notin Spoiled /\ cache'[k].page = q
    BY <1>1, <2>1
  <2>3. CASE cache'[k] = cache[k]
    <3>1. Fits(loc, store, q, d)
      BY <1>1, <2>1, <2>2, <2>3 DEF ReadInv, CacheFits
    <3> QED
      BY <2>1, <2>2, <3>1 DEF KeepsFit
  <2>4. CASE d = View(q)'
    BY <2>1, <2>2, <2>4, ViewFitsAfter
  <2>5. cache'[k] = cache[k] \/ d = View(q)'
    BY <2>1, <2>2 DEF View
  <2> QED
    BY <2>3, <2>4, <2>5
<1>2. ASSUME NEW u \in Threads, Loading(u)', ~load'[u].late, load'[u].page \notin Spoiled'
      PROVE  \/ Fits(loc', store', load'[u].page, load'[u].data)
             \/ load'[u].pc = "overlay" /\ Holds(pages[load[u].page].section, load[u].page)'
  <2>1. /\ Loading(u) /\ load'[u].pc = load[u].pc /\ load'[u].page = load[u].page
        /\ load'[u].data = load[u].data /\ ~load[u].late
    BY <1>2 DEF LoadsKept
  <2>2. PICK q \in DOMAIN pages : q = load[u].page
    BY <2>1 DEF PageInv, IOTypes
  <2>3. q \notin Spoiled /\ ~LateOn(q)
    BY <1>2, <2>1, <2>2 DEF LateOn
  <2>4. CASE Fits(loc, store, q, load[u].data)
    BY <2>1, <2>2, <2>4 DEF KeepsFit
  <2>5. CASE load[u].pc = "overlay" /\ Holds(pages[q].section, q)
    <3>1. Holds(pages[q].section, q)'
      BY <2>3, <2>5
    <3> QED
      BY <2>1, <2>2, <2>5, <3>1 DEF Holds
  <2> QED
    BY <2>1, <2>2, <2>3, <2>4, <2>5 DEF ReadInv, LoadFits
<1>3. CacheFits'
  BY <1>1 DEF CacheFits
<1>4. LoadFits'
  BY <1>2 DEF LoadFits
<1> QED
  BY <1>3, <1>4 DEF ReadInv

LEMMA PlaceRead ==
  ASSUME PageInv, DiskInv, ReadInv, DiskInv', NEW t \in Threads, Place(t)
  PROVE  ReadInv'
<1>1. UNCHANGED <<disk, buffer, order, cache, load, torn, overtaken>> /\ Store(t)
  BY DEF Place, io
<1>2. /\ \A p \in DOMAIN pages : pages'[p].section = pages[p].section
      /\ \A u \in Threads \ {t} : store'[u] = store[u]
  BY <1>1, StoreFacts DEF PageInv, IOTypes
<1>3. KeepsFit
  <2>1. CASE AssignLocation(t)
    <3>1. Holding(t) /\ store[t].pc = "assign"
      BY <2>1 DEF AssignLocation, Holding
    <3>2. PICK i \in Ids : i = store[t].id
      BY <3>1, HeldShape DEF PageInv, IOTypes
    <3>3. /\ loc'[i] = <<store[t].page, store[t].slot>>
          /\ \A j \in Ids \ {i} : loc'[j] = loc[j]
          /\ store'[t] = Idle
      BY <2>1, <3>2 DEF AssignLocation, SlotHeld, PageInv, SlotInv, AllocTypeOK, Locations
    <3> QED
      BY <1>2, <3>1, <3>2, <3>3 DEF KeepsFit, Fits, Idle
  <2>2. CASE ~AssignLocation(t)
    <3>1. loc' = loc /\ store'[t].pc # "assign"
      BY <2>2, PlaceFirst DEF Written1
    <3> QED
      BY <1>2, <3>1, OthersFit
  <2> QED
    BY <2>1, <2>2
<1>4. LoadsKept
  BY <1>1, LoadsStay
<1>5. \A q \in DOMAIN pages : Holds(pages[q].section, q) => Holds(pages[q].section, q)'
  BY <1>1, <1>2 DEF Holds
<1> QED
  BY <1>1, <1>3, <1>4, <1>5, ReadKept DEF Spoiled

LEMMA WriteRead ==
  ASSUME PageInv, DiskInv, ReadInv, DiskInv', NEW t \in Threads,
         BufferWrite(t) \/ DirectWrite(t) \/ Bypass(t) \/ DirectFails(t)
  PROVE  ReadInv'
<1>1. KeepsFit /\ pages' = pages
  <2>1. CASE BufferWrite(t) \/ DirectWrite(t) \/ Bypass(t)
    <3>1. Move(t, "cached") \/ Move(t, "direct")
      BY <2>1, Moves
    <3>2. /\ UNCHANGED <<loc, pages>> /\ store'[t].pc # "assign"
          /\ \A u \in Threads \ {t} : store'[u] = store[u]
      BY <3>1, MoveFacts DEF Move, PageInv
    <3> QED
      BY <3>2, OthersFit
  <2>2. CASE DirectFails(t)
    <3>1. /\ UNCHANGED <<loc, pages>> /\ store'[t] = Idle
          /\ \A u \in Threads \ {t} : store'[u] = store[u]
      BY <2>2 DEF DirectFails, GiveUp, PageInv, SlotInv, AllocTypeOK
    <3> QED
      BY <3>1, OthersFit DEF Idle
  <2> QED
    BY <2>1, <2>2
<1>2. CASE BufferWrite(t)
  <2>1. PICK s \in Sections, p \in DOMAIN pages, n \in Slots, new \in Buffers : Wrote(t, s, p, n, new)
    BY <1>2, BufferWriteFacts DEF PageInv
  <2>2. /\ Spoiled \subseteq Spoiled' /\ LoadsKept /\ DOMAIN cache' = DOMAIN cache
        /\ \A q \in torn' : q \in Spoiled'
        /\ \A q \in DOMAIN pages :
             LateOn(q) \/ (Holds(pages[q].section, q) => Holds(pages[q].section, q)')
    BY <1>2, <2>1 DEF Wrote, Spoiled, BufferWrite
  <2>3. \A k \in DOMAIN cache :
          /\ cache'[k].page = cache[k].page
          /\ \/ cache'[k] = cache[k]
             \/ cache'[k].data = View(cache[k].page)' \/ cache[k].page \in Spoiled'
    BY <2>1, <2>2 DEF Wrote
  <2> QED
    BY <1>1, <2>2, <2>3, ReadKept
<1>3. CASE DirectWrite(t) \/ Bypass(t) \/ DirectFails(t)
  <2>1. UNCHANGED <<buffer, cache, load>> /\ Spoiled \subseteq Spoiled'
    BY <1>3 DEF DirectWrite, Bypass, DirectFails, io, Spoiled
  <2>2. LoadsKept
    BY <2>1, LoadsStay
  <2>3. \A q \in DOMAIN pages : Holds(pages[q].section, q) => Holds(pages[q].section, q)'
    BY <1>1, <2>1 DEF Holds
  <2> QED
    BY <1>1, <2>1, <2>2, <2>3, ReadKept
<1> QED
  BY <1>2, <1>3

LEMMA CheckpointRead ==
  ASSUME PageInv, ReadInv, DiskInv', NEW t \in Threads, Checkpoint(t)
  PROVE  ReadInv'
<1>1. UNCHANGED <<pages, loc, store, overtaken>> /\ FlushWrites
  BY DEF Checkpoint, Save
<1>2. KeepsFit
  BY <1>1 DEF KeepsFit
<1>3. /\ torn \subseteq torn' /\ LoadsKept /\ DOMAIN cache' = DOMAIN cache
      /\ \A k \in DOMAIN cache :
           /\ cache'[k].page = cache[k].page
           /\ \/ cache'[k] = cache[k]
              \/ cache'[k].data = View(cache[k].page)' \/ cache[k].page \in torn'
      /\ \A q \in DOMAIN pages : LateOn(q) \/ ~Holds(pages[q].section, q)
  BY <1>1, FlushWritesFacts DEF PageInv
<1>4. Spoiled \subseteq Spoiled' /\ \A q \in torn' : q \in Spoiled'
  BY <1>1, <1>3 DEF Spoiled
<1>5. \A k \in DOMAIN cache :
        /\ cache'[k].page = cache[k].page
        /\ \/ cache'[k] = cache[k]
           \/ cache'[k].data = View(cache[k].page)' \/ cache[k].page \in Spoiled'
  BY <1>3, <1>4
<1>6. \A q \in DOMAIN pages :
        LateOn(q) \/ (Holds(pages[q].section, q) => Holds(pages[q].section, q)')
  BY <1>3
<1> QED
  BY <1>2, <1>3, <1>4, <1>5, <1>6, ReadKept

\* The cached page, if any, takes the record; a load of the page is late.
LEMMA UpdateCacheRead ==
  ASSUME PageInv, ReadInv, NEW t \in Threads, UpdateCache(t)
  PROVE  ReadInv'
<1>1. /\ Holding(t) /\ Move(t, "assign") /\ UNCHANGED <<pages, loc, buffer>> /\ Spoiled' = Spoiled
      /\ LateFor({store[t].page})
  BY Moves DEF UpdateCache, Holding, Spoiled
<1>2. PICK p \in DOMAIN pages, n \in Slots, i \in Ids :
        p = store[t].page /\ n = store[t].slot /\ i = store[t].id /\ SlotHeld(t) = <<p, n>>
  BY <1>1, HeldShape DEF PageInv, IOTypes, SlotHeld
<1>3. /\ store'[t].page = p /\ store'[t].slot = n /\ store'[t].id = i
      /\ \A u \in Threads \ {t} : store'[u] = store[u]
  BY <1>1, <1>2, MoveFacts DEF PageInv
<1>4. LoadsKept /\ LateOn(p)
  BY <1>1, <1>2, LateFacts DEF PageInv, IOTypes
<1>5. ASSUME NEW q, q # p, NEW d, Fits(loc, store, q, d) PROVE Fits(loc', store', q, d)
  BY <1>1, <1>3, <1>5 DEF Fits
<1>6. ASSUME NEW k \in DOMAIN cache
      PROVE  /\ cache'[k].page = cache[k].page /\ cache'[k].late = cache[k].late
             /\ cache[k].page # p => cache'[k].data = cache[k].data
             /\ cache[k].page = p => /\ cache'[k].data[n] = i
                                     /\ \A m \in Slots \ {n} : cache'[k].data[m] = cache[k].data[m]
  <2>1. cache[k] \in CachedPages
    BY DEF PageInv, IOTypes
  <2>2. cache'[k] = IF cache[k].page # p THEN cache[k] ELSE [cache[k] EXCEPT !.data[n] = i]
    BY <1>2 DEF UpdateCache
  <2> QED
    BY <2>1, <2>2 DEF CachedPages, Data
<1>7. DOMAIN cache' = DOMAIN cache
  BY DEF UpdateCache
<1>8. ASSUME NEW d, NEW e, Fits(loc, store, p, d), e[n] = i, \A m \in Slots \ {n} : e[m] = d[m]
      PROVE  Fits(loc', store', p, e)
  <2>1. ASSUME NEW j \in Ids, loc[j] # NoLoc, loc[j][1] = p PROVE e[loc[j][2]] = j
    <3>1. d[loc[j][2]] = j
      BY <1>8, <2>1 DEF Fits
    <3>2. loc[j] = <<loc[j][1], loc[j][2]>> /\ loc[j][2] \in Slots
      BY <2>1, LocatedShape DEF PageInv, IOTypes
    <3>3. loc[j] # <<p, n>>
      BY <1>1, <1>2, <2>1 DEF PageInv, SlotInv, SlotsNotShared
    <3> QED
      BY <1>8, <2>1, <3>1, <3>2, <3>3
  <2>2. ASSUME NEW u \in Threads, store'[u].pc = "assign", store'[u].page = p
        PROVE  e[store'[u].slot] = store'[u].id
    <3>1. CASE u = t
      BY <3>1, <1>3, <1>8
    <3>2. CASE u # t
      <4>1. Holding(u) /\ store'[u] = store[u]
        BY <1>3, <2>2, <3>2 DEF Holding
      <4>2. store[u].slot \in Slots /\ SlotHeld(u) = <<p, store[u].slot>>
        BY <4>1, <2>2, HeldShape DEF PageInv, IOTypes, SlotHeld
      <4>3. SlotHeld(u) # SlotHeld(t)
        BY <4>1, <3>2, <1>1 DEF PageInv, SlotInv, SlotsNotShared
      <4>4. d[store[u].slot] = store[u].id
        BY <4>1, <2>2, <1>8 DEF Fits
      <4> QED
        BY <4>1, <4>2, <4>3, <4>4, <1>2, <1>8
    <3> QED
      BY <3>1, <3>2
  <2> QED
    BY <1>1, <2>1, <2>2 DEF Fits
<1>9. ASSUME NEW k \in DOMAIN cache, ~cache'[k].late, cache'[k].page \notin Spoiled
      PROVE  Fits(loc', store', cache'[k].page, cache'[k].data)
  <2>1. Fits(loc, store, cache[k].page, cache[k].data)
    BY <1>6, <1>9 DEF ReadInv, CacheFits
  <2>2. CASE cache[k].page = p
    <3>1. Fits(loc', store', p, cache'[k].data)
      BY <2>1, <2>2, <1>6, <1>8
    <3> QED
      BY <3>1, <2>2, <1>6
  <2>3. CASE cache[k].page # p
    <3>1. cache'[k].page = cache[k].page /\ cache'[k].data = cache[k].data
      BY <2>3, <1>6
    <3> QED
      BY <2>1, <2>3, <3>1, <1>5
  <2> QED
    BY <2>2, <2>3
<1>10. ASSUME NEW u \in Threads, Loading(u)', ~load'[u].late, load'[u].page \notin Spoiled
       PROVE  \/ Fits(loc', store', load'[u].page, load'[u].data)
              \/ load'[u].pc = "overlay" /\ Holds(pages[load[u].page].section, load[u].page)'
  <2>1. /\ Loading(u) /\ load'[u].pc = load[u].pc /\ load'[u].page = load[u].page
        /\ load'[u].data = load[u].data /\ ~load[u].late
    BY <1>4, <1>10 DEF LoadsKept
  <2>2. load[u].page # p
    BY <1>4, <1>10, <2>1 DEF LateOn
  <2>3. \/ Fits(loc, store, load[u].page, load[u].data)
        \/ load[u].pc = "overlay" /\ Holds(pages[load[u].page].section, load[u].page)
    BY <1>10, <2>1 DEF ReadInv, LoadFits
  <2>4. CASE Fits(loc, store, load[u].page, load[u].data)
    <3>1. Fits(loc', store', load[u].page, load[u].data)
      BY <2>2, <2>4, <1>5
    <3> QED
      BY <2>1, <3>1
  <2>5. CASE load[u].pc = "overlay" /\ Holds(pages[load[u].page].section, load[u].page)
    BY <1>1, <2>1, <2>5 DEF Holds
  <2> QED
    BY <2>3, <2>4, <2>5
<1>11. CacheFits'
  BY <1>1, <1>7, <1>9 DEF CacheFits
<1>12. LoadFits'
  BY <1>1, <1>10 DEF LoadFits
<1> QED
  BY <1>11, <1>12 DEF ReadInv

\* A load reads the file and lays the buffer over it, so what it installs is
\* what a reader saw, unless it is late.
LEMMA LoadRead ==
  ASSUME PageInv, DiskInv, ReadInv, NEW t \in Threads,
         (\E i \in Ids : Pread(t, i)) \/ Overlay(t) \/ Install(t)
  PROVE  ReadInv'
<1>1. UNCHANGED <<pages, loc, store, disk, buffer, torn, overtaken>> /\ Spoiled' = Spoiled
  BY DEF Pread, Overlay, Install, alloc, Spoiled
<1>2. ASSUME NEW l \in Loads \cup {Idle}, load' = [load EXCEPT ![t] = l],
             l # Idle /\ ~l.late /\ l.page \notin Spoiled =>
               \/ Fits(loc, store, l.page, l.data)
               \/ l.pc = "overlay" /\ Holds(pages[l.page].section, l.page)
      PROVE  LoadFits'
  <2>1. load'[t] = l /\ \A u \in Threads \ {t} : load'[u] = load[u]
    BY <1>2 DEF PageInv, IOTypes
  <2>2. ASSUME NEW u \in Threads, load'[u].pc # "idle", ~load'[u].late, load'[u].page \notin Spoiled
        PROVE  \/ Fits(loc, store, load'[u].page, load'[u].data)
               \/ load'[u].pc = "overlay" /\ buffer[pages[load'[u].page].section] # NoBuffer
                  /\ buffer[pages[load'[u].page].section].page = load'[u].page
    <3>1. CASE u = t
      BY <1>2, <2>1, <2>2, <3>1 DEF Idle, Holds
    <3>2. CASE u # t
      BY <2>1, <2>2, <3>2 DEF ReadInv, LoadFits, Loading, Holds
    <3> QED
      BY <3>1, <3>2
  <2> QED
    BY <1>1, <2>2 DEF LoadFits, Loading, Holds
<1>3. ASSUME NEW i \in Ids, Pread(t, i) PROVE ReadInv'
  <2>1. loc[i] # NoLoc /\ cache' = cache
    BY <1>3 DEF Pread
  <2>2. PICK p \in 1..MaxPages : p = loc[i][1]
    BY <2>1, LocatedShape DEF PageInv, IOTypes
  <2>3. PICK l \in Loads : l = [pc |-> "overlay", page |-> p, data |-> disk[p], late |-> FALSE]
    <3>1. p \in Nat \ {0} /\ disk[p] \in Data
      BY <2>2, SlotBoundsAssumption DEF PageInv, IOTypes
    <3> QED
      BY <3>1 DEF Loads
  <2>4. load' = [load EXCEPT ![t] = l] /\ l.page = p /\ l.data = disk[p] /\ l.pc = "overlay"
    BY <1>3, <2>2, <2>3 DEF Pread
  <2>5. p \notin Spoiled => Fits(loc, store, p, disk[p]) \/ Holds(pages[p].section, p)
    BY ViewFits DEF View
  <2>6. LoadFits'
    BY <2>4, <2>5, <1>2
  <2>7. CacheFits'
    BY <1>1, <2>1 DEF ReadInv, CacheFits
  <2> QED
    BY <2>6, <2>7 DEF ReadInv
<1>4. CASE Overlay(t)
  <2>1. load[t].pc = "overlay" /\ Loading(t) /\ cache' = cache
    BY <1>4 DEF Overlay, Loading
  <2>2. load[t] \in Loads /\ load[t].page \in DOMAIN pages
    BY <2>1 DEF PageInv, IOTypes, Idle
  <2>3. PICK p \in DOMAIN pages : p = load[t].page
    BY <2>2
  <2>4. PICK d : d = IF Holds(pages[p].section, p) THEN buffer[pages[p].section].data ELSE load[t].data
    OBVIOUS
  <2>5. d \in Data
    <3>1. pages[p].section \in Sections
      <4>1. pages \in Seq(Page) /\ pages[p] \in Page
        BY DEF PageInv, SlotInv, AllocTypeOK
      <4> QED
        BY <4>1 DEF Page
    <3> QED
      BY <2>2, <2>3, <2>4, <3>1 DEF Holds, PageInv, IOTypes, Buffers, Loads
  <2>6. PICK l \in Loads : l = [load[t] EXCEPT !.pc = "install", !.data = d]
    BY <2>2, <2>5 DEF Loads
  <2>7. load' = [load EXCEPT ![t] = l]
    BY <1>4, <2>3, <2>4, <2>6 DEF Overlay, PageInv, IOTypes
  <2>8. l.page = p /\ l.data = d /\ l.late = load[t].late
    BY <2>2, <2>3, <2>4, <2>6 DEF Loads
  <2>9. ASSUME ~load[t].late, p \notin Spoiled PROVE Fits(loc, store, p, d)
    <3>1. CASE Holds(pages[p].section, p)
      <4>1. d = View(p)
        BY <2>4, <3>1 DEF View
      <4> QED
        BY <4>1, <2>9, ViewFits
    <3>2. CASE ~Holds(pages[p].section, p)
      BY <2>1, <2>3, <2>4, <2>9, <3>2 DEF ReadInv, LoadFits
    <3> QED
      BY <3>1, <3>2
  <2>10. LoadFits'
    BY <2>7, <2>8, <2>9, <1>2
  <2>11. CacheFits'
    BY <1>1, <2>1 DEF ReadInv, CacheFits
  <2> QED
    BY <2>10, <2>11 DEF ReadInv
<1>5. CASE Install(t)
  <2>1. load[t].pc = "install" /\ Loading(t) /\ load' = [load EXCEPT ![t] = Idle]
    BY <1>5 DEF Install, Loading
  <2>2. ~load[t].late /\ load[t].page \notin Spoiled => Fits(loc, store, load[t].page, load[t].data)
    BY <2>1 DEF ReadInv, LoadFits
  <2>3. LoadFits'
    BY <2>1, <1>2
  <2> DEFINE new == [page |-> load[t].page, data |-> load[t].data, late |-> load[t].late]
  <2>4. cache \in Seq(CachedPages) /\ Len(cache) <= MaxCached
    BY DEF PageInv, IOTypes, Caps, CacheWithinCap
  <2>5. MaxCached > 0
    BY <2>1 DEF PageInv, Caps
  <2>6. ASSUME NEW k \in DOMAIN cache' PROVE cache'[k] = new \/ \E m \in DOMAIN cache : cache'[k] = cache[m]
    <3>1. CASE Cached(load[t].page)
      BY <3>1, <1>5 DEF Install
    <3>2. CASE ~Cached(load[t].page) /\ Len(cache) < MaxCached
      <4>1. cache' = Append(cache, new)
        BY <3>2, <1>5 DEF Install
      <4> QED
        BY <4>1, <2>4
    <3>3. CASE ~Cached(load[t].page) /\ ~(Len(cache) < MaxCached)
      <4>1. cache' = Append(Tail(cache), new)
        BY <3>3, <1>5 DEF Install
      <4>2. cache # <<>>
        BY <3>3, <2>4, <2>5, BufferCapAssumption
      <4>3. Tail(cache) \in Seq(CachedPages) /\ Len(Tail(cache)) = Len(cache) - 1
            /\ \A j \in 1..Len(Tail(cache)) : Tail(cache)[j] = cache[j + 1] /\ j + 1 \in DOMAIN cache
        BY <4>2, <2>4
      <4> QED
        BY <4>1, <4>3
    <3> QED
      BY <3>1, <3>2, <3>3
  <2>7. new.page = load[t].page /\ new.data = load[t].data /\ new.late = load[t].late
    OBVIOUS
  <2> HIDE DEF new
  <2>8. ASSUME NEW k \in DOMAIN cache', ~cache'[k].late, cache'[k].page \notin Spoiled
        PROVE  Fits(loc, store, cache'[k].page, cache'[k].data)
    <3>1. CASE cache'[k] = new
      BY <2>2, <2>7, <2>8, <3>1
    <3>2. CASE \E m \in DOMAIN cache : cache'[k] = cache[m]
      BY <2>8, <3>2 DEF ReadInv, CacheFits
    <3> QED
      BY <2>6, <3>1, <3>2
  <2>9. CacheFits'
    BY <1>1, <2>8 DEF CacheFits
  <2> QED
    BY <2>3, <2>9 DEF ReadInv
<1> QED
  BY <1>3, <1>4, <1>5

LEMMA ReadNext ==
  ASSUME PageInv, DiskInv, ReadInv, DiskInv', [Next]_vars
  PROVE  ReadInv'
<1>1. CASE UNCHANGED vars
  <2>1. UNCHANGED <<pages, loc, store, disk, buffer, cache, load, torn, overtaken>>
    BY <1>1 DEF vars, alloc, io
  <2> QED
    BY <2>1 DEF ReadInv, CacheFits, LoadFits, Loading, Holds, Spoiled
<1>2. ASSUME NEW t \in Threads,
             \/ Place(t) \/ BufferWrite(t) \/ Bypass(t) \/ DirectWrite(t) \/ DirectFails(t)
             \/ UpdateCache(t) \/ Checkpoint(t)
             \/ (\E i \in Ids : Pread(t, i)) \/ Overlay(t) \/ Install(t)
      PROVE  ReadInv'
  BY <1>2, PlaceRead, WriteRead, UpdateCacheRead, CheckpointRead, LoadRead
<1>3. ASSUME NEW c \in Capacities, Restart(c) PROVE ReadInv'
  <2>1. cache' = <<>> /\ load' = [t \in Threads |-> Idle]
    BY <1>3 DEF Restart
  <2> QED
    BY <2>1 DEF ReadInv, CacheFits, LoadFits, Loading, Idle
<1> QED
  BY <1>1, <1>2, <1>3 DEF Next

\* A look at the cache finds the page, if it is there.
LEMMA CacheLook ==
  ASSUME cache \in Seq(CachedPages), NEW p
  PROVE  LET k == SelectInSeq(cache, LAMBDA b : b.page = p)
         IN k = 0 \/ (k \in DOMAIN cache /\ cache[k].page = p)
<1> DEFINE I == {j \in 1..Len(cache) : cache[j].page = p}
           k == SelectInSeq(cache, LAMBDA b : b.page = p)
<1>1. k = IF I # {} THEN Min(I) ELSE 0
  BY DEF SelectInSeq
<1>2. CASE I # {}
  <2>1. I \in SUBSET Nat
    OBVIOUS
  <2>2. Min(I) \in I
    BY <1>2, <2>1, MinIsLeast
  <2> QED
    BY <1>1, <1>2, <2>2
<1>3. CASE I = {}
  BY <1>1, <1>3
<1> QED
  BY <1>2, <1>3

\* storeEncoded publishes a location last, so that whoever finds an id located
\* reads its record, from the buffer, the cache or the file, for any number of
\* writers in a section and any loads of pages under way: only a failed flush
\* of the record's page, a writer that overtook that of the page's first slot,
\* or a load that overlapped a write to the page can have lost it.
THEOREM WhatIsPublishedCanBeRead == Spec => []PublishedReadable
<1>1. Init => PageInv /\ DiskInv /\ ReadInv
  BY PageInit, DiskInit, ReadInit
<1>2. PageInv /\ DiskInv /\ ReadInv /\ [Next]_vars => (PageInv /\ DiskInv /\ ReadInv)'
  BY PageNext, DiskNext, ReadNext
<1>3. ASSUME PageInv, DiskInv, ReadInv, NEW i \in Ids, loc[i] # NoLoc,
             loc[i][1] \notin Spoiled, ~CachedLate(loc[i][1])
      PROVE  Read(i) = i
  <2> DEFINE p == loc[i][1]
             k == SelectInSeq(cache, LAMBDA b : b.page = p)
  <2>1. k = 0 \/ (k \in DOMAIN cache /\ cache[k].page = p)
    BY <1>3, CacheLook DEF PageInv, IOTypes
  <2>2. View(p)[loc[i][2]] = i
    BY <1>3 DEF DiskInv, Bytes
  <2>3. ASSUME k # 0, k \in DOMAIN cache, cache[k].page = p PROVE cache[k].data[loc[i][2]] = i
    <3>1. ~cache[k].late
      BY <1>3, <2>3 DEF CachedLate
    <3>2. Fits(loc, store, p, cache[k].data)
      BY <1>3, <2>3, <3>1 DEF ReadInv, CacheFits
    <3> QED
      BY <1>3, <3>2 DEF Fits
  <2>4. Read(i) = (IF Holds(pages[p].section, p) THEN buffer[pages[p].section].data
                   ELSE IF k # 0 THEN cache[k].data ELSE disk[p])[loc[i][2]]
    BY DEF Read
  <2> QED
    BY <2>1, <2>2, <2>3, <2>4, SMTT(30) DEF View
<1>4. PageInv /\ DiskInv /\ ReadInv => PublishedReadable
  BY <1>3 DEF PublishedReadable
<1> QED
  BY <1>1, <1>2, <1>4, PTL DEF Spec
=============================================================================
