---------------------------- MODULE VectorPages ----------------------------
(***************************************************************************)
(* The bytes behind SlotAllocator: how PagedVectorStorage writes a record  *)
(* through its section's write buffer or straight to the file, and how     *)
(* readers see it through the buffer, the page cache and the file.         *)
(*                                                                         *)
(* A record is the id it belongs to.  A shard's mutex makes each of        *)
(* writeToSectionBuffer (up to its cache update), overlayWriteBuf and      *)
(* flushWrites one step; page_mu_ does so for a look at the cache; the     *)
(* file is read and written with no lock.  All sections are in one shard,  *)
(* where buffers compete for its cap.                                      *)
(***************************************************************************)
EXTENDS SlotAllocator, SequencesExt

CONSTANTS
  Readers,    \* the threads that load pages
  BufferCap,  \* perShardCap of the write buffers, 0 for no limit
  MaxCached,  \* maxCachedPages_, 0 for no cache
  Zero,       \* the bytes of a slot nothing was written to
  NoBuffer,   \* a section without a write buffer
  MaxTorn     \* bound: pages whose flush failed, at any one time

ASSUME BufferCapAssumption == BufferCap \in Nat /\ MaxCached \in Nat /\ MaxTorn \in Nat
ASSUME ZeroAssumption == Zero \notin Ids

VARIABLES
  disk,   \* the vector file
  buffer, \* writeBufs: the page and data of each section's buffer
  order,  \* bufOrder: the sections in the order their buffers were made
  cache,  \* cacheSlots_, oldest first
  load,   \* each thread's loadPageToCache call
  torn,      \* history: pages a flush of which failed or fell short
  overtaken  \* history: pages with a record written past the buffer before
             \* the page's first record had started one

io == <<disk, buffer, order, cache, load, torn, overtaken>>
vars == <<alloc, io>>

Slots == 0..(SlotsPerPage - 1)
Data == [Slots -> Ids \cup {Zero}]
Blank == [n \in Slots |-> Zero]
Buffers == [page : 1..MaxPages, data : Data]
CachedPages == [page : 1..MaxPages, data : Data, late : BOOLEAN]

ASSUME NoBufferAssumption == NoBuffer \notin Buffers

Init ==
  /\ AllocInit
  /\ disk = [p \in 1..MaxPages |-> Blank]
  /\ buffer = [s \in Sections |-> NoBuffer]
  /\ order = <<>>
  /\ cache = <<>>
  /\ load = [t \in Threads |-> Idle]
  /\ torn = {} /\ overtaken = {}

Loading(t) == load[t].pc # "idle"
Live == {s \in Sections : buffer[s] # NoBuffer}
Holds(s, p) == buffer[s] # NoBuffer /\ buffer[s].page = p
Cached(p) == \E k \in DOMAIN cache : cache[k].page = p

-----------------------------------------------------------------------------
(* Writing a record.                                                       *)

\* Loads of pages P that are under way miss a change of those pages.
LateFor(P) == load' = [t \in Threads |-> IF Loading(t) /\ load[t].page \in P
                                         THEN [load[t] EXCEPT !.late = TRUE] ELSE load[t]]

\* How many slots of each page of P reach the file: nobody looks at what pwrite
\* returns.
Written(P) == {reach \in [P -> 0..SlotsPerPage] :
                 LET short == {p \in P : reach[p] < SlotsPerPage}
                 IN short = {} \/ Cardinality(torn \cup short) <= MaxTorn}

\* flushSectionWriteBuf of buffers fs: whole pages, in the file and, whether
\* that went well or not, in the cache.
Flush(fs) ==
  LET P == {b.page : b \in fs}
      bytes(p) == (CHOOSE b \in fs : b.page = p).data
  IN /\ \E reach \in Written(P) :
          /\ disk' = [p \in DOMAIN disk |->
                        IF p \in P THEN [n \in Slots |-> IF n < reach[p] THEN bytes(p)[n] ELSE disk[p][n]]
                        ELSE disk[p]]
          /\ torn' = torn \cup {p \in P : reach[p] < SlotsPerPage}
     /\ cache' = [k \in DOMAIN cache |->
                    IF cache[k].page \in P
                    THEN [page |-> cache[k].page, data |-> bytes(cache[k].page), late |-> FALSE]
                    ELSE cache[k]]
     /\ LateFor(P)

\* Mutant of MidPage: every slot may start a buffer.
NeverMidPage(s, p, n) == FALSE

\* A buffer that does not hold the page may not be started in its middle:
\* flushing it would blank the slots before.
MidPage(s, p, n) == ~Holds(s, p) /\ n # 0

\* The section whose buffer gives way to a new one of section s: the oldest
\* live one, if the cap is exceeded.  Entries of sections that have no
\* buffer any more are dropped, those of s itself go to the back.
Position(s) == SelectInSeq(order, LAMBDA x : x \in Live \ {s})

\* Mutant of OverCap: one buffer too many.
OverCapLate == BufferCap > 0 /\ Cardinality(Live) > BufferCap

OverCap == BufferCap > 0 /\ Cardinality(Live) >= BufferCap
Victims(s) == IF buffer[s] = NoBuffer /\ OverCap /\ Position(s) # 0
              THEN {order[Position(s)]} ELSE {}
OrderAfter(s) ==
  IF buffer[s] # NoBuffer \/ BufferCap = 0 THEN order
  ELSE IF Victims(s) = {} THEN Append(order, s)
       ELSE LET k == Position(s)
                own == [j \in 1..Cardinality({i \in 1..k : order[i] = s}) |-> s]
            IN SubSeq(order, k + 1, Len(order)) \o <<s>> \o own

\* writeToSectionBuffer, its critical section.
BufferWrite(t) ==
  LET s == store[t].section
      p == store[t].page
      n == store[t].slot
      kept == IF Holds(s, p) THEN buffer[s].data ELSE Blank
      new == [page |-> p, data |-> [kept EXCEPT ![n] = store[t].id]]
      moved == IF buffer[s] # NoBuffer /\ ~Holds(s, p) THEN {buffer[s]} ELSE {}
      full == n + 1 >= SlotsPerPage
  IN
  /\ store[t].pc = "write"
  /\ ~MidPage(s, p, n)
  /\ Flush({buffer[v] : v \in Victims(s)} \cup moved \cup (IF full THEN {new} ELSE {}))
  /\ order' = OrderAfter(s)
  /\ buffer' = [x \in Sections |-> IF x = s THEN (IF full THEN NoBuffer ELSE new)
                                   ELSE IF x \in Victims(s) THEN NoBuffer ELSE buffer[x]]
  /\ store' = [store EXCEPT ![t].pc = "cached"]
  /\ UNCHANGED <<pages, open, free, loc, capacity, arrays, saved, lost, overtaken>>

\* Some writer has the first slot of page p and has not written it.
FirstPending(p) == \E u \in Threads :
  store[u].pc \in {"publish", "write"} /\ SlotHeld(u) = <<p, 0>>

\* writeToSectionBuffer returns false.
Bypass(t) ==
  LET p == store[t].page IN
  /\ store[t].pc = "write"
  /\ MidPage(store[t].section, p, store[t].slot)
  /\ store' = [store EXCEPT ![t].pc = "direct"]
  /\ overtaken' = IF FirstPending(p) THEN overtaken \cup {p} ELSE overtaken
  /\ UNCHANGED <<pages, open, free, loc, capacity, arrays, saved, lost,
                 disk, buffer, order, cache, load, torn>>

\* writeRecord: only the record's own bytes.
DirectWrite(t) ==
  /\ store[t].pc = "direct"
  /\ disk' = [disk EXCEPT ![store[t].page][store[t].slot] = store[t].id]
  /\ store' = [store EXCEPT ![t].pc = "cached"]
  /\ UNCHANGED <<pages, open, free, loc, capacity, arrays, saved, lost,
                 buffer, order, cache, load, torn, overtaken>>

DirectFails(t) == store[t].pc = "direct" /\ GiveUp(t) /\ UNCHANGED io

\* updateCacheAfterWrite.  A load of the page that is under way is not found.
UpdateCache(t) ==
  /\ store[t].pc = "cached"
  /\ cache' = [k \in DOMAIN cache |->
                 IF cache[k].page # store[t].page THEN cache[k]
                 ELSE [cache[k] EXCEPT !.data[store[t].slot] = store[t].id]]
  /\ LateFor({store[t].page})
  /\ store' = [store EXCEPT ![t].pc = "assign"]
  /\ UNCHANGED <<pages, open, free, loc, capacity, arrays, saved, lost,
                 disk, buffer, order, torn, overtaken>>

-----------------------------------------------------------------------------
(* loadPageToCache.                                                        *)

\* A read of a located id whose page is not cached reads the page.
Pread(t, i) ==
  /\ t \in Readers
  /\ ~Busy(t) /\ ~Loading(t)
  /\ MaxCached > 0
  /\ loc[i] # NoLoc
  /\ ~Cached(loc[i][1])
  /\ load' = [load EXCEPT ![t] = [pc |-> "overlay", page |-> loc[i][1],
                                  data |-> disk[loc[i][1]], late |-> FALSE]]
  /\ UNCHANGED <<alloc, disk, buffer, order, cache, torn, overtaken>>

\* overlayWriteBuf.
Overlay(t) ==
  LET s == pages[load[t].page].section IN
  /\ load[t].pc = "overlay"
  /\ load' = [load EXCEPT ![t].pc = "install",
                          ![t].data = IF Holds(s, load[t].page) THEN buffer[s].data ELSE @]
  /\ UNCHANGED <<alloc, disk, buffer, order, cache, torn, overtaken>>

\* The page takes a free cache slot or that of the page cached first,
\* unless another thread was faster.
Install(t) ==
  LET page == [page |-> load[t].page, data |-> load[t].data, late |-> load[t].late] IN
  /\ load[t].pc = "install"
  /\ cache' = IF Cached(load[t].page) THEN cache
              ELSE Append(IF Len(cache) < MaxCached THEN cache ELSE Tail(cache), page)
  /\ load' = [load EXCEPT ![t] = Idle]
  /\ UNCHANGED <<alloc, disk, buffer, order, torn, overtaken>>

-----------------------------------------------------------------------------
(* Checkpoint and reopen.                                                  *)

\* Mutant of FlushWrites: the buffers are not written.
KeepWrites == UNCHANGED <<disk, cache, load, torn, buffer, order>>

\* flushWrites, which syncData calls before the metadata is saved.
FlushWrites ==
  /\ Flush({buffer[s] : s \in Live})
  /\ buffer' = [s \in Sections |-> NoBuffer]
  /\ order' = <<>>

Checkpoint(t) == ~Loading(t) /\ Save /\ FlushWrites /\ UNCHANGED overtaken

\* The buffers and the cache go with the process, the file stays.
Restart(c) ==
  /\ Reopen(c)
  /\ buffer' = [s \in Sections |-> NoBuffer]
  /\ order' = <<>>
  /\ cache' = <<>>
  /\ load' = [t \in Threads |-> Idle]
  /\ torn' = torn \cap DOMAIN saved.pages
  /\ overtaken' = overtaken \cap DOMAIN saved.pages
  /\ UNCHANGED disk

\* The steps of storeEncoded that move no bytes.
Place(t) == Store(t) /\ UNCHANGED io

Next == \/ \E t \in Threads : \/ ~Loading(t) /\ Place(t)
                              \/ BufferWrite(t) \/ Bypass(t) \/ DirectWrite(t) \/ DirectFails(t) \/ UpdateCache(t)
                              \/ \E i \in Ids : Pread(t, i)
                              \/ Overlay(t) \/ Install(t) \/ Checkpoint(t)
        \/ \E c \in Capacities : Restart(c)

Spec == Init /\ [][Next]_vars

-----------------------------------------------------------------------------
(* Properties.                                                             *)

TypeOK ==
  /\ AllocTypeOK
  /\ disk \in [1..MaxPages -> Data]
  /\ buffer \in [Sections -> Buffers \cup {NoBuffer}]
  /\ order \in Seq(Sections)
  /\ cache \in Seq(CachedPages)
  /\ \A t \in Threads : Loading(t) => /\ load[t].page \in DOMAIN pages
                                      /\ load[t].data \in Data /\ load[t].late \in BOOLEAN
  /\ torn \subseteq DOMAIN pages /\ overtaken \subseteq DOMAIN pages

\* What readVectorFromDisk returns for a located id.
Read(i) ==
  LET p == loc[i][1]
      s == pages[p].section
      k == SelectInSeq(cache, LAMBDA b : b.page = p)
      data == IF Holds(s, p) THEN buffer[s].data
              ELSE IF k # 0 THEN cache[k].data ELSE disk[p]
  IN data[loc[i][2]]

\* The pages of which bytes may be missing, for one of two reasons that nothing
\* in the code rules out: a failed flush, and the race for a fresh page.
Spoiled == torn \cup overtaken

\* A page is in the cache as a load left it that overlapped a flush of the page
\* or a write into it.
CachedLate(p) == \E k \in DOMAIN cache : cache[k].page = p /\ cache[k].late

\* From the moment an id is located, every read of it gives its own record,
\* whatever was buffered, evicted, flushed, cached or reopened since; a record
\* is lost by a failed flush of its page, by the race for the page's first
\* slots, or by a load that overlapped a write, and by nothing else.
PublishedReadable ==
  \A i \in Ids : loc[i] # NoLoc =>
    Read(i) = i \/ loc[i][1] \in Spoiled \/ CachedLate(loc[i][1])

\* What a checkpoint locates is in the file: nothing written since, through
\* a buffer or not, overwrites a checkpointed record; a failed flush and the
\* race for a fresh page harm no page but their own.
CheckpointedOnDisk ==
  \A i \in Ids : saved.loc[i] # NoLoc =>
    disk[saved.loc[i][1]][saved.loc[i][2]] = i \/ saved.loc[i][1] \in Spoiled

\* Every live buffer is queued, and no more buffers live than the cap.
BuffersWithinCap ==
  BufferCap > 0 => /\ \A s \in Live : s \in Range(order)
                   /\ Cardinality(Live) <= BufferCap

\* A page is cached once, and no more pages than the cache may hold.
CacheWithinCap ==
  /\ Len(cache) <= MaxCached
  /\ \A j, k \in DOMAIN cache : cache[j].page = cache[k].page => j = k

\* The eviction loop of writeToSectionBuffer always finds a victim, as every
\* live buffer is queued, so the cap of the buffers holds; and threads that load
\* the same page leave it cached once, in a cache no larger than allowed.
CapsHold == BuffersWithinCap /\ CacheWithinCap

-----------------------------------------------------------------------------
(* What comments say and the code does not do.                             *)

\* storeEncoded publishes a location last, so that "readers that
\* subsequently observe page_of(id) >= 0 are guaranteed to find durable
\* bytes (either in the section write buffer or on disk)".
AlwaysReadable == \A i \in Ids : loc[i] # NoLoc => Read(i) = i

\* "The checkpoint references vector slots and graph edges, so both must be on
\* disk before it is installed."
CheckpointComplete ==
  \A i \in Ids : saved.loc[i] # NoLoc => disk[saved.loc[i][1]][saved.loc[i][2]] = i
=============================================================================
