----------------------- MODULE AsterVecDBRecallProofs -----------------------
(***************************************************************************)
(* Proofs about the write path and the recovery of AsterVecDB, continued:  *)
(* while no call has failed, what the calls that returned promise is what  *)
(* a reader finds, for any number of threads, ids, calls, crashes and      *)
(* damaged checkpoints.                                                    *)
(*                                                                         *)
(* AsterVecDBProofs gives, for each prefix of the log, what it makes of    *)
(* each id (hist).  Here the payload rows come in, which survive a crash   *)
(* with whatever had been written to them.  Two facts tie them to the log: *)
(*                                                                         *)
(* - the records about an id whose effect on the rows may be missing are   *)
(*   known: that of the logged call in flight on it, or, after a crash,    *)
(*   those every checkpoint leaves to be replayed; any other row of the id *)
(*   is that of its current version (RowsKept);                            *)
(* - once those records are carried out, in whatever state an earlier try  *)
(*   left the rows, the id holds what the last record about it says        *)
(*   (FinalRow), and that is a value the calls that returned allow.  A     *)
(*   version without a payload must not be filled in from the row of an    *)
(*   earlier one by a second replay: BareRows.                             *)
(*                                                                         *)
(* An id on which a payload call overlapped another write is followed for  *)
(* its vector only (KeptVector).                                           *)
(***************************************************************************)
EXTENDS AsterVecDBProofs


-----------------------------------------------------------------------------
(* While no call has failed: what the rows and the log make of each id.    *)

\* Row i can only be one of r.
Belongs(l, i, r) == i = r \/ \E k \in 1..Len(l) : Issues(l[k]) /\ l[k].real = r /\ l[k].new = i

\* Record k ends the life of a version of its id, l[k].old.
Supersedes(l, hist, k) == ~(l[k].op = "insert") /\ hist[k-1][l[k].real].now.vec # Gone

\* The version a record issued is the current one of its id or superseded.
Linked(l, hist) ==
  \A j \in 1..Len(l) : Issues(l[j]) =>
    LET p == hist[Len(l)][l[j].real]
    IN \/ p.now.vec # Gone /\ p.now.ver = l[j].new
       \/ \E k \in (j+1)..Len(l) : l[k].real = l[j].real /\ Supersedes(l, hist, k) /\ l[k].old = l[j].new

\* The last record about an id has a payload for the version it issued.
Sourced(t, l, p) == p.last > 0 /\ \/ l[p.last].arg # Absent
                                  \/ l[p.last].op = "update" /\ l[p.last].old \in DOMAIN t
\* The row of the current version is still to be written.
Pending(t, l, p) == p.now.vec # Gone /\ p.now.ver \notin DOMAIN t /\ Sourced(t, l, p)

\* What an id will hold once that is done.
FinalRow(t, l, p) ==
  IF p.now.vec = Gone THEN {}
  ELSE IF p.now.ver \in DOMAIN t THEN t[p.now.ver]
  ELSE IF ~Sourced(t, l, p) THEN {}
  ELSE IF l[p.last].arg # Absent THEN l[p.last].arg ELSE t[l[p.last].old]
Final(t, l, p) == <<p.now.vec, FinalRow(t, l, p)>>

\* A bare version has a row only if it is current or just superseded.
BareRows(l, hist, t, r) ==
  LET k == hist[Len(l)][r].last
  IN \A j \in 1..Len(l) :
       l[j].real = r /\ Issues(l[j]) /\ hist[j][r].bare /\ l[j].new \in DOMAIN t =>
         j = k \/ (Supersedes(l, hist, k) /\ l[j].new = l[k].old)

\* The rows of r, when the records about r in E are still to be carried out.
RowsKept(l, hist, t, r, E) ==
  LET p == hist[Len(l)][r]
  IN /\ p.now.vec # Gone /\ p.now.ver \notin DOMAIN t /\ ~Sourced(t, l, p) => p.bare
     /\ BareRows(l, hist, t, r)
     /\ \A i \in DOMAIN t : Belongs(l, i, r) =>
          \/ p.now.vec # Gone /\ i = p.now.ver
          \/ \E k \in E : Supersedes(l, hist, k) /\ l[k].old = i
     /\ Pending(t, l, p) => p.last \in E

Past0(hist, r) == hist[Len(log)][r]
LastValue(hist, r) == Final(rows, log, Past0(hist, r))

\* The logged calls on r, and the payload calls.
LoggedCalls(r) == {c \in Holding : c.real = r /\ c.pc # "log"}
Lsns(C) == {c.lsn : c \in C}
IsPayload(c) == c.pc # "idle" /\ c.kind \in PayloadKinds

\* The rows under a call in flight.
RowsFit(t, c) ==
  /\ c.kind \in {"insert", "reinsert"} => c.new \notin DOMAIN t
  /\ c.kind = "update" /\ c.pc # "drop" =>
       /\ c.new \notin DOMAIN t
       /\ c.arg = Absent /\ c.pc = "row" => c.old \in DOMAIN t /\ c.read = t[c.old]
  /\ c.kind = "update" /\ c.pc = "read" => c.arg = Absent
  /\ c.kind = "update" /\ c.pc = "drop" =>
       c.new \in DOMAIN t \/ (c.arg = Absent /\ c.old \notin DOMAIN t)
  /\ c.kind = "delete" /\ c.pc = "forget" => c.old \notin DOMAIN t

\* A payload call c that nothing overlaps, on an id in state p.
PayloadFits(t, l, p, c) ==
  /\ c.new = p.now.ver
  /\ c.kind # "dropkeys" \/ c.pc = "put" => p.now.vec # Gone
  /\ c.kind # "set" /\ c.pc = "put" => c.read = FinalRow(t, l, p)
Alone(w) == \A v \in Writers : Busy(v) /\ local[v].real = local[w].real => v = w

\* An id of an open store: what it holds, once the call on it is done, is
\* what was promised.
Recalled(hist, r) ==
  /\ RowsKept(log, hist, rows, r, Lsns(LoggedCalls(r)))
  /\ LoggedCalls(r) = {} => want[r] = {LastValue(hist, r)}
  /\ \A c \in LoggedCalls(r) : Outcomes(c) = {LastValue(hist, r)} /\ RowsFit(rows, c)
  /\ \A w \in Writers : IsPayload(local[w]) /\ local[w].real = r =>
       Alone(w) /\ PayloadFits(rows, log, Past0(hist, r), local[w])

\* The records about r to be replayed whichever checkpoint is loaded.
Due(r) == {k \in 1..Len(log) : /\ log[k].real = r
                               /\ \A f \in Loadable : f.lsn < k
                               /\ phase # "down" => k >= at}

\* An id of a store that is down or recovering: what it will hold after
\* the replay is one of the values it may hold.
Recoverable(hist, r) ==
  /\ RowsKept(log, hist, rows, r, Due(r))
  /\ phase = "dropping" /\ Past0(hist, r).last = at => ~Pending(rows, log, Past0(hist, r))
  /\ LastValue(hist, r) \in want[r]

\* Whatever overlaps: its vector.
KeptVector(hist, r) ==
  /\ want[r] # {}
  /\ \/ phase = "open" /\ LoggedCalls(r) # {}
     \/ \E u \in want[r] : u[1] = Past0(hist, r).now.vec

Kept(hist, r) ==
  /\ KeptVector(hist, r)
  /\ r \notin blurred => IF phase = "open" THEN Recalled(hist, r) ELSE Recoverable(hist, r)

Remembered(hist) ==
  /\ DOMAIN want = RealIds
  /\ Linked(log, hist)
  /\ \A i \in DOMAIN rows : \E r \in RealIds : Belongs(log, i, r)
  /\ \A w \in Writers : IsPayload(local[w]) => Belongs(log, local[w].new, local[w].real)
  /\ \A r \in RealIds : Kept(hist, r)

\* What a log that tells says of its ids; the same for each lemma below.
Telling(l, hist) == l \in Seq(Record) /\ Tells(l, hist)

LEMMA TellingFacts ==
  ASSUME NEW l, NEW hist, Telling(l, hist)
  PROVE  /\ l \in Seq(Record) /\ Len(l) \in Nat /\ Tells(l, hist)
         /\ \A r \in RealIds : Fresh(hist[0][r], r)
         /\ \A k \in 1..Len(l) : Follows(hist[k-1][l[k].real].now, l[k])
         /\ \A k \in 1..Len(l) : l[k].real \in RealIds /\ l[k].op \in {"insert", "update", "delete"}
         /\ \A r \in RealIds : r \in Nat /\ ~is_update_id(r)
<1>1. l \in Seq(Record) /\ Len(l) \in Nat /\ Tells(l, hist)
  BY DEF Telling
<1>2. /\ \A r \in RealIds : Fresh(hist[0][r], r)
      /\ \A k \in 1..Len(l) : Follows(hist[k-1][l[k].real].now, l[k])
  BY DEF Telling, Tells
<1>3. ASSUME NEW k \in 1..Len(l)
      PROVE  l[k].real \in RealIds /\ l[k].op \in {"insert", "update", "delete"}
  <2>1. l[k] \in UpsertRecord \cup DeleteRecord
    BY <1>1, TellsAt
  <2> QED
    BY <2>1 DEF UpsertRecord, DeleteRecord
<1>4. \A r \in RealIds : r \in Nat /\ ~is_update_id(r)
  BY IdsAssumption DEF is_update_id
<1> QED
  BY <1>1, <1>2, <1>3, <1>4

LEMMA AfterFields ==
  ASSUME NEW rec
  PROVE  /\ After(rec).stored
         /\ rec.op = "delete" => After(rec).ver = rec.real /\ After(rec).vec = Gone
         /\ rec.op # "delete" => After(rec).ver = rec.new /\ After(rec).vec = rec.vec
<1>1. CASE rec.op = "delete"
  BY <1>1 DEF After
<1>2. CASE rec.op # "delete"
  <2> DEFINE dead == rec.new # rec.real
  <2>1. After(rec) = [ver |-> rec.new, vec |-> rec.vec, dead |-> dead, stored |-> TRUE]
    BY <1>2 DEF After
  <2> HIDE DEF dead
  <2> QED
    BY <1>2, <2>1
<1> QED
  BY <1>1, <1>2

\* The last record about an id, and what it left.
LEMMA LastRecord ==
  ASSUME NEW l, NEW hist, Telling(l, hist), NEW n \in 0..Len(l), NEW r \in RealIds,
         NEW m, m = hist[n][r].last
  PROVE  /\ m \in 0..n /\ hist[n][r] = hist[m][r] /\ hist[n][r] \in Past
         /\ m = 0 => /\ hist[n][r].now.ver = r /\ ~hist[n][r].bare
                     /\ hist[n][r].now.vec # Gone => hist[n][r].now.stored
         /\ m > 0 => l[m].real = r /\ hist[n][r].now = After(l[m]) /\ hist[n][r].now.stored
         /\ \A j \in (m+1)..n : l[j].real # r
<1>1. l \in Seq(Record) /\ Len(l) \in Nat /\ Tells(l, hist) /\ Fresh(hist[0][r], r)
  BY TellingFacts
<1>2. /\ m \in 0..n /\ hist[n][r] = hist[m][r] /\ hist[n][r] \in Past
      /\ m > 0 => l[m].real = r /\ hist[n][r].now = After(l[m])
  BY <1>1, TellsFacts
<1>3. m > 0 => hist[n][r].now.stored
  <2> SUFFICES ASSUME m > 0 PROVE hist[n][r].now.stored
    OBVIOUS
  <2> QED
    BY <1>2, AfterFields
<1>4. \A j \in (m+1)..n : l[j].real # r
  BY <1>1 DEF Tells
<1> QED
  BY <1>1, <1>2, <1>3, <1>4 DEF Fresh

LEMMA EarlierRecord ==
  ASSUME NEW l, NEW hist, Telling(l, hist), NEW n \in 0..Len(l), NEW j \in 1..n
  PROVE  hist[n][l[j].real].last \in j..n /\ hist[n][l[j].real].now.stored
<1> DEFINE r == l[j].real
           m == hist[n][r].last
<1>1. Len(l) \in Nat /\ r \in RealIds
  BY TellingFacts
<1>2. /\ m \in 0..n
      /\ m > 0 => hist[n][r].now.stored
      /\ \A i \in (m+1)..n : l[i].real # r
  BY <1>1, LastRecord
<1>3. ~(j \in (m+1)..n)
  BY <1>2
<1> HIDE DEF m, r
<1>4. m \in j..n
  BY <1>1, <1>2, <1>3
<1> QED
  BY <1>1, <1>2, <1>4 DEF m, r

\* A version is the id itself or was issued by the last record about it.
LEMMA VersionIssued ==
  ASSUME NEW l, NEW hist, Telling(l, hist), NEW n \in 0..Len(l), NEW r \in RealIds,
         NEW m, m = hist[n][r].last, NEW v, v = hist[n][r].now.ver
  PROVE  /\ v = r \/ (m \in 1..n /\ l[m].real = r /\ Issues(l[m]) /\ v = l[m].new)
         /\ hist[n][r].now.vec # Gone /\ m > 0 => l[m].real = r /\ Issues(l[m]) /\ v = l[m].new
         /\ Belongs(l, v, r)
<1>1. /\ m \in 0..n
      /\ m = 0 => v = r
      /\ m > 0 => l[m].real = r /\ hist[n][r].now = After(l[m])
  BY LastRecord
<1>2. Len(l) \in Nat /\ \A k \in 1..Len(l) : l[k].op \in {"insert", "update", "delete"}
  BY TellingFacts
<1>3. CASE m = 0
  BY <1>1, <1>3 DEF Belongs
<1>4. CASE m > 0
  <2>1. m \in 1..n /\ m \in 1..Len(l) /\ l[m].op \in {"insert", "update", "delete"}
    BY <1>1, <1>2, <1>4
  <2>2. CASE l[m].op = "delete"
    <3>1. v = r /\ hist[n][r].now.vec = Gone
      BY <1>1, <1>4, <2>2 DEF After
    <3> QED
      BY <1>4, <3>1 DEF Belongs
  <2>3. CASE l[m].op # "delete"
    <3>1. v = l[m].new /\ Issues(l[m])
      BY <1>1, <1>4, <2>1, <2>3 DEF After, Issues
    <3> QED
      BY <1>1, <1>4, <2>1, <3>1 DEF Belongs
  <2> QED
    BY <2>2, <2>3
<1> QED
  BY <1>1, <1>3, <1>4

\* A record issues the id itself or an update id no record before it issued;
\* the former only as the first about that id.
LEMMA IssuedId ==
  ASSUME NEW l, NEW hist, Telling(l, hist), NEW k \in 1..Len(l), Issues(l[k])
  PROVE  /\ l[k].new = l[k].real \/ is_update_id(l[k].new)
         /\ is_update_id(l[k].new) => \A j \in 1..(k-1) : Issues(l[j]) => l[j].new # l[k].new
         /\ hist[k-1][l[k].real].now.stored => is_update_id(l[k].new)
         /\ \A j \in 1..(k-1) : l[j].real = l[k].real => is_update_id(l[k].new)
<1>1. Follows(hist[k-1][l[k].real].now, l[k]) /\ Len(l) \in Nat /\ l[k].real \in RealIds
  BY TellingFacts
<1>2. l[k].op \in {"insert", "update"}
  BY DEF Issues
<1>3. /\ l[k].new = l[k].real \/ is_update_id(l[k].new)
      /\ hist[k-1][l[k].real].now.stored => is_update_id(l[k].new)
  <2>1. CASE l[k].op = "update"
    BY <1>1, <2>1 DEF Follows
  <2>2. CASE l[k].op = "insert" /\ l[k].new = l[k].real
    BY <1>1, <2>2 DEF Follows
  <2>3. CASE l[k].op = "insert" /\ l[k].new # l[k].real
    BY <1>1, <2>3 DEF Follows
  <2> QED
    BY <1>2, <2>1, <2>2, <2>3
<1>4. is_update_id(l[k].new) => \A j \in 1..(k-1) : Issues(l[j]) => l[j].new # l[k].new
  BY DEF Telling, Tells
<1>5. ASSUME NEW j \in 1..(k-1), l[j].real = l[k].real
      PROVE  is_update_id(l[k].new)
  <2>1. k-1 \in 0..Len(l)
    BY <1>1
  <2>2. hist[k-1][l[j].real].now.stored
    BY <2>1, EarlierRecord
  <2> QED
    BY <1>3, <1>5, <2>2
<1> QED
  BY <1>3, <1>4, <1>5

\* A record issues another id than the version before it.
LEMMA NewVersion ==
  ASSUME NEW l, NEW hist, Telling(l, hist), NEW k \in 1..Len(l), Issues(l[k]), NEW n \in 0..(k-1),
         NEW r, r = l[k].real,
         hist[n][r].now.vec # Gone \/ hist[n][r].last > 0
  PROVE  l[k].new # hist[n][r].now.ver
<1>1. Len(l) \in Nat /\ r \in RealIds /\ ~is_update_id(r) /\ n \in 0..Len(l) /\ k-1 \in 0..Len(l)
  BY TellingFacts
<1> DEFINE m == hist[n][r].last
           v == hist[n][r].now.ver
<1>2. /\ m \in 0..n
      /\ m = 0 => (hist[n][r].now.vec # Gone => hist[n][r].now.stored)
      /\ m > 0 => l[m].real = r /\ hist[n][r].now.stored
      /\ \A j \in (m+1)..n : l[j].real # r
      /\ hist[n][r] = hist[m][r]
  BY <1>1, LastRecord, SMTT(30)
<1>3. v = r \/ (m \in 1..n /\ l[m].real = r /\ Issues(l[m]) /\ v = l[m].new)
  BY <1>1, VersionIssued
<1> HIDE DEF m, v
<1>4. is_update_id(l[k].new)
  <2>1. CASE \E j \in 1..(k-1) : l[j].real = r
    BY <2>1, IssuedId
  <2>2. CASE \A j \in 1..(k-1) : l[j].real # r
    <3> DEFINE e == k-1
               u == hist[e][r].last
    <3>a. e \in 0..Len(l) /\ e = k-1
      BY <1>1
    <3>c. u = hist[e][r].last
      OBVIOUS
    <3> HIDE DEF e, u
    <3>d. r \in RealIds /\ e \in 0..Len(l)
      BY <1>1, <3>a
    <3>b. u \in 0..e /\ hist[e][r] = hist[u][r] /\ (u > 0 => l[u].real = r)
      <4>1. u \in 0..e /\ hist[e][r] = hist[u][r]
        BY <3>d, <3>c, LastRecord
      <4>2. u > 0 => l[u].real = r
        BY <3>d, <3>c, LastRecord
      <4> QED
        BY <4>1, <4>2
    <3>1. u \in 0..(k-1) /\ hist[k-1][r] = hist[u][r] /\ (u > 0 => l[u].real = r)
      BY <3>a, <3>b
    <3>2. u = 0 /\ m = 0
      BY <1>1, <1>2, <2>2, <3>1
    <3>3. hist[n][r].now.stored
      BY <1>2, <3>2 DEF m
    <3>4. hist[k-1][r].now.stored
      BY <1>2, <3>1, <3>2, <3>3, <3>c
    <3> QED
      BY <3>4, IssuedId
  <2> QED
    BY <2>1, <2>2
<1>5. CASE v = r
  BY <1>1, <1>4, <1>5 DEF v
<1>6. CASE m \in 1..n /\ Issues(l[m]) /\ v = l[m].new
  <2>1. m \in 1..(k-1)
    BY <1>1, <1>6
  <2>2. l[m].new # l[k].new
    BY <1>4, <1>6, <2>1, IssuedId
  <2> QED
    BY <1>6, <2>2 DEF v
<1> QED
  BY <1>3, <1>5, <1>6

\* What an update or a delete says of the version before it.
LEMMA OldVersion ==
  ASSUME NEW l, NEW hist, Telling(l, hist), NEW k \in 1..Len(l), l[k].op # "insert",
         NEW r, r = l[k].real
  PROVE  /\ l[k].old = hist[k-1][r].now.ver /\ Belongs(l, l[k].old, r)
         /\ l[k].op = "update" => hist[k-1][r].now.vec # Gone
         /\ l[k].op = "delete" => l[k].new = l[k].old
<1>1. /\ Follows(hist[k-1][r].now, l[k]) /\ Len(l) \in Nat /\ r \in RealIds
      /\ l[k].op \in {"insert", "update", "delete"}
  BY TellingFacts
<1>2. k-1 \in 0..Len(l)
  BY <1>1
<1>3. Belongs(l, hist[k-1][r].now.ver, r)
  BY <1>1, <1>2, VersionIssued
<1>4. CASE l[k].op = "update"
  BY <1>1, <1>3, <1>4 DEF Follows
<1>5. CASE l[k].op = "delete"
  BY <1>1, <1>3, <1>5 DEF Follows
<1> QED
  BY <1>1, <1>4, <1>5

\* An id that was replaced or deleted is not issued again.
LEMMA NotReissued ==
  ASSUME NEW l, NEW hist, Telling(l, hist), NEW k \in 1..Len(l), Issues(l[k]), NEW j \in 1..k,
         l[j].real = l[k].real, l[j].op # "insert"
  PROVE  l[k].new # l[j].old
<1> DEFINE r == l[k].real
<1>1. Len(l) \in Nat /\ r \in RealIds /\ ~is_update_id(r)
  BY TellingFacts
<1>2. j \in 1..Len(l) /\ j-1 \in 0..(k-1) /\ j-1 \in 0..Len(l)
  BY <1>1
<1>3. /\ l[j].old = hist[j-1][r].now.ver
      /\ l[j].op = "update" => hist[j-1][r].now.vec # Gone
  BY <1>2, OldVersion
<1>4. CASE hist[j-1][r].now.vec # Gone \/ hist[j-1][r].last > 0
  <2>1. l[k].new # hist[j-1][r].now.ver
    BY <1>2, <1>4, NewVersion
  <2> QED
    BY <1>3, <2>1
<1>5. CASE ~(hist[j-1][r].now.vec # Gone \/ hist[j-1][r].last > 0)
  <2>1. hist[j-1][r].last \in 0..(j-1) /\ (hist[j-1][r].last = 0 => hist[j-1][r].now.ver = r)
    <3> DEFINE e == j-1
    <3>1. e \in 0..Len(l) /\ e = j-1
      BY <1>2
    <3> HIDE DEF e
    <3> DEFINE u == hist[e][r].last
               v == hist[e][r].now.ver
    <3>2. u = hist[e][r].last /\ v = hist[e][r].now.ver
      OBVIOUS
    <3> HIDE DEF u, v
    <3>a. u \in 0..e
      BY <1>1, <3>1, <3>2, LastRecord
    <3>b. v = r \/ u \in 1..e
      BY <1>1, <3>1, <3>2, VersionIssued
    <3>3. u \in 0..e /\ (u = 0 => hist[e][r].now.ver = r)
      BY <3>a, <3>b, <3>2
    <3> QED
      BY <3>1, <3>2, <3>3
  <2>2. l[j].old = r
    BY <1>2, <1>3, <1>5, <2>1
  <2>3. j \in 1..(k-1)
    <3>1. j # k
      BY <1>3, <1>5 DEF Issues
    <3> QED
      BY <1>1, <3>1
  <2>4. is_update_id(l[k].new)
    BY <2>3, IssuedId
  <2> QED
    BY <1>1, <2>2, <2>4
<1> QED
  BY <1>4, <1>5

\* Nor is it a later version.
LEMMA NotALaterVersion ==
  ASSUME NEW l, NEW hist, Telling(l, hist), NEW n \in 0..Len(l), NEW j \in 1..n,
         l[j].op # "insert", NEW r, r = l[j].real, hist[n][r].now.vec # Gone
  PROVE  hist[n][r].now.ver # l[j].old
<1>1. Len(l) \in Nat /\ r \in RealIds
  BY TellingFacts
<1> DEFINE m == hist[n][r].last
<1>2. m \in j..n
  BY EarlierRecord
<1>3. l[m].real = r /\ Issues(l[m]) /\ hist[n][r].now.ver = l[m].new
  BY <1>1, <1>2, VersionIssued
<1> HIDE DEF m
<1>4. m \in 1..Len(l) /\ j \in 1..m
  BY <1>1, <1>2
<1> QED
  BY <1>3, <1>4, NotReissued

LEMMA SupersededOnce ==
  ASSUME NEW l, NEW hist, Telling(l, hist), NEW k \in 1..Len(l), Supersedes(l, hist, k),
         NEW j \in 1..(k-1), l[j].op # "insert", l[j].real = l[k].real
  PROVE  l[j].old # l[k].old
<1>1. Len(l) \in Nat /\ k-1 \in 0..Len(l)
  BY TellingFacts
<1>2. l[k].old = hist[k-1][l[k].real].now.ver /\ hist[k-1][l[k].real].now.vec # Gone
  BY OldVersion DEF Supersedes
<1> QED
  BY <1>1, <1>2, NotALaterVersion

LEMMA IssuedOnce ==
  ASSUME NEW l, NEW hist, Telling(l, hist), NEW k \in 1..Len(l), Issues(l[k]),
         NEW j \in 1..Len(l), Issues(l[j]), l[j].new = l[k].new, l[j].real = l[k].real
  PROVE  j = k
<1>1. Len(l) \in Nat
  BY TellingFacts
<1>2. ASSUME NEW a \in 1..Len(l), NEW b \in 1..Len(l), a < b, Issues(l[a]), Issues(l[b]),
             l[a].real = l[b].real
      PROVE  l[a].new # l[b].new
  <2>1. a \in 1..(b-1)
    BY <1>1, <1>2
  <2>2. is_update_id(l[b].new)
    BY <1>2, <2>1, IssuedId
  <2> QED
    BY <1>2, <2>1, <2>2, IssuedId
<1> QED
  BY <1>1, <1>2

\* No id belongs to two real ids.
LEMMA BelongsToOne ==
  ASSUME NEW l, NEW hist, Telling(l, hist), NEW r \in RealIds, NEW q \in RealIds, NEW i,
         Belongs(l, i, r), Belongs(l, i, q)
  PROVE  r = q
<1>1. Len(l) \in Nat /\ \A s \in RealIds : ~is_update_id(s)
  BY TellingFacts
<1>2. ASSUME NEW s \in RealIds, NEW k \in 1..Len(l), Issues(l[k]), l[k].new = s
      PROVE  l[k].real = s
  BY <1>1, <1>2, IssuedId
<1>3. ASSUME NEW j \in 1..Len(l), NEW k \in 1..Len(l), Issues(l[j]), Issues(l[k]),
             l[j].new = i, l[k].new = i, j < k
      PROVE  l[j].real = l[k].real
  <2>1. j \in 1..(k-1)
    BY <1>1, <1>3
  <2>2. ~is_update_id(l[k].new)
    BY <1>3, <2>1, IssuedId
  <2>3. l[k].new = l[k].real
    BY <1>3, <2>2, IssuedId
  <2>4. l[k].real \in RealIds
    BY TellingFacts
  <2> QED
    BY <1>2, <1>3, <2>3, <2>4
<1>4. CASE i = r \/ i = q
  BY <1>2, <1>4 DEF Belongs
<1>5. CASE i # r /\ i # q
  <2>1. PICK j \in 1..Len(l) : Issues(l[j]) /\ l[j].real = r /\ l[j].new = i
    BY <1>5 DEF Belongs
  <2>2. PICK k \in 1..Len(l) : Issues(l[k]) /\ l[k].real = q /\ l[k].new = i
    BY <1>5 DEF Belongs
  <2>3. j < k \/ k < j \/ j = k
    BY <1>1
  <2> QED
    BY <1>3, <2>1, <2>2, <2>3
<1> QED
  BY <1>4, <1>5

\* The rows of r are the same in both.
SameRow(t, y, i) == (i \in DOMAIN t <=> i \in DOMAIN y) /\ (i \in DOMAIN t => y[i] = t[i])
SameRows(t, y, l, r) == \A i : Belongs(l, i, r) => SameRow(t, y, i)

\* What an id will hold rests on two rows only.
LEMMA SameFinal ==
  ASSUME NEW l, NEW t, NEW y, NEW p,
         SameRow(t, y, p.now.ver),
         p.last > 0 /\ l[p.last].op = "update" => SameRow(t, y, l[p.last].old)
  PROVE  /\ Sourced(y, l, p) <=> Sourced(t, l, p)
         /\ Pending(y, l, p) <=> Pending(t, l, p)
         /\ FinalRow(y, l, p) = FinalRow(t, l, p)
<1>1. Sourced(y, l, p) <=> Sourced(t, l, p)
  BY DEF Sourced, SameRow
<1>2. Pending(y, l, p) <=> Pending(t, l, p)
  BY <1>1 DEF Pending, SameRow
<1>3. FinalRow(y, l, p) = FinalRow(t, l, p)
  <2>1. CASE p.now.vec = Gone
    BY <2>1 DEF FinalRow
  <2>2. CASE p.now.vec # Gone /\ p.now.ver \in DOMAIN t
    BY <2>2 DEF FinalRow, SameRow
  <2>3. CASE p.now.vec # Gone /\ p.now.ver \notin DOMAIN t /\ ~Sourced(t, l, p)
    BY <1>1, <2>3 DEF FinalRow, SameRow
  <2>4. CASE p.now.vec # Gone /\ p.now.ver \notin DOMAIN t /\ Sourced(t, l, p)
    <3>1. CASE l[p.last].arg # Absent
      BY <1>1, <2>4, <3>1 DEF FinalRow, SameRow
    <3>2. CASE l[p.last].arg = Absent
      <4>1. p.last > 0 /\ l[p.last].op = "update" /\ l[p.last].old \in DOMAIN t
        BY <2>4, <3>2 DEF Sourced
      <4>2. t[l[p.last].old] = y[l[p.last].old]
        BY <4>1 DEF SameRow
      <4> QED
        BY <1>1, <2>4, <3>2, <4>2 DEF FinalRow, SameRow
    <3> QED
      BY <3>1, <3>2
  <2> QED
    BY <2>1, <2>2, <2>3, <2>4
<1> QED
  BY <1>1, <1>2, <1>3

LEMMA RowsFrame ==
  ASSUME NEW l, NEW hist, Telling(l, hist), NEW r \in RealIds, NEW t, NEW y, NEW E,
         SameRows(t, y, l, r), NEW p, p = hist[Len(l)][r]
  PROVE  /\ Pending(y, l, p) <=> Pending(t, l, p)
         /\ FinalRow(y, l, p) = FinalRow(t, l, p)
         /\ RowsKept(l, hist, t, r, E) => RowsKept(l, hist, y, r, E)
<1> DEFINE m == p.last
           v == p.now.ver
<1>1. Len(l) \in Nat /\ Len(l) \in 0..Len(l) /\ \A k \in 1..Len(l) : l[k].op \in {"insert", "update", "delete"}
  BY TellingFacts
<1>2. m \in 0..Len(l) /\ (m > 0 => l[m].real = r)
  BY <1>1, LastRecord
<1>3. Belongs(l, v, r)
  BY <1>1, VersionIssued
<1>4. m > 0 /\ l[m].op = "update" => Belongs(l, l[m].old, r)
  BY <1>1, <1>2, OldVersion
<1>5. SameRow(t, y, v) /\ (m > 0 /\ l[m].op = "update" => SameRow(t, y, l[m].old))
  BY <1>3, <1>4 DEF SameRows
<1>6. /\ Sourced(y, l, p) <=> Sourced(t, l, p)
      /\ Pending(y, l, p) <=> Pending(t, l, p)
      /\ FinalRow(y, l, p) = FinalRow(t, l, p)
  BY <1>5, SameFinal
<1>7. ASSUME RowsKept(l, hist, t, r, E)
      PROVE  RowsKept(l, hist, y, r, E)
  <2>1. p.now.vec # Gone /\ v \notin DOMAIN y /\ ~Sourced(y, l, p) => p.bare
    BY <1>5, <1>6, <1>7 DEF RowsKept, SameRow
  <2>2. BareRows(l, hist, y, r)
    <3> SUFFICES ASSUME NEW j \in 1..Len(l), l[j].real = r, Issues(l[j]), hist[j][r].bare,
                        l[j].new \in DOMAIN y
                 PROVE  j = m \/ (Supersedes(l, hist, m) /\ l[j].new = l[m].old)
      BY DEF BareRows
    <3>1. l[j].new \in DOMAIN t
      BY DEF SameRows, SameRow, Belongs
    <3> QED
      BY <1>7, <3>1 DEF RowsKept, BareRows
  <2>3. \A i \in DOMAIN y : Belongs(l, i, r) =>
          \/ p.now.vec # Gone /\ i = v
          \/ \E k \in E : Supersedes(l, hist, k) /\ l[k].old = i
    BY <1>7 DEF RowsKept, SameRows, SameRow
  <2>4. Pending(y, l, p) => m \in E
    BY <1>6, <1>7 DEF RowsKept
  <2> QED
    BY <2>1, <2>2, <2>3, <2>4 DEF RowsKept
<1> QED
  BY <1>6, <1>7

\* Fewer records to carry out.
LEMMA RowsShrink ==
  ASSUME NEW l, NEW hist, NEW r, NEW t, NEW E, NEW D, RowsKept(l, hist, t, r, E),
         \A k \in E : k \in D \/ ~(Supersedes(l, hist, k) /\ l[k].old \in DOMAIN t),
         Pending(t, l, hist[Len(l)][r]) => hist[Len(l)][r].last \in D
  PROVE  RowsKept(l, hist, t, r, D)
<1> DEFINE p == hist[Len(l)][r]
<1>1. \A i \in DOMAIN t : Belongs(l, i, r) =>
        \/ p.now.vec # Gone /\ i = p.now.ver
        \/ \E k \in D : Supersedes(l, hist, k) /\ l[k].old = i
  BY DEF RowsKept
<1> QED
  BY <1>1 DEF RowsKept

\* The row of the current version is written.
LEMMA PutCurrent ==
  ASSUME NEW l, NEW hist, Telling(l, hist), NEW r \in RealIds, NEW t, NEW E,
         RowsKept(l, hist, t, r, E), NEW p, p = hist[Len(l)][r], p.now.vec # Gone,
         NEW v, NEW y, y = Set(t, p.now.ver, v)
  PROVE  RowsKept(l, hist, y, r, E) /\ ~Pending(y, l, p) /\ FinalRow(y, l, p) = v
<1> DEFINE m == p.last
           i == p.now.ver
<1>1. Len(l) \in Nat /\ Len(l) \in 0..Len(l)
  BY TellingFacts
<1>2. m \in 0..Len(l) /\ (m > 0 => l[m].real = r)
  BY <1>1, LastRecord
<1>3. i = r \/ Issues(l[m])
  BY <1>1, VersionIssued
<1>4. m > 0 => Issues(l[m]) /\ i = l[m].new
  BY <1>1, VersionIssued
<1>5. DOMAIN y = DOMAIN t \cup {i} /\ y[i] = v
  BY DEF Set
<1> HIDE DEF i
<1>6. ~Pending(y, l, p) /\ FinalRow(y, l, p) = v
  BY <1>5 DEF Pending, FinalRow, i
<1>7. BareRows(l, hist, y, r)
  <2> SUFFICES ASSUME NEW j \in 1..Len(l), l[j].real = r, Issues(l[j]), hist[j][r].bare,
                      l[j].new \in DOMAIN y
               PROVE  j = m \/ (Supersedes(l, hist, m) /\ l[j].new = l[m].old)
    BY DEF BareRows
  <2>1. CASE l[j].new \in DOMAIN t
    BY <2>1 DEF RowsKept, BareRows
  <2>2. CASE l[j].new = i
    <3>1. m \in j..Len(l)
      BY <1>1, EarlierRecord
    <3>2. m \in 1..Len(l) /\ l[m].real = r /\ Issues(l[m]) /\ l[m].new = i
      BY <1>1, <1>2, <1>4, <3>1
    <3> QED
      BY <2>2, <3>2, IssuedOnce
  <2> QED
    BY <1>5, <2>1, <2>2
<1>8. \A j \in DOMAIN y : Belongs(l, j, r) =>
        \/ p.now.vec # Gone /\ j = i
        \/ \E k \in E : Supersedes(l, hist, k) /\ l[k].old = j
  BY <1>5 DEF RowsKept, i
<1> QED
  BY <1>5, <1>6, <1>7, <1>8 DEF RowsKept, i

\* The row of a version that was replaced or deleted is removed.
LEMMA DropOld ==
  ASSUME NEW l, NEW hist, Telling(l, hist), NEW r \in RealIds, NEW t, NEW E,
         RowsKept(l, hist, t, r, E), NEW p, p = hist[Len(l)][r],
         NEW j \in 1..Len(l), l[j].real = r, l[j].op # "insert",
         ~(j = p.last /\ Pending(t, l, p)),
         NEW y, y = Without(t, l[j].old)
  PROVE  /\ RowsKept(l, hist, y, r, E) /\ (Pending(y, l, p) <=> Pending(t, l, p))
         /\ FinalRow(y, l, p) = FinalRow(t, l, p)
<1> DEFINE m == p.last
           v == p.now.ver
           i == l[j].old
<1>1. Len(l) \in Nat /\ Len(l) \in 0..Len(l) /\ \A k \in 1..Len(l) : l[k].op \in {"insert", "update", "delete"}
  BY TellingFacts
<1>2. m \in j..Len(l) /\ m \in 1..Len(l) /\ m > 0
  <2>1. m \in j..Len(l)
    BY <1>1, EarlierRecord
  <2> QED
    BY <1>1, <2>1
<1>3. l[m].real = r /\ (p.now.vec # Gone => Issues(l[m]))
  <2>1. l[m].real = r
    BY <1>1, <1>2, LastRecord
  <2>2. p.now.vec # Gone => Issues(l[m])
    BY <1>1, <1>2, VersionIssued
  <2> QED
    BY <2>1, <2>2
<1>4. p.now.vec # Gone => v # i
  BY <1>1, NotALaterVersion
<1>5. DOMAIN y = DOMAIN t \ {i} /\ \A k \in DOMAIN y : y[k] = t[k]
  BY DEF Without
<1>6. l[m].op = "update" /\ m # j => l[m].old # i
  <2> SUFFICES ASSUME l[m].op = "update", m # j PROVE l[m].old # i
    OBVIOUS
  <2>a. m \in 1..Len(l) /\ l[m].op # "insert" /\ l[m].real = r /\ l[m].op = "update"
    BY <1>2, <1>3
  <2> HIDE DEF m, v, i
  <2>b. hist[m-1][r].now.vec # Gone
    BY <2>a, OldVersion
  <2>1. Supersedes(l, hist, m)
    BY <2>a, <2>b DEF Supersedes
  <2> USE DEF i
  <2>2. j \in 1..(m-1)
    BY <1>1, <1>2
  <2> QED
    BY <1>2, <1>3, <2>1, <2>2, SupersededOnce
<1> HIDE DEF m, v, i
<1>7. /\ p.now.vec # Gone /\ v \notin DOMAIN y /\ ~Sourced(y, l, p) => p.bare
      /\ Pending(y, l, p) <=> Pending(t, l, p)
      /\ FinalRow(y, l, p) = FinalRow(t, l, p)
  <2>1. CASE p.now.vec = Gone
    BY <2>1 DEF Pending, FinalRow
  <2>2. CASE p.now.vec # Gone /\ m # j
    <3>1. SameRow(t, y, v) /\ (l[m].op = "update" => SameRow(t, y, l[m].old))
      BY <1>4, <1>5, <1>6, <2>2 DEF SameRow
    <3>2. /\ Sourced(y, l, p) <=> Sourced(t, l, p)
          /\ Pending(y, l, p) <=> Pending(t, l, p)
          /\ FinalRow(y, l, p) = FinalRow(t, l, p)
      BY <3>1, SameFinal DEF m, v
    <3> QED
      BY <3>1, <3>2 DEF RowsKept, SameRow, v
  <2>3. CASE p.now.vec # Gone /\ m = j /\ v \in DOMAIN t
    <3>1. v \in DOMAIN y /\ y[v] = t[v]
      BY <1>4, <1>5, <2>3
    <3> QED
      BY <2>3, <3>1 DEF Pending, FinalRow, v
  <2>4. CASE p.now.vec # Gone /\ m = j /\ v \notin DOMAIN t
    <3>1. ~Sourced(t, l, p) /\ v \notin DOMAIN y
      BY <1>5, <2>4 DEF Pending, m, v
    <3>2. ~Sourced(y, l, p)
      BY <1>5, <3>1 DEF Sourced
    <3> QED
      BY <2>4, <3>1, <3>2 DEF RowsKept, Pending, FinalRow, v
  <2> QED
    BY <2>1, <2>2, <2>3, <2>4
<1>8. BareRows(l, hist, y, r)
  BY <1>5 DEF RowsKept, BareRows
<1>9. \A k \in DOMAIN y : Belongs(l, k, r) =>
        \/ p.now.vec # Gone /\ k = p.now.ver
        \/ \E e \in E : Supersedes(l, hist, e) /\ l[e].old = k
  BY <1>5 DEF RowsKept
<1>10. Pending(y, l, p) => p.last \in E
  BY <1>7 DEF RowsKept
<1> QED
  BY <1>7, <1>8, <1>9, <1>10 DEF RowsKept, v

\* A bare version that was replaced is not filled in again: no row of the
\* version before it is left to copy.
LEMMA BareNotFilled ==
  ASSUME NEW l, NEW hist, Telling(l, hist), NEW r \in RealIds, NEW t, BareRows(l, hist, t, r),
         NEW j \in 1..Len(l), l[j].real = r, l[j].op = "update", hist[j][r].bare,
         j # hist[Len(l)][r].last
  PROVE  l[j].old \notin DOMAIN t
<1> DEFINE m == hist[Len(l)][r].last
           e == j - 1
           u == hist[e][r].last
<1>1. l \in Seq(Record) /\ Len(l) \in Nat /\ Tells(l, hist) /\ Len(l) \in 0..Len(l)
  BY TellingFacts
<1>2. m \in j..Len(l) /\ m \in 1..Len(l) /\ j \in 1..(m-1)
  <2>1. m \in j..Len(l)
    BY <1>1, EarlierRecord
  <2> QED
    BY <1>1, <2>1
<1>3. hist[e][r].bare
  <2>1. hist[j][r] = Step1(hist[e][r], l, j)
    BY <1>1, TellsAt
  <2>2. hist[j][r].bare <=> Bare(l[j], hist[e][r].bare)
    BY <2>1 DEF Step1
  <2> QED
    BY <2>2 DEF Bare
<1>4. e \in 0..Len(l) /\ e < j
  BY <1>1
<1>5. l[j].old = hist[e][r].now.ver /\ hist[e][r].now.vec # Gone
  BY OldVersion
<1> HIDE DEF m, e
<1>6. u \in 0..e /\ hist[e][r] = hist[u][r] /\ u # 0
  BY <1>3, <1>4, LastRecord
<1>7. u \in 1..Len(l) /\ u < j /\ u # m
  BY <1>1, <1>2, <1>4, <1>6
<1>8. l[u].real = r /\ Issues(l[u]) /\ l[u].new = l[j].old
  BY <1>4, <1>5, <1>7, VersionIssued
<1>9. hist[u][r].bare
  BY <1>3, <1>6
<1> HIDE DEF u
<1>10. SUFFICES ASSUME l[j].old \in DOMAIN t PROVE FALSE
  OBVIOUS
<1>11. Supersedes(l, hist, m) /\ l[u].new = l[m].old
  BY <1>7, <1>8, <1>9, <1>10 DEF BareRows, m
<1>12. l[m].real = r
  BY <1>1, <1>2, LastRecord DEF m
<1> QED
  BY <1>2, <1>8, <1>11, <1>12, SupersededOnce, ZenonT(60)

\* The row that record j fills in with v.
Fills(l, t, j, v) ==
  /\ Issues(l[j]) /\ l[j].new \notin DOMAIN t
  /\ IF l[j].arg # Absent THEN v = l[j].arg
     ELSE l[j].op = "update" /\ l[j].old \in DOMAIN t /\ v = t[l[j].old]

\* A record that is not the last fills in no row the last one takes from.
LEMMA NothingTaken ==
  ASSUME NEW l, NEW hist, Telling(l, hist), NEW r \in RealIds, NEW t, NEW E,
         RowsKept(l, hist, t, r, E), NEW p, p = hist[Len(l)][r],
         NEW j \in 1..Len(l), l[j].real = r, j # p.last, NEW v, Fills(l, t, j, v),
         p.now.vec # Gone, p.now.ver \notin DOMAIN t,
         l[p.last].op = "update", l[p.last].arg = Absent
  PROVE  l[p.last].old # l[j].new
<1> DEFINE m == p.last
           e == m - 1
           u == hist[e][r].last
<1>1. l \in Seq(Record) /\ Len(l) \in Nat /\ Tells(l, hist) /\ Len(l) \in 0..Len(l)
  BY TellingFacts
<1>2. m \in j..Len(l) /\ m \in 1..Len(l) /\ e \in 0..Len(l) /\ e < m /\ m > 0
  <2>1. m \in j..Len(l)
    BY <1>1, EarlierRecord
  <2> QED
    BY <1>1, <2>1
<1>3. l[m].real = r /\ p = hist[m][r]
  <2>1. m = hist[Len(l)][r].last
    OBVIOUS
  <2> HIDE DEF m
  <2> QED
    BY <1>1, <1>2, <2>1, LastRecord, SMTT(30)
<1>10. SUFFICES ASSUME l[m].old = l[j].new PROVE FALSE
  OBVIOUS
<1>4. ~Sourced(t, l, p)
  BY <1>10 DEF Sourced, Fills
<1>5. p.bare
  BY <1>4 DEF RowsKept
<1>6. hist[e][r].bare
  <2>1. hist[m][r] = Step1(hist[e][r], l, m)
    BY <1>1, <1>2, <1>3, TellsAt, SMTT(30)
  <2>2. hist[m][r].bare <=> Bare(l[m], hist[e][r].bare)
    BY <2>1 DEF Step1
  <2> QED
    BY <1>3, <1>5, <2>2 DEF Bare
<1>7. l[m].old = hist[e][r].now.ver /\ hist[e][r].now.vec # Gone
  <2>1. l[m].op # "insert" /\ l[m].op = "update" /\ e = m - 1
    OBVIOUS
  <2> HIDE DEF m, e
  <2>2. l[m].old = hist[m-1][r].now.ver /\ hist[m-1][r].now.vec # Gone
    BY <1>2, <1>3, <2>1, OldVersion
  <2> QED
    BY <2>1, <2>2
<1> HIDE DEF m, e
<1>8. u \in 0..e /\ hist[e][r] = hist[u][r] /\ u # 0
  BY <1>2, <1>6, LastRecord
<1>9. u \in 1..Len(l) /\ l[u].real = r /\ Issues(l[u]) /\ l[u].new = l[m].old
  <2>1. u \in 1..Len(l)
    BY <1>1, <1>2, <1>8
  <2> QED
    BY <1>2, <1>7, <1>8, <2>1, VersionIssued
<1>11. u = j
  BY <1>9, <1>10, IssuedOnce DEF Fills
<1>12. hist[j][r].bare
  BY <1>6, <1>8, <1>11
<1>13. l[j].arg = Absent
  <2>1. hist[j][r] = Step1(hist[j-1][r], l, j)
    BY <1>1, TellsAt
  <2>2. hist[j][r].bare <=> Bare(l[j], hist[j-1][r].bare)
    BY <2>1 DEF Step1
  <2> QED
    BY <1>12, <2>2 DEF Bare
<1>14. l[j].op = "update" /\ l[j].old \in DOMAIN t
  BY <1>13 DEF Fills
<1>15. BareRows(l, hist, t, r)
  BY DEF RowsKept
<1> QED
  BY <1>12, <1>14, <1>15, BareNotFilled DEF m

\* Record j fills in its row.
LEMMA FillFinal ==
  ASSUME NEW l, NEW hist, Telling(l, hist), NEW r \in RealIds, NEW t, NEW E,
         RowsKept(l, hist, t, r, E), NEW p, p = hist[Len(l)][r],
         NEW j \in 1..Len(l), l[j].real = r, NEW v, Fills(l, t, j, v),
         NEW y, y = Set(t, l[j].new, v)
  PROVE  /\ FinalRow(y, l, p) = FinalRow(t, l, p)
         /\ Pending(y, l, p) => Pending(t, l, p)
         /\ j = p.last => ~Pending(y, l, p)
<1> DEFINE m == p.last
           i == l[j].new
<1>1. Len(l) \in Nat /\ Len(l) \in 0..Len(l)
  BY TellingFacts
<1>2. m \in j..Len(l) /\ m \in 1..Len(l) /\ m > 0
  <2>1. m \in j..Len(l)
    BY <1>1, EarlierRecord
  <2> QED
    BY <1>1, <2>1
<1>3. l[m].real = r /\ (p.now.vec # Gone => Issues(l[m]) /\ p.now.ver = l[m].new)
  BY <1>1, <1>2, LastRecord, VersionIssued
<1>4. /\ DOMAIN y = DOMAIN t \cup {i} /\ y[i] = v /\ i \notin DOMAIN t
      /\ \A k \in DOMAIN t : k \in DOMAIN y /\ y[k] = t[k]
  BY DEF Set, Fills
<1>5. CASE p.now.vec = Gone
  BY <1>5 DEF FinalRow, Pending
<1>6. CASE p.now.vec # Gone /\ p.now.ver \in DOMAIN t
  BY <1>4, <1>6 DEF FinalRow, Pending
<1>7. CASE p.now.vec # Gone /\ p.now.ver \notin DOMAIN t /\ j = m
  <2>1. p.now.ver = i /\ ~Pending(y, l, p) /\ FinalRow(y, l, p) = v
    BY <1>3, <1>4, <1>7 DEF FinalRow, Pending
  <2>2. Sourced(t, l, p)
    BY <1>2, <1>7 DEF Sourced, Fills
  <2>3. FinalRow(t, l, p) = v
    BY <1>7, <2>2 DEF FinalRow, Fills
  <2> QED
    BY <2>1, <2>3
<1>8. CASE p.now.vec # Gone /\ p.now.ver \notin DOMAIN t /\ j # m
  <2>1. p.now.ver # i
    BY <1>2, <1>3, <1>8, IssuedOnce DEF Fills
  <2>2. l[m].op = "update" /\ l[m].arg = Absent => l[m].old # i
    BY <1>8, NothingTaken
  <2>3. Sourced(y, l, p) <=> Sourced(t, l, p)
    BY <1>4, <2>2 DEF Sourced
  <2>4. p.now.ver \notin DOMAIN y
    BY <1>4, <1>8, <2>1
  <2>5. FinalRow(y, l, p) = FinalRow(t, l, p)
    <3>1. CASE ~Sourced(t, l, p)
      BY <1>8, <2>3, <2>4, <3>1 DEF FinalRow
    <3>2. CASE Sourced(t, l, p) /\ l[m].arg # Absent
      BY <1>8, <2>3, <2>4, <3>2 DEF FinalRow
    <3>3. CASE Sourced(t, l, p) /\ l[m].arg = Absent
      <4>1. l[m].old \in DOMAIN t
        BY <3>3 DEF Sourced
      <4>2. y[l[m].old] = t[l[m].old]
        BY <1>4, <4>1
      <4> QED
        BY <1>8, <2>3, <2>4, <3>3, <4>2 DEF FinalRow
    <3> QED
      BY <3>1, <3>2, <3>3
  <2> QED
    BY <1>8, <2>3, <2>5 DEF Pending
<1> QED
  BY <1>5, <1>6, <1>7, <1>8

LEMMA FillKept ==
  ASSUME NEW l, NEW hist, Telling(l, hist), Linked(l, hist), NEW r \in RealIds, NEW t, NEW E,
         RowsKept(l, hist, t, r, E),
         NEW j \in 1..Len(l), l[j].real = r, NEW v, Fills(l, t, j, v),
         NEW y, y = Set(t, l[j].new, v),
         \A k \in (j+1)..Len(l) : l[k].real = r => k \in E
  PROVE  RowsKept(l, hist, y, r, E)
<1> DEFINE p == hist[Len(l)][r]
           i == l[j].new
<1>1. l \in Seq(Record) /\ Len(l) \in Nat /\ Tells(l, hist) /\ Len(l) \in 0..Len(l)
  BY TellingFacts
<1>4. /\ DOMAIN y = DOMAIN t \cup {i} /\ y[i] = v /\ i \notin DOMAIN t
      /\ \A k \in DOMAIN t : k \in DOMAIN y /\ y[k] = t[k]
  BY DEF Set, Fills
<1>5. p.now.vec # Gone /\ p.now.ver \notin DOMAIN y /\ ~Sourced(y, l, p) => p.bare
  <2>1. Sourced(t, l, p) => Sourced(y, l, p)
    BY <1>4 DEF Sourced
  <2> QED
    BY <1>4, <2>1 DEF RowsKept
<1>6. Pending(y, l, p) => p.last \in E
  <2>1. Pending(y, l, p) => Pending(t, l, p)
    BY FillFinal
  <2> QED
    BY <2>1 DEF RowsKept
<1>7. BareRows(l, hist, y, r)
  <2>a. BareRows(l, hist, t, r)
    BY DEF RowsKept
  <2> SUFFICES ASSUME NEW k \in 1..Len(l), l[k].real = r, Issues(l[k]), hist[k][r].bare,
                      l[k].new \in DOMAIN y, k # p.last
               PROVE  Supersedes(l, hist, p.last) /\ l[k].new = l[p.last].old
    BY DEF BareRows
  <2>1. CASE l[k].new \in DOMAIN t
    BY <2>a, <2>1 DEF BareRows
  <2>2. CASE l[k].new = i
    <3>1. k = j
      BY <2>2, IssuedOnce DEF Fills
    <3>2. Bare(l[j], hist[j-1][r].bare)
      <4>1. hist[j][r] = Step1(hist[j-1][r], l, j)
        BY <1>1, TellsAt
      <4>2. hist[j][r].bare <=> Bare(l[j], hist[j-1][r].bare)
        BY <4>1 DEF Step1
      <4> QED
        BY <3>1, <4>2
    <3>3. l[j].op = "update" /\ l[j].old \in DOMAIN t
      BY <3>2 DEF Bare, Fills
    <3>4. l[j].old \notin DOMAIN t
      BY <2>a, <3>1, <3>3, BareNotFilled
    <3> QED
      BY <3>3, <3>4
  <2> QED
    BY <1>4, <2>1, <2>2
<1>8. \A k \in DOMAIN y : Belongs(l, k, r) =>
        \/ p.now.vec # Gone /\ k = p.now.ver
        \/ \E e \in E : Supersedes(l, hist, e) /\ l[e].old = k
  <2>1. \/ p.now.vec # Gone /\ i = p.now.ver
        \/ \E e \in E : Supersedes(l, hist, e) /\ l[e].old = i
    BY DEF Linked, Fills
  <2> QED
    BY <1>4, <2>1 DEF RowsKept
<1> QED
  BY <1>5, <1>6, <1>7, <1>8 DEF RowsKept

-----------------------------------------------------------------------------
(* A record is logged.                                                     *)

\* m is l with rec added, and new tells of m what hist tells of l.
Added(l, hist, rec, m, new) ==
  /\ Telling(l, hist) /\ Telling(m, new)
  /\ rec \in UpsertRecord \cup DeleteRecord
  /\ m = Append(l, rec) /\ Grew(l, hist, rec, m, new)
  /\ Follows(hist[Len(l)][rec.real].now, rec) /\ IssuesAnew(l, rec)

LEMMA AddedFacts ==
  ASSUME NEW l, NEW hist, NEW rec, NEW m, NEW new, Added(l, hist, rec, m, new)
  PROVE  /\ Len(l) \in Nat /\ Len(m) = Len(l) + 1 /\ Len(m) \in 1..Len(m) /\ Len(m) \in 0..Len(m)
         /\ m[Len(m)] = rec
         /\ \A k \in 1..Len(l) : k \in 1..Len(m) /\ k # Len(m) /\ m[k] = l[k]
         /\ \A k \in 1..Len(m) : k = Len(m) \/ k \in 1..Len(l)
         /\ \A k \in 0..Len(l) : new[k] = hist[k]
         /\ rec.real \in RealIds /\ rec.op \in {"insert", "update", "delete"}
         /\ rec.op # "delete" => rec.vec # Gone
         /\ \A q \in RealIds : q # rec.real => new[Len(m)][q] = hist[Len(l)][q]
         /\ new[Len(m)][rec.real] = Step1(hist[Len(l)][rec.real], m, Len(m))
<1>1. l \in Seq(Record) /\ Len(l) \in Nat /\ m \in Seq(Record) /\ Tells(m, new)
  BY TellingFacts DEF Added
<1>2. /\ Len(m) = Len(l) + 1 /\ \A k \in 1..Len(l) : m[k] = l[k]
      /\ \A k \in 0..Len(l) : new[k] = hist[k]
  BY DEF Added, Grew
<1>3. Len(m) \in 1..Len(m) /\ Len(m) \in 0..Len(m) /\ Len(m) - 1 = Len(l) /\ Len(l) \in 0..Len(l)
  BY <1>1, <1>2
<1>4. m[Len(m)] = rec
  BY <1>1, <1>2 DEF Added
<1>5. rec.real \in RealIds /\ rec.op \in {"insert", "update", "delete"} /\ (rec.op # "delete" => rec.vec # Gone)
  BY TokensAssumption DEF Added, UpsertRecord, DeleteRecord
<1>6. /\ new[Len(m)][rec.real] = Step1(new[Len(m)-1][rec.real], m, Len(m))
      /\ \A q \in RealIds : q # rec.real => new[Len(m)][q] = new[Len(m)-1][q]
  BY <1>1, <1>3, <1>4, TellsAt
<1>7. new[Len(m)-1] = hist[Len(l)]
  BY <1>2, <1>3
<1> QED
  BY <1>1, <1>2, <1>3, <1>4, <1>5, <1>6, <1>7

\* What it says of another id.
LEMMA OtherRecord ==
  ASSUME NEW l, NEW hist, NEW rec, NEW m, NEW new, Added(l, hist, rec, m, new),
         NEW r \in RealIds, r # rec.real, NEW t, NEW p, p = hist[Len(l)][r]
  PROVE  /\ new[Len(m)][r] = p
         /\ \A i : Belongs(m, i, r) <=> Belongs(l, i, r)
         /\ Pending(t, m, p) <=> Pending(t, l, p)
         /\ FinalRow(t, m, p) = FinalRow(t, l, p)
         /\ \A E \in SUBSET (1..Len(l)) : RowsKept(l, hist, t, r, E) => RowsKept(m, new, t, r, E)
<1>1. /\ Len(l) \in Nat /\ Len(m) = Len(l) + 1 /\ m[Len(m)] = rec
      /\ \A k \in 1..Len(l) : k \in 1..Len(m) /\ m[k] = l[k]
      /\ \A k \in 1..Len(m) : k = Len(m) \/ k \in 1..Len(l)
      /\ \A k \in 0..Len(l) : new[k] = hist[k]
      /\ new[Len(m)][r] = p
  BY AddedFacts
<1>2. Telling(l, hist) /\ Telling(m, new) /\ Len(l) \in 0..Len(l)
  BY <1>1 DEF Added
<1>3. p.last \in 0..Len(l)
  BY <1>2, LastRecord
<1>4. ASSUME NEW i
      PROVE  Belongs(m, i, r) <=> Belongs(l, i, r)
  BY <1>1 DEF Belongs
<1>5. p.last > 0 => m[p.last] = l[p.last]
  BY <1>1, <1>3
<1>6. Sourced(t, m, p) <=> Sourced(t, l, p)
  BY <1>5 DEF Sourced
<1>7. Pending(t, m, p) <=> Pending(t, l, p)
  BY <1>6 DEF Pending
<1>8. FinalRow(t, m, p) = FinalRow(t, l, p)
  <2>1. CASE Sourced(t, l, p)
    <3>1. m[p.last] = l[p.last]
      BY <1>5, <2>1 DEF Sourced
    <3> QED
      BY <1>6, <2>1, <3>1 DEF FinalRow
  <2>2. CASE ~Sourced(t, l, p)
    BY <1>6, <2>2 DEF FinalRow
  <2> QED
    BY <2>1, <2>2
<1>9. ASSUME NEW k \in 1..Len(l)
      PROVE  Supersedes(m, new, k) <=> Supersedes(l, hist, k)
  <2>1. new[k-1] = hist[k-1] /\ m[k] = l[k]
    BY <1>1
  <2> QED
    BY <2>1 DEF Supersedes
<1>10. ASSUME NEW E \in SUBSET (1..Len(l)), RowsKept(l, hist, t, r, E)
       PROVE  RowsKept(m, new, t, r, E)
  <2>1. p.now.vec # Gone /\ p.now.ver \notin DOMAIN t /\ ~Sourced(t, m, p) => p.bare
    BY <1>6, <1>10 DEF RowsKept
  <2>2. BareRows(m, new, t, r)
    <3> SUFFICES ASSUME NEW j \in 1..Len(m), m[j].real = r, Issues(m[j]), new[j][r].bare,
                        m[j].new \in DOMAIN t, j # p.last
                 PROVE  Supersedes(m, new, p.last) /\ m[j].new = m[p.last].old
      BY <1>1 DEF BareRows
    <3>1. j \in 1..Len(l) /\ m[j] = l[j]
      BY <1>1
    <3>2. j \in 0..Len(l)
      BY <1>1, <3>1
    <3>3. new[j] = hist[j]
      BY <1>1, <3>2
    <3>4. Supersedes(l, hist, p.last) /\ l[j].new = l[p.last].old
      BY <1>10, <3>1, <3>3 DEF RowsKept, BareRows
    <3>5. p.last \in j..Len(l)
      BY <1>1, <1>2, <3>1, EarlierRecord
    <3>6. p.last \in 1..Len(l)
      BY <1>1, <3>1, <3>5
    <3> QED
      BY <1>1, <1>9, <3>1, <3>4, <3>6
  <2>3. \A i \in DOMAIN t : Belongs(m, i, r) =>
          \/ p.now.vec # Gone /\ i = p.now.ver
          \/ \E k \in E : Supersedes(m, new, k) /\ m[k].old = i
    <3> SUFFICES ASSUME NEW i \in DOMAIN t, Belongs(m, i, r), ~(p.now.vec # Gone /\ i = p.now.ver)
                 PROVE  \E k \in E : Supersedes(m, new, k) /\ m[k].old = i
      OBVIOUS
    <3>1. Belongs(l, i, r)
      BY <1>4
    <3>2. PICK k \in E : Supersedes(l, hist, k) /\ l[k].old = i
      BY <1>10, <3>1 DEF RowsKept
    <3>3. Supersedes(m, new, k) /\ m[k].old = i
      BY <1>1, <1>9, <3>2
    <3> QED
      BY <3>3
  <2>4. Pending(t, m, p) => p.last \in E
    BY <1>7, <1>10 DEF RowsKept
  <2> QED
    BY <1>1, <2>1, <2>2, <2>3, <2>4 DEF RowsKept
<1> QED
  BY <1>1, <1>4, <1>7, <1>8, <1>10

\* The log names no row for its new version yet.
LEMMA NewRow ==
  ASSUME NEW l, NEW hist, NEW rec, NEW m, NEW new, Added(l, hist, rec, m, new),
         NEW r, r = rec.real, Issues(rec), NEW t, RowsKept(l, hist, t, r, {}),
         \A i \in DOMAIN t : \E q \in RealIds : Belongs(l, i, q)
  PROVE  rec.new \notin DOMAIN t
<1>1. r \in RealIds /\ Telling(m, new) /\ Len(m) \in 1..Len(m) /\ m[Len(m)] = rec
  <2>1. Telling(m, new)
    BY DEF Added
  <2> QED
    BY <2>1, AddedFacts
<1>2. SUFFICES ASSUME rec.new \in DOMAIN t PROVE FALSE
  OBVIOUS
<1>3. rec.new = r \/ is_update_id(rec.new)
  BY <1>1, IssuedId
<1>4. CASE rec.new = r
  <2>1. Belongs(l, rec.new, r)
    BY <1>4 DEF Belongs
  <2>2. hist[Len(l)][r].now.vec # Gone /\ rec.new = hist[Len(l)][r].now.ver
    BY <1>2, <2>1 DEF RowsKept
  <2>3. Follows(hist[Len(l)][r].now, rec)
    BY DEF Added
  <2>4. rec.op = "insert" \/ rec.op = "update"
    BY DEF Issues
  <2>5. rec.op = "insert" => ~hist[Len(l)][r].now.stored
    BY <1>4, <2>3 DEF Follows
  <2>6. rec.op = "update" => is_update_id(rec.new)
    BY <2>3 DEF Follows
  <2>7. ~is_update_id(rec.new)
    BY <1>1, <1>4, IdsAssumption DEF is_update_id
  <2>8. hist[Len(l)][r].now.stored
    <3>1. Telling(l, hist) /\ Len(l) \in 0..Len(l)
      BY AddedFacts DEF Added
    <3>2. hist[Len(l)][r].last = 0 \/ hist[Len(l)][r].last > 0
      BY <1>1, <3>1, LastRecord
    <3> QED
      BY <1>1, <2>2, <3>1, <3>2, LastRecord
  <2> QED
    BY <2>4, <2>5, <2>6, <2>7, <2>8
<1>5. CASE is_update_id(rec.new)
  <2>1. PICK q \in RealIds : Belongs(l, rec.new, q)
    BY <1>2
  <2>2. rec.new # q
    BY <1>5, IdsAssumption DEF is_update_id
  <2>3. PICK k \in 1..Len(l) : Issues(l[k]) /\ l[k].new = rec.new
    BY <2>1, <2>2 DEF Belongs
  <2> QED
    BY <1>5, <2>3 DEF Added, IssuesAnew
<1> QED
  BY <1>3, <1>4, <1>5

\* What a record says of its own id while nothing else is to be carried out.
LEMMA OwnRecord ==
  ASSUME NEW l, NEW hist, NEW rec, NEW m, NEW new, Added(l, hist, rec, m, new),
         NEW r, r = rec.real, NEW t, RowsKept(l, hist, t, r, {}),
         \A i \in DOMAIN t : \E q \in RealIds : Belongs(l, i, q)
  PROVE  RowsKept(m, new, t, r, {Len(m)})
<1> DEFINE n == Len(m)
           p == hist[Len(l)][r]
           q == new[Len(m)][r]
<1>1. /\ Len(l) \in Nat /\ Len(m) = Len(l) + 1 /\ n \in 1..n /\ m[n] = rec
      /\ \A k \in 1..Len(l) : k \in 1..n /\ m[k] = l[k]
      /\ \A k \in 1..n : k = n \/ k \in 1..Len(l)
      /\ \A k \in 0..Len(l) : new[k] = hist[k]
      /\ r \in RealIds /\ q = Step1(p, m, n) /\ rec.op \in {"insert", "update", "delete"}
  BY AddedFacts
<1>2. Telling(l, hist) /\ Telling(m, new) /\ new[n-1] = hist[Len(l)]
  BY <1>1 DEF Added
<1>3. q.now = After(rec) /\ q.last = n /\ (q.bare <=> Bare(rec, p.bare))
  BY <1>1 DEF Step1
<1>4. ASSUME p.now.vec # Gone
      PROVE  rec.op # "insert" /\ Supersedes(m, new, n) /\ m[n].old = p.now.ver
  <2>1. Follows(p.now, rec)
    BY DEF Added
  <2>2. p.now.stored
    <3>1. Len(l) \in 0..Len(l)
      BY <1>1
    <3>2. p.last = 0 \/ p.last > 0
      BY <1>1, <1>2, <3>1, LastRecord
    <3> QED
      BY <1>1, <1>2, <1>4, <3>1, <3>2, LastRecord
  <2>3. rec.op # "insert"
    <3>1. rec.op = "insert" => rec.new = rec.real \/ rec.new # rec.real
      OBVIOUS
    <3> QED
      BY <1>4, <2>1, <2>2 DEF Follows
  <2> HIDE DEF p, n
  <2>4. m[n].old = new[n-1][r].now.ver
    BY <1>1, <1>2, <2>3, OldVersion
  <2> QED
    BY <1>1, <1>2, <1>4, <2>3, <2>4 DEF Supersedes, p
<1> HIDE DEF q, n
<1>5. q.now.vec # Gone /\ q.now.ver \notin DOMAIN t /\ ~Sourced(t, m, q) => q.bare
  <2> SUFFICES ASSUME q.now.vec # Gone, ~Sourced(t, m, q) PROVE q.bare
    OBVIOUS
  <2>1. rec.op # "delete"
    BY <1>3, AfterFields
  <2>2. rec.arg = Absent /\ (rec.op = "update" => rec.old \notin DOMAIN t)
    BY <1>1, <1>3 DEF Sourced
  <2>3. rec.op = "update" => p.bare
    <3> SUFFICES ASSUME rec.op = "update" PROVE p.bare
      OBVIOUS
    <3>1. p.now.vec # Gone /\ p.now.ver = rec.old
      BY DEF Added, Follows
    <3>2. ~Pending(t, l, p)
      BY DEF RowsKept
    <3> QED
      BY <2>2, <3>1, <3>2 DEF RowsKept, Pending
  <2> QED
    BY <1>3, <2>1, <2>2, <2>3 DEF Bare
<1>6. \A i \in DOMAIN t : Belongs(l, i, r) => p.now.vec # Gone /\ i = p.now.ver
  BY DEF RowsKept
<1>7. BareRows(m, new, t, r)
  <2> SUFFICES ASSUME NEW j \in 1..n, m[j].real = r, Issues(m[j]), m[j].new \in DOMAIN t, j # n
               PROVE  Supersedes(m, new, n) /\ m[j].new = m[n].old
    BY <1>3 DEF BareRows, q, n
  <2>1. j \in 1..Len(l) /\ m[j] = l[j]
    BY <1>1
  <2>2. Belongs(l, m[j].new, r)
    BY <2>1 DEF Belongs
  <2> QED
    BY <1>4, <1>6, <2>2
<1>8. \A i \in DOMAIN t : Belongs(m, i, r) => Supersedes(m, new, n) /\ m[n].old = i
  <2> SUFFICES ASSUME NEW i \in DOMAIN t, Belongs(m, i, r) PROVE Supersedes(m, new, n) /\ m[n].old = i
    OBVIOUS
  <2>1. ~(Issues(rec) /\ rec.new = i)
    BY NewRow
  <2>2. Belongs(l, i, r)
    <3>1. CASE i = r
      BY <3>1 DEF Belongs
    <3>2. CASE i # r
      <4>1. PICK k \in 1..n : Issues(m[k]) /\ m[k].real = r /\ m[k].new = i
        BY <3>2 DEF Belongs, n
      <4>2. k \in 1..Len(l) /\ m[k] = l[k]
        BY <1>1, <2>1, <4>1
      <4> QED
        BY <4>1, <4>2 DEF Belongs
    <3> QED
      BY <3>1, <3>2
  <2> QED
    BY <1>4, <1>6, <2>2
<1>9. Pending(t, m, q) => q.last \in {n}
  BY <1>3
<1> QED
  BY <1>5, <1>7, <1>8, <1>9 DEF RowsKept, q, n

\* What a record makes an id in state p hold.
FinalIs(rec, t, m, q, l, p) ==
  /\ rec.op = "delete" => Final(t, m, q) = <<Gone, {}>>
  /\ rec.op # "delete" /\ rec.arg # Absent => Final(t, m, q) = <<rec.vec, rec.arg>>
  /\ rec.op = "insert" /\ rec.arg = Absent => Final(t, m, q) = <<rec.vec, {}>>
  /\ rec.op = "update" /\ rec.arg = Absent => Final(t, m, q) = <<rec.vec, FinalRow(t, l, p)>>

\* What its id will hold.
LEMMA OwnFinal ==
  ASSUME NEW l, NEW hist, NEW rec, NEW m, NEW new, Added(l, hist, rec, m, new),
         NEW r, r = rec.real, NEW t, RowsKept(l, hist, t, r, {}),
         \A i \in DOMAIN t : \E q \in RealIds : Belongs(l, i, q),
         NEW q, q = new[Len(m)][r], NEW p, p = hist[Len(l)][r]
  PROVE  FinalIs(rec, t, m, q, l, p)
<1>1. /\ m[Len(m)] = rec /\ r \in RealIds /\ q = Step1(p, m, Len(m)) /\ Len(m) > 0
      /\ rec.op # "delete" => rec.vec # Gone
      /\ rec.op \in {"insert", "update", "delete"}
  BY AddedFacts
<1>3. q.now = After(rec) /\ q.last = Len(m)
  BY <1>1 DEF Step1
<1>4. CASE rec.op = "delete"
  <2>1. q.now.vec = Gone
    BY <1>3, <1>4, AfterFields
  <2> QED
    BY <1>4, <2>1 DEF Final, FinalRow, FinalIs
<1>5. CASE rec.op # "delete"
  <2>1. q.now.vec = rec.vec /\ q.now.ver = rec.new /\ rec.vec # Gone
    BY <1>1, <1>3, <1>5, AfterFields
  <2>2. q.now.ver \notin DOMAIN t
    <3>1. Issues(rec)
      BY <1>1, <1>5 DEF Issues
    <3> QED
      BY <2>1, <3>1, NewRow
  <2>3. Sourced(t, m, q) <=> rec.arg # Absent \/ (rec.op = "update" /\ rec.old \in DOMAIN t)
    BY <1>1, <1>3 DEF Sourced
  <2>4. FinalRow(t, m, q) = IF ~Sourced(t, m, q) THEN {} ELSE IF rec.arg # Absent THEN rec.arg ELSE t[rec.old]
    BY <1>1, <1>3, <2>1, <2>2 DEF FinalRow
  <2>5. CASE rec.arg # Absent
    <3>1. FinalRow(t, m, q) = rec.arg
      BY <2>3, <2>4, <2>5
    <3> QED
      BY <1>5, <2>1, <2>5, <3>1 DEF Final, FinalIs
  <2>6. CASE rec.arg = Absent /\ rec.op = "insert"
    <3>1. FinalRow(t, m, q) = {}
      BY <2>3, <2>4, <2>6
    <3> QED
      BY <1>5, <2>1, <2>6, <3>1 DEF Final, FinalIs
  <2>7. CASE rec.arg = Absent /\ rec.op = "update"
    <3>1. p.now.vec # Gone /\ p.now.ver = rec.old
      BY <2>7 DEF Added, Follows
    <3>2. ~Pending(t, l, p)
      BY DEF RowsKept
    <3>3. FinalRow(t, m, q) = FinalRow(t, l, p)
      <4>1. CASE rec.old \in DOMAIN t
        BY <2>3, <2>4, <2>7, <3>1, <4>1 DEF FinalRow
      <4>2. CASE rec.old \notin DOMAIN t
        BY <2>3, <2>4, <2>7, <3>1, <3>2, <4>2 DEF FinalRow, Pending
      <4> QED
        BY <4>1, <4>2
    <3> QED
      BY <1>5, <2>1, <2>7, <3>3 DEF Final, FinalIs
  <2> QED
    BY <1>1, <1>5, <2>5, <2>6, <2>7
<1> QED
  BY <1>4, <1>5 DEF FinalIs

LEMMA LinkedGrows ==
  ASSUME NEW l, NEW hist, NEW rec, NEW m, NEW new, Added(l, hist, rec, m, new), Linked(l, hist)
  PROVE  /\ Linked(m, new)
         /\ \A i, q : Belongs(l, i, q) => Belongs(m, i, q)
<1> DEFINE n == Len(m)
<1>1. /\ Len(l) \in Nat /\ n = Len(l) + 1 /\ n \in 1..n /\ m[n] = rec
      /\ \A k \in 1..Len(l) : k \in 1..n /\ m[k] = l[k]
      /\ \A k \in 1..n : k = n \/ k \in 1..Len(l)
      /\ \A k \in 0..Len(l) : new[k] = hist[k]
      /\ rec.real \in RealIds
      /\ rec.op # "delete" => rec.vec # Gone
      /\ \A q \in RealIds : q # rec.real => new[n][q] = hist[Len(l)][q]
      /\ new[n][rec.real] = Step1(hist[Len(l)][rec.real], m, n)
  BY AddedFacts
<1>2. Telling(l, hist) /\ Telling(m, new) /\ new[n-1] = hist[Len(l)]
  BY <1>1 DEF Added
<1>3. \A i, q : Belongs(l, i, q) => Belongs(m, i, q)
  BY <1>1 DEF Belongs
<1>4. ASSUME NEW j \in 1..Len(l), Issues(m[j])
      PROVE  \/ new[n][m[j].real].now.vec # Gone /\ new[n][m[j].real].now.ver = m[j].new
             \/ \E k \in (j+1)..n : m[k].real = m[j].real /\ Supersedes(m, new, k) /\ m[k].old = m[j].new
  <2> DEFINE r == m[j].real
             p == hist[Len(l)][r]
  <2>1. m[j] = l[j] /\ r \in RealIds
    BY <1>1, <1>2, TellingFacts
  <2>2. CASE \E k \in (j+1)..Len(l) : l[k].real = r /\ Supersedes(l, hist, k) /\ l[k].old = l[j].new
    <3>1. PICK k \in (j+1)..Len(l) : l[k].real = r /\ Supersedes(l, hist, k) /\ l[k].old = l[j].new
      BY <2>2
    <3>2. k \in 1..Len(l) /\ k \in (j+1)..n /\ k - 1 \in 0..Len(l)
      BY <1>1
    <3>3. m[k] = l[k] /\ new[k-1] = hist[k-1]
      BY <1>1, <3>2
    <3>4. Supersedes(m, new, k) /\ m[k].real = r /\ m[k].old = m[j].new
      BY <2>1, <3>1, <3>3 DEF Supersedes
    <3> QED
      BY <3>2, <3>4
  <2>3. CASE p.now.vec # Gone /\ p.now.ver = l[j].new
    <3>1. CASE r # rec.real
      BY <1>1, <2>1, <2>3, <3>1
    <3>2. CASE r = rec.real
      <4>1. Follows(p.now, rec)
        BY <3>2 DEF Added
      <4>2. p.now.stored
        <5>1. Len(l) \in 0..Len(l) /\ j \in 1..Len(l)
          BY <1>1
        <5> QED
          BY <1>2, <2>1, <5>1, EarlierRecord
      <4>3. rec.op # "insert"
        <5>1. rec.new = rec.real \/ rec.new # rec.real
          OBVIOUS
        <5> QED
          BY <2>3, <4>1, <4>2, <5>1 DEF Follows
      <4>4. m[n].old = new[n-1][r].now.ver
        BY <1>1, <1>2, <3>2, <4>3, OldVersion
      <4>5. Supersedes(m, new, n) /\ m[n].real = r /\ m[n].old = m[j].new
        BY <1>1, <1>2, <2>1, <2>3, <3>2, <4>3, <4>4 DEF Supersedes
      <4>6. n \in (j+1)..n
        BY <1>1
      <4> QED
        BY <4>5, <4>6
    <3> QED
      BY <3>1, <3>2
  <2> QED
    BY <1>4, <2>1, <2>2, <2>3 DEF Linked
<1>5. ASSUME Issues(m[n])
      PROVE  new[n][m[n].real].now.vec # Gone /\ new[n][m[n].real].now.ver = m[n].new
  <2>1. rec.op # "delete" /\ new[n][rec.real].now = After(rec)
    BY <1>1, <1>5 DEF Issues, Step1
  <2> QED
    BY <1>1, <2>1, AfterFields
<1> HIDE DEF n
<1>6. Linked(m, new)
  <2> SUFFICES ASSUME NEW j \in 1..n, Issues(m[j])
               PROVE  \/ new[n][m[j].real].now.vec # Gone /\ new[n][m[j].real].now.ver = m[j].new
                      \/ \E k \in (j+1)..n : m[k].real = m[j].real /\ Supersedes(m, new, k) /\ m[k].old = m[j].new
    BY DEF Linked, n
  <2> QED
    BY <1>1, <1>4, <1>5
<1> QED
  BY <1>3, <1>6

-----------------------------------------------------------------------------
(* A step of an open store: the calls and the rows of the other ids.       *)

Opened(hist) == Logging(hist) /\ Remembered(hist)

LEMMA OpenedFacts ==
  ASSUME NEW hist, Opened(hist)
  PROVE  /\ Telling(log, hist) /\ Len(log) \in Nat /\ Len(log) \in 0..Len(log) /\ Types /\ OneHolder
         /\ Logging(hist) /\ Working /\ enable_oplog /\ phase = "open"
         /\ Linked(log, hist) /\ DOMAIN want = RealIds
         /\ \A i \in DOMAIN rows : \E r \in RealIds : Belongs(log, i, r)
         /\ \A w \in Writers : IsPayload(local[w]) => Belongs(log, local[w].new, local[w].real)
         /\ \A r \in RealIds : KeptVector(hist, r) /\ (r \notin blurred => Recalled(hist, r))
<1>1. Logging(hist) /\ Remembered(hist) /\ Working /\ enable_oplog
  BY DEF Opened, Logging
<1>2. Telling(log, hist) /\ Len(log) \in Nat /\ Types /\ OneHolder /\ phase = "open"
  BY <1>1, LoggingFacts DEF Telling
<1> QED
  BY <1>1, <1>2 DEF Remembered, Kept

\* What a call makes of what was promised.
OutcomesIn(c, S) ==
  CASE c.kind = "delete" -> {<<Gone, {}>>}
    [] c.kind \in {"insert", "reinsert", "update"} ->
         {<<c.vec, p>> : p \in IF c.arg # Absent THEN {c.arg}
                               ELSE IF c.kind = "update" THEN {u[2] : u \in S}
                               ELSE {{}}}
    [] OTHER -> {IF u[1] = Gone THEN u ELSE <<u[1], Patched(c, u[2])>> : u \in S}

LEMMA OutcomesAre ==
  ASSUME NEW c
  PROVE  Outcomes(c) = OutcomesIn(c, want[c.real]) /\ Outcomes(c)' = OutcomesIn(c, want'[c.real])
<1>1. Outcomes(c) = OutcomesIn(c, want[c.real])
  BY Zenon DEF Outcomes, OutcomesIn
<1>2. Outcomes(c)' = OutcomesIn(c, want'[c.real])
  BY Zenon DEF Outcomes, OutcomesIn
<1> QED
  BY <1>1, <1>2

LEMMA VectorOutcomes ==
  ASSUME NEW c \in VectorCall, NEW S, S # {}
  PROVE  OutcomesIn(c, S) # {} /\ \A u \in OutcomesIn(c, S) : u[1] = c.vec
<1>1. CASE c.kind = "delete"
  <2>1. c.vec = Gone
    BY <1>1 DEF VectorCall, InsertCall, VersionCall, DeleteCall
  <2>2. OutcomesIn(c, S) = {<<Gone, {}>>}
    BY <1>1 DEF OutcomesIn
  <2>3. <<Gone, {}>>[1] = Gone
    OBVIOUS
  <2> QED
    BY <2>1, <2>2, <2>3
<1>2. CASE c.kind # "delete"
  <2> DEFINE P == IF c.arg # Absent THEN {c.arg} ELSE IF c.kind = "update" THEN {u[2] : u \in S} ELSE {{}}
  <2>1. c.kind \in {"insert", "reinsert", "update"}
    BY <1>2 DEF VectorCall, InsertCall, VersionCall, DeleteCall
  <2>2. P # {}
    OBVIOUS
  <2>3. OutcomesIn(c, S) = {<<c.vec, p>> : p \in P}
    BY <1>2, <2>1 DEF OutcomesIn
  <2> HIDE DEF P
  <2>4. OutcomesIn(c, S) # {}
    <3>1. PICK p : p \in P
      BY <2>2
    <3>2. <<c.vec, p>> \in OutcomesIn(c, S)
      BY <2>3, <3>1
    <3> QED
      BY <3>2
  <2>5. ASSUME NEW u \in OutcomesIn(c, S)
        PROVE  u[1] = c.vec
    <3>1. PICK p \in P : u = <<c.vec, p>>
      BY <2>3
    <3> QED
      BY <3>1
  <2> QED
    BY <2>4, <2>5
<1> QED
  BY <1>1, <1>2

\* The rows a logged call is about.
LEMMA CallRows ==
  ASSUME NEW hist, Opened(hist), NEW r \in RealIds, NEW c \in LoggedCalls(r)
  PROVE  /\ c \in Holding /\ c \in VectorCall /\ c.real = r /\ c.pc # "log"
         /\ c.lsn \in 1..Len(log) /\ log[c.lsn] = RecordOf(c) /\ log[c.lsn].real = r
         /\ Past0(hist, r).last = c.lsn /\ Past0(hist, r).now = After(RecordOf(c))
         /\ Past0(hist, r).now.vec = c.vec
         /\ c.kind # "delete" => Belongs(log, c.new, r) /\ Issues(log[c.lsn])
         /\ c.kind \in {"update", "delete"} => Belongs(log, c.old, r)
<1>1. Telling(log, hist) /\ Logging(hist)
  BY OpenedFacts
<1>2. c \in Holding /\ c.real = r /\ c.pc # "log"
  BY DEF LoggedCalls
<1>3. c \in VectorCall
  BY <1>1, <1>2, LoggingFacts
<1>4. /\ c.lsn \in 1..Len(log) /\ log[c.lsn] = RecordOf(c)
      /\ Past0(hist, r).last = c.lsn /\ Past0(hist, r).now = After(RecordOf(c))
  BY <1>1, <1>2, LoggedCall DEF Past0
<1>5. /\ RecordOf(c).real = r /\ RecordOf(c).new = c.new /\ RecordOf(c).old = c.old /\ RecordOf(c).vec = c.vec
      /\ RecordOf(c).op = (IF c.kind = "reinsert" THEN "insert" ELSE c.kind)
  BY <1>2 DEF RecordOf
<1>6. c.kind \in VectorKinds /\ (c.kind = "delete" => c.vec = Gone)
  BY <1>3 DEF VectorCall, InsertCall, VersionCall, DeleteCall, VectorKinds
<1>7. Past0(hist, r).now.vec = c.vec
  BY <1>4, <1>5, <1>6, AfterFields DEF VectorKinds
<1>8. c.kind # "delete" => Belongs(log, c.new, r) /\ Issues(log[c.lsn])
  BY <1>4, <1>5, <1>6 DEF Belongs, Issues, VectorKinds
<1>9. c.kind \in {"update", "delete"} => Belongs(log, c.old, r)
  <2> SUFFICES ASSUME c.kind \in {"update", "delete"} PROVE Belongs(log, c.old, r)
    OBVIOUS
  <2>1. log[c.lsn].op # "insert" /\ log[c.lsn].real = r /\ log[c.lsn].old = c.old
    BY <1>4, <1>5
  <2> QED
    BY <1>1, <1>4, <2>1, OldVersion
<1> QED
  BY <1>2, <1>3, <1>4, <1>5, <1>7, <1>8, <1>9

\* Thread w steps on, about r only, to d.
Around(w, d, r) ==
  /\ w \in Writers /\ r \in RealIds /\ phase' = "open"
  /\ local' = [local EXCEPT ![w] = d]
  /\ d.pc # "idle" => d.real = r
  /\ Busy(w) => local[w].real = r
  /\ DOMAIN want' = RealIds /\ \A q \in RealIds : q # r => want'[q] = want[q]
  /\ \A q \in RealIds : q # r => (q \in blurred' <=> q \in blurred)
  /\ \A i : SameRow(rows, rows', i) \/ Belongs(log, i, r)

\* The log stays as it is, or a record about r is added.
LogsFor(hist, new, r) ==
  \/ log' = log /\ new = hist
  \/ \E rec : rec.real = r /\ Added(log, hist, rec, log', new)

LEMMA OthersCalls ==
  ASSUME Types, NEW w, NEW d, NEW r, Around(w, d, r), NEW q \in RealIds, q # r
  PROVE  /\ LoggedCalls(q)' = LoggedCalls(q)
         /\ \A u \in Writers : local'[u].pc # "idle" /\ local'[u].real = q =>
              local'[u] = local[u] /\ (Alone(u) => Alone(u)')
<1>1. /\ local' = [local EXCEPT ![w] = d] /\ (d.pc # "idle" => d.real = r)
      /\ local[w].pc # "idle" => local[w].real = r
      /\ w \in Writers
  BY DEF Around, Busy
<1>2. local \in [Writers -> Call] /\ local'[w] = d /\ \A u \in Writers : u # w => local'[u] = local[u]
  BY <1>1 DEF Types
<1>3. \A u \in Writers : local'[u].pc # "idle" /\ local'[u].real = q <=> local[u].pc # "idle" /\ local[u].real = q
  BY <1>1, <1>2
<1>4. \A u \in Writers : local[u].pc # "idle" /\ local[u].real = q => local'[u] = local[u]
  BY <1>1, <1>2
<1>5. \A c : c \in LoggedCalls(q) <=>
        \E u \in Writers : local[u].pc # "idle" /\ local[u].real = q /\ local[u].kind \in VectorKinds
                             /\ local[u].pc # "log" /\ c = local[u]
  BY DEF LoggedCalls, Holding, Busy
<1>6. \A c : c \in LoggedCalls(q)' <=>
        \E u \in Writers : local'[u].pc # "idle" /\ local'[u].real = q /\ local'[u].kind \in VectorKinds
                             /\ local'[u].pc # "log" /\ c = local'[u]
  BY DEF LoggedCalls, Holding, Busy
<1>7. LoggedCalls(q)' = LoggedCalls(q)
  BY <1>3, <1>4, <1>5, <1>6
<1>8. ASSUME NEW u \in Writers, local'[u].pc # "idle", local'[u].real = q
      PROVE  local'[u] = local[u] /\ (Alone(u) => Alone(u)')
  BY <1>3, <1>4, <1>8 DEF Alone, Busy
<1> QED
  BY <1>7, <1>8

\* A step about r takes nothing from q.
LEMMA OthersKept ==
  ASSUME NEW hist, NEW new, Opened(hist), NEW w, NEW d, NEW r, Around(w, d, r),
         LogsFor(hist, new, r), NEW q \in RealIds, q # r
  PROVE  Kept(new, q)'
<1> DEFINE p == hist[Len(log)][q]
           C == LoggedCalls(q)
           E == Lsns(C)
<1>1. /\ Telling(log, hist) /\ Len(log) \in Nat /\ Types /\ phase = "open"
      /\ KeptVector(hist, q) /\ (q \notin blurred => Recalled(hist, q))
      /\ \A u \in Writers : IsPayload(local[u]) => Belongs(log, local[u].new, local[u].real)
  BY OpenedFacts
<1>2. /\ phase' = "open" /\ want'[q] = want[q] /\ (q \in blurred' <=> q \in blurred) /\ r \in RealIds
      /\ \A i : SameRow(rows, rows', i) \/ Belongs(log, i, r)
  BY DEF Around
<1>3. SameRows(rows, rows', log, q)
  BY <1>1, <1>2, BelongsToOne DEF SameRows
<1>4. /\ LoggedCalls(q)' = C
      /\ \A u \in Writers : local'[u].pc # "idle" /\ local'[u].real = q =>
           local'[u] = local[u] /\ (Alone(u) => Alone(u)')
  BY <1>1, OthersCalls
<1>5. E \in SUBSET (1..Len(log))
  BY CallRows DEF Lsns
<1>6. /\ FinalRow(rows', log, p) = FinalRow(rows, log, p)
      /\ RowsKept(log, hist, rows, q, E) => RowsKept(log, hist, rows', q, E)
  BY <1>1, <1>3, RowsFrame
<1>7. /\ new[Len(log')][q] = p
      /\ FinalRow(rows', log', p) = FinalRow(rows', log, p)
      /\ RowsKept(log, hist, rows', q, E) => RowsKept(log', new, rows', q, E)
  <2>1. CASE log' = log /\ new = hist
    BY <2>1
  <2>2. ASSUME NEW rec, rec.real = r, Added(log, hist, rec, log', new)
        PROVE  /\ new[Len(log')][q] = p
               /\ FinalRow(rows', log', p) = FinalRow(rows', log, p)
               /\ RowsKept(log, hist, rows', q, E) => RowsKept(log', new, rows', q, E)
    <3> HIDE DEF E
    <3>1. PICK m, t, D : m = log' /\ t = rows' /\ D = E
      OBVIOUS
    <3>2. Added(log, hist, rec, m, new) /\ q # rec.real
      BY <2>2, <3>1
    <3>3. /\ new[Len(m)][q] = p
          /\ FinalRow(t, m, p) = FinalRow(t, log, p)
      BY <3>2, OtherRecord
    <3>4. RowsKept(log, hist, t, q, D) => RowsKept(m, new, t, q, D)
      BY <1>5, <3>1, <3>2, OtherRecord
    <3> QED
      BY <3>1, <3>3, <3>4
  <2> QED
    BY <2>1, <2>2 DEF LogsFor
<1>8. Past0(new, q)' = p /\ Past0(hist, q) = p /\ LastValue(new, q)' = LastValue(hist, q)
  BY <1>6, <1>7 DEF Past0, LastValue, Final
<1>9. KeptVector(new, q)'
  <2> HIDE DEF p, C
  <2> QED
    BY <1>1, <1>2, <1>4, <1>8 DEF KeptVector, C
<1>10. ASSUME Recalled(hist, q)
       PROVE  Recalled(new, q)'
  <2> HIDE DEF p, C
  <2>1. RowsKept(log', new, rows', q, Lsns(C))
    BY <1>6, <1>7, <1>10 DEF Recalled, C
  <2>2. C = {} => want'[q] = {LastValue(new, q)'}
    BY <1>2, <1>8, <1>10 DEF Recalled, C
  <2>3. ASSUME NEW c \in C
        PROVE  Outcomes(c)' = {LastValue(new, q)'} /\ RowsFit(rows', c)
    <3>1. /\ c.real = q /\ c \in VectorCall
          /\ c.kind # "delete" => Belongs(log, c.new, q)
          /\ c.kind \in {"update", "delete"} => Belongs(log, c.old, q)
      BY CallRows DEF C
    <3>2. Outcomes(c) = {LastValue(hist, q)} /\ RowsFit(rows, c)
      BY <1>10 DEF Recalled, C
    <3>3. Outcomes(c)' = Outcomes(c)
      BY <1>2, <3>1, OutcomesAre
    <3>4. c.kind # "delete" => SameRow(rows, rows', c.new)
      BY <1>3, <3>1 DEF SameRows
    <3>5. c.kind \in {"update", "delete"} => SameRow(rows, rows', c.old)
      BY <1>3, <3>1 DEF SameRows
    <3>6. RowsFit(rows', c)
      BY <3>2, <3>4, <3>5 DEF RowsFit, SameRow
    <3> QED
      BY <1>8, <3>2, <3>3, <3>6
  <2>4. ASSUME NEW u \in Writers, IsPayload(local'[u]), local'[u].real = q
        PROVE  Alone(u)' /\ PayloadFits(rows', log', p, local'[u])
    <3>1. local'[u] = local[u] /\ (Alone(u) => Alone(u)')
      BY <1>4, <2>4 DEF IsPayload
    <3>2. Alone(u) /\ PayloadFits(rows, log, p, local[u])
      BY <1>8, <1>10, <2>4, <3>1 DEF Recalled
    <3>3. FinalRow(rows', log', p) = FinalRow(rows, log, p)
      BY <1>6, <1>7
    <3> QED
      BY <3>1, <3>2, <3>3 DEF PayloadFits
  <2> QED
    BY <1>4, <1>8, <2>1, <2>2, <2>3, <2>4 DEF Recalled
<1> QED
  BY <1>1, <1>2, <1>9, <1>10 DEF Kept

\* What a step about r has to show.
LEMMA StepRemembers ==
  ASSUME NEW hist, NEW new, Opened(hist), NEW w, NEW d, NEW r, Around(w, d, r),
         LogsFor(hist, new, r), IsPayload(d) => Belongs(log, d.new, r), Kept(new, r)'
  PROVE  Remembered(new)'
<1>1. /\ Linked(log, hist) /\ Types
      /\ \A i \in DOMAIN rows : \E q \in RealIds : Belongs(log, i, q)
      /\ \A u \in Writers : IsPayload(local[u]) => Belongs(log, local[u].new, local[u].real)
  BY OpenedFacts
<1>2. /\ DOMAIN want' = RealIds /\ r \in RealIds /\ w \in Writers
      /\ local' = [local EXCEPT ![w] = d] /\ (d.pc # "idle" => d.real = r)
      /\ \A i : SameRow(rows, rows', i) \/ Belongs(log, i, r)
  BY DEF Around
<1>3. Linked(log', new) /\ \A i, q : Belongs(log, i, q) => Belongs(log', i, q)
  <2>1. CASE log' = log /\ new = hist
    BY <1>1, <2>1
  <2>2. ASSUME NEW rec, Added(log, hist, rec, log', new)
        PROVE  Linked(log', new) /\ \A i, q : Belongs(log, i, q) => Belongs(log', i, q)
    <3>1. PICK m : m = log'
      OBVIOUS
    <3>2. Added(log, hist, rec, m, new)
      BY <2>2, <3>1
    <3>3. Linked(m, new) /\ \A i, q : Belongs(log, i, q) => Belongs(m, i, q)
      BY <1>1, <3>2, LinkedGrows
    <3> QED
      BY <3>1, <3>3
  <2> QED
    BY <2>1, <2>2 DEF LogsFor
<1>4. ASSUME NEW i \in DOMAIN rows'
      PROVE  \E q \in RealIds : Belongs(log', i, q)
  <2>1. CASE SameRow(rows, rows', i)
    <3>1. PICK q \in RealIds : Belongs(log, i, q)
      BY <1>1, <1>4, <2>1 DEF SameRow
    <3> QED
      BY <1>3, <3>1
  <2>2. CASE Belongs(log, i, r)
    BY <1>2, <1>3, <2>2
  <2> QED
    BY <1>2, <2>1, <2>2
<1>5. ASSUME NEW u \in Writers, IsPayload(local'[u])
      PROVE  Belongs(log', local'[u].new, local'[u].real)
  <2>1. local'[w] = d /\ (u # w => local'[u] = local[u])
    BY <1>1, <1>2 DEF Types
  <2>2. CASE u = w
    BY <1>2, <1>3, <1>5, <2>1, <2>2 DEF IsPayload
  <2>3. CASE u # w
    BY <1>1, <1>3, <1>5, <2>1, <2>3
  <2> QED
    BY <2>2, <2>3
<1>6. ASSUME NEW q \in RealIds
      PROVE  Kept(new, q)'
  BY OthersKept
<1> QED
  BY <1>2, <1>3, <1>4, <1>5, <1>6 DEF Remembered

-----------------------------------------------------------------------------
(* The vector call on an id goes on.                                       *)

LEMMA OwnCalls ==
  ASSUME Types, OneHolder, NEW w \in Writers, NEW r, NEW d, local' = [local EXCEPT ![w] = d],
         IsVector(local[w]), local[w].real = r,
         d.pc = "idle" \/ (IsVector(d) /\ d.real = r)
  PROVE  /\ LoggedCalls(r) = IF local[w].pc = "log" THEN {} ELSE {local[w]}
         /\ LoggedCalls(r)' = IF d.pc \in {"idle", "log"} THEN {} ELSE {d}
<1>1. local \in [Writers -> Call] /\ local'[w] = d /\ \A u \in Writers : u # w => local'[u] = local[u]
  BY DEF Types
<1>2. \A u \in Writers : IsVector(local[u]) /\ local[u].real = r => u = w
  BY DEF OneHolder, IsVector, Busy
<1>3. \A c : c \in LoggedCalls(r) <=> \E u \in Writers : IsVector(local[u]) /\ local[u].real = r
                                                         /\ local[u].pc # "log" /\ c = local[u]
  BY DEF LoggedCalls, Holding, Busy, IsVector
<1>4. \A c : c \in LoggedCalls(r)' <=> \E u \in Writers : IsVector(local'[u]) /\ local'[u].real = r
                                                         /\ local'[u].pc # "log" /\ c = local'[u]
  BY DEF LoggedCalls, Holding, Busy, IsVector
<1>5. \A c : c \in LoggedCalls(r) <=> local[w].pc # "log" /\ c = local[w]
  BY <1>2, <1>3
<1>6. \A c : c \in LoggedCalls(r)' <=> d.pc \notin {"idle", "log"} /\ c = d
  <2>1. \A u \in Writers : IsVector(local'[u]) /\ local'[u].real = r => u = w
    BY <1>1, <1>2
  <2>2. IsVector(d) => d.pc # "idle"
    BY DEF IsVector
  <2> QED
    BY <1>1, <1>4, <2>1, <2>2
<1>7. LoggedCalls(r) = IF local[w].pc = "log" THEN {} ELSE {local[w]}
  BY <1>5
<1>8. LoggedCalls(r)' = IF d.pc \in {"idle", "log"} THEN {} ELSE {d}
  BY <1>6
<1> QED
  BY <1>7, <1>8

NoPayloads(r) == \A u \in Writers : ~(IsPayload(local[u]) /\ local[u].real = r)

\* The call of w on r, and what Recalled says while it is in flight.
Moving(hist, w, c, d, r, p) ==
  /\ c = local[w] /\ p = Past0(hist, r)
  /\ Opened(hist) /\ Around(w, d, r)
  /\ IsVector(local[w]) /\ local[w].pc # "log"
  /\ d.pc = "idle" \/ (d \in VectorCall /\ d.pc # "log")
  /\ log' = log /\ blurred' = blurred

LEMMA MovingFacts ==
  ASSUME NEW hist, NEW w, NEW c, NEW d, NEW r, NEW p, Moving(hist, w, c, d, r, p)
  PROVE  /\ w \in Writers /\ r \in RealIds /\ c.real = r /\ c \in LoggedCalls(r)
         /\ p = Past0(hist, r) /\ Past0(hist, r)' = p /\ p = hist[Len(log)][r]
         /\ Telling(log, hist) /\ Linked(log, hist)
         /\ d.pc = "idle" => LoggedCalls(r)' = {}
         /\ d.pc # "idle" => d.real = r /\ LoggedCalls(r)' = {d}
<1>1. /\ Opened(hist) /\ Around(w, d, r) /\ IsVector(c) /\ c.pc # "log" /\ c = local[w] /\ p = Past0(hist, r)
      /\ d.pc = "idle" \/ (d \in VectorCall /\ d.pc # "log")
      /\ log' = log
  BY DEF Moving
<1>2. /\ w \in Writers /\ r \in RealIds /\ local' = [local EXCEPT ![w] = d]
      /\ d.pc # "idle" => d.real = r
      /\ c.real = r
  BY <1>1 DEF Around, IsVector, Busy
<1>3. Types /\ OneHolder /\ Telling(log, hist) /\ Linked(log, hist)
  BY <1>1, OpenedFacts
<1>4. d.pc = "idle" \/ (IsVector(d) /\ d.real = r)
  BY <1>1, <1>2, VectorCallFacts DEF IsVector
<1>5. LoggedCalls(r) = {c} /\ LoggedCalls(r)' = IF d.pc = "idle" THEN {} ELSE {d}
  BY <1>1, <1>2, <1>3, <1>4, OwnCalls
<1>6. Past0(hist, r)' = p /\ p = hist[Len(log)][r]
  BY <1>1 DEF Past0
<1> QED
  BY <1>1, <1>2, <1>3, <1>5, <1>6

LEMMA MovingRecalled ==
  ASSUME NEW hist, NEW w, NEW c, NEW d, NEW r, NEW p, Moving(hist, w, c, d, r, p), r \notin blurred
  PROVE  /\ RowsKept(log, hist, rows, r, {c.lsn})
         /\ Outcomes(c) = {<<p.now.vec, FinalRow(rows, log, p)>>} /\ RowsFit(rows, c)
         /\ NoPayloads(r)'
<1>1. /\ Opened(hist) /\ Around(w, d, r) /\ IsVector(c) /\ c.pc # "log" /\ c = local[w] /\ p = Past0(hist, r)
      /\ d.pc = "idle" \/ (d \in VectorCall /\ d.pc # "log")
  BY DEF Moving
<1>2. /\ w \in Writers /\ r \in RealIds /\ local' = [local EXCEPT ![w] = d]
      /\ d.pc # "idle" => d.real = r
      /\ c.real = r
  BY <1>1 DEF Around, IsVector, Busy
<1>3. Types /\ OneHolder /\ Recalled(hist, r)
  BY <1>1, <1>2, OpenedFacts
<1>4. d.pc = "idle" \/ (IsVector(d) /\ d.real = r)
  BY <1>1, <1>2, VectorCallFacts DEF IsVector
<1>5. LoggedCalls(r) = {c}
  BY <1>1, <1>2, <1>3, <1>4, OwnCalls
<1>6. Lsns(LoggedCalls(r)) = {c.lsn}
  BY <1>5 DEF Lsns
<1>7. RowsKept(log, hist, rows, r, {c.lsn})
  BY <1>3, <1>6 DEF Recalled
<1>8. Outcomes(c) = {LastValue(hist, r)} /\ RowsFit(rows, c)
  BY <1>3, <1>5 DEF Recalled
<1>9. LastValue(hist, r) = <<p.now.vec, FinalRow(rows, log, p)>>
  BY <1>1 DEF LastValue, Final
<1>10. ASSUME NEW u \in Writers, IsPayload(local'[u]), local'[u].real = r
      PROVE  FALSE
  <2>1. local'[w] = d /\ (u # w => local'[u] = local[u])
    BY <1>2, <1>3 DEF Types
  <2>2. ~IsPayload(d) /\ u # w
    BY <1>4, <1>10, <2>1 DEF IsPayload, IsVector, VectorKinds, PayloadKinds
  <2>3. Alone(u)
    BY <1>3, <1>10, <2>1, <2>2 DEF Recalled
  <2>4. Busy(w) /\ local[w].real = local[u].real
    BY <1>1, <1>2, <1>10, <2>1, <2>2 DEF Busy, IsVector
  <2> QED
    BY <1>2, <2>2, <2>3, <2>4 DEF Alone
<1> QED
  BY <1>7, <1>8, <1>9, <1>10 DEF NoPayloads

\* It goes on, and its id will hold the same as before.
LEMMA CallMoves ==
  ASSUME NEW hist, NEW w, NEW c, NEW d, NEW r, NEW p, Moving(hist, w, c, d, r, p),
         d \in VectorCall, d.lsn = c.lsn, d.kind = c.kind, d.vec = c.vec, d.arg = c.arg, want' = want,
         r \notin blurred => /\ RowsKept(log, hist, rows', r, {c.lsn})
                             /\ FinalRow(rows', log, p) = FinalRow(rows, log, p)
                             /\ RowsFit(rows', d)
  PROVE  Remembered(hist)'
<1>1. w \in Writers /\ r \in RealIds /\ c.real = r /\ (d.pc # "idle" => d.real = r /\ LoggedCalls(r)' = {d})
      /\ Past0(hist, r)' = p
  BY MovingFacts
<1>2. d.pc # "idle" /\ d.kind \in VectorKinds
  BY VectorCallFacts
<1>3. LoggedCalls(r)' = {d} /\ d.real = r
  BY <1>1, <1>2
<1>4. /\ Opened(hist) /\ Around(w, d, r) /\ log' = log /\ blurred' = blurred
  BY DEF Moving
<1>5. phase' = "open" /\ want[r] # {}
  BY <1>1, <1>4, OpenedFacts DEF Around, KeptVector
<1>6. KeptVector(hist, r)'
  BY <1>3, <1>5 DEF KeptVector
<1>7. ASSUME r \notin blurred
      PROVE  Recalled(hist, r)'
  <2>a. Outcomes(c) = {<<p.now.vec, FinalRow(rows, log, p)>>} /\ NoPayloads(r)'
    BY <1>7, MovingRecalled
  <2>1. RowsKept(log', hist, rows', r, Lsns(LoggedCalls(r)'))
    <3>1. Lsns(LoggedCalls(r)') = {c.lsn}
      BY <1>3 DEF Lsns
    <3> QED
      BY <1>4, <1>7, <3>1
  <2>2. LastValue(hist, r)' = <<p.now.vec, FinalRow(rows, log, p)>>
    BY <1>1, <1>4, <1>7 DEF LastValue, Final
  <2>3. Outcomes(d)' = {LastValue(hist, r)'}
    <3>1. Outcomes(d)' = OutcomesIn(d, want'[d.real])
      BY OutcomesAre
    <3>2. Outcomes(c) = OutcomesIn(c, want[c.real])
      BY OutcomesAre
    <3>3. OutcomesIn(d, want[r]) = OutcomesIn(c, want[r])
      BY <1>2 DEF OutcomesIn, VectorKinds
    <3> QED
      BY <1>1, <1>3, <1>7, <2>a, <2>2, <3>1, <3>2, <3>3
  <2> QED
    BY <1>1, <1>3, <1>7, <2>a, <2>1, <2>3 DEF Recalled, NoPayloads
<1>8. Kept(hist, r)'
  BY <1>4, <1>5, <1>6, <1>7 DEF Kept
<1>9. LogsFor(hist, hist, r) /\ ~IsPayload(d)
  BY <1>2, <1>4 DEF LogsFor, IsPayload, VectorKinds, PayloadKinds
<1> QED
  BY <1>4, <1>8, <1>9, StepRemembers

\* It returns, and its id holds what it was to hold.
LEMMA CallReturns ==
  ASSUME NEW hist, NEW w, NEW c, NEW d, NEW r, NEW p, Moving(hist, w, c, d, r, p),
         d = Idle, want'[r] = Outcomes(c),
         r \notin blurred => /\ RowsKept(log, hist, rows', r, {})
                             /\ FinalRow(rows', log, p) = FinalRow(rows, log, p)
  PROVE  Remembered(hist)'
<1>1. /\ w \in Writers /\ r \in RealIds /\ c.real = r /\ c \in LoggedCalls(r)
      /\ d.pc = "idle" => LoggedCalls(r)' = {}
      /\ p = Past0(hist, r) /\ Past0(hist, r)' = p
  BY MovingFacts
<1>2. d.pc = "idle"
  BY DEF Idle
<1>3. LoggedCalls(r)' = {}
  BY <1>1, <1>2
<1>4. Opened(hist) /\ Around(w, d, r) /\ log' = log /\ blurred' = blurred
  BY DEF Moving
<1>5. phase' = "open" /\ want[r] # {}
  BY <1>1, <1>4, OpenedFacts DEF Around, KeptVector
<1>6. KeptVector(hist, r)'
  <2>1. c \in VectorCall /\ Past0(hist, r).now.vec = c.vec
    BY <1>1, <1>4, CallRows
  <2>2. Outcomes(c) = OutcomesIn(c, want[r])
    BY <1>1, OutcomesAre
  <2>3. want'[r] # {} /\ \A u \in want'[r] : u[1] = p.now.vec
    BY <1>1, <1>5, <2>1, <2>2, VectorOutcomes
  <2> QED
    BY <1>1, <2>3 DEF KeptVector
<1>7. ASSUME r \notin blurred
      PROVE  Recalled(hist, r)'
  <2>a. Outcomes(c) = {<<p.now.vec, FinalRow(rows, log, p)>>} /\ NoPayloads(r)'
    BY <1>7, MovingRecalled
  <2>1. RowsKept(log', hist, rows', r, Lsns(LoggedCalls(r)'))
    <3>1. Lsns(LoggedCalls(r)') = {}
      BY <1>3 DEF Lsns
    <3> QED
      BY <1>4, <1>7, <3>1
  <2>2. LastValue(hist, r)' = <<p.now.vec, FinalRow(rows, log, p)>>
    BY <1>1, <1>4, <1>7 DEF LastValue, Final
  <2>3. want'[r] = {LastValue(hist, r)'}
    BY <1>1, <1>7, <2>a, <2>2
  <2> QED
    BY <1>1, <1>3, <1>7, <2>a, <2>1, <2>3 DEF Recalled, NoPayloads
<1>8. Kept(hist, r)'
  BY <1>4, <1>5, <1>6, <1>7 DEF Kept
<1>9. LogsFor(hist, hist, r) /\ ~IsPayload(d)
  BY <1>2, <1>4 DEF LogsFor, IsPayload
<1> QED
  BY <1>4, <1>8, <1>9, StepRemembers

LEMMA GotoFields ==
  ASSUME NEW c \in InsertCall \cup VersionCall \cup DeleteCall, NEW pc, NEW d, d = [c EXCEPT !.pc = pc]
  PROVE  /\ d.kind = c.kind /\ d.real = c.real /\ d.new = c.new /\ d.old = c.old /\ d.read = c.read
         /\ d.vec = c.vec /\ d.arg = c.arg /\ d.lsn = c.lsn /\ d.pc = pc
  BY DEF InsertCall, VersionCall, DeleteCall

LEMMA VectorStep ==
  ASSUME NEW hist, Opened(hist), NEW w \in Writers, NEW c, c = local[w], NEW r, r = c.real,
         NEW p, p = Past0(hist, r), IsVector(c), c.pc # "log",
         NEW d, d = Idle \/ (d \in VectorCall /\ d.pc # "log" /\ d.real = r),
         local' = [local EXCEPT ![w] = d], phase' = phase, log' = log, blurred' = blurred,
         DOMAIN want' = RealIds, \A q \in RealIds : q # r => want'[q] = want[q],
         \A i : SameRow(rows, rows', i) \/ Belongs(log, i, r)
  PROVE  Moving(hist, w, c, d, r, p)
<1>1. phase = "open" /\ Working
  BY OpenedFacts
<1>2. c \in VectorCall /\ r \in RealIds
  BY <1>1, CallOf, VectorCallFacts
<1>3. d.pc # "idle" => d.real = r
  BY DEF Idle
<1>4. Around(w, d, r)
  BY <1>1, <1>2, <1>3 DEF Around, IsVector, Busy
<1>5. d = Idle => d.pc = "idle"
  BY DEF Idle
<1> QED
  BY <1>4, <1>5 DEF Moving

LEMMA SetRows ==
  ASSUME NEW t, NEW i, NEW v, NEW y, y = Set(t, i, v)
  PROVE  \A j : j = i \/ SameRow(t, y, j)
<1>1. DOMAIN y = DOMAIN t \cup {i} /\ \A j \in DOMAIN t : j # i => y[j] = t[j]
  BY DEF Set
<1> QED
  BY <1>1 DEF SameRow

LEMMA WithoutRows ==
  ASSUME NEW t, NEW i, NEW y, y = Without(t, i)
  PROVE  i \notin DOMAIN y /\ \A j : j = i \/ SameRow(t, y, j)
<1>1. DOMAIN y = DOMAIN t \ {i} /\ \A j \in DOMAIN y : y[j] = t[j]
  BY DEF Without
<1> QED
  BY <1>1 DEF SameRow

\* The call of w on r steps without a row written.
LEMMA QuietRemembers ==
  ASSUME NEW hist, Opened(hist), NEW w \in Writers, NEW c, c = local[w], IsVector(c), c.pc # "log",
         NEW d \in VectorCall, d.pc # "log", local' = [local EXCEPT ![w] = d],
         d.real = c.real, d.kind = c.kind, d.vec = c.vec, d.arg = c.arg, d.lsn = c.lsn,
         UNCHANGED <<phase, log, rows, want, blurred>>,
         RowsFit(rows, c) => RowsFit(rows, d)
  PROVE  Remembered(hist)'
<1>1. PICK r, p : r = c.real /\ p = Past0(hist, r)
  OBVIOUS
<1>2. \A i : SameRow(rows, rows', i)
  BY DEF SameRow
<1>3. DOMAIN want = RealIds
  BY OpenedFacts
<1>4. Moving(hist, w, c, d, r, p)
  BY <1>1, <1>2, <1>3, VectorStep
<1>5. r \notin blurred => RowsKept(log, hist, rows, r, {c.lsn}) /\ RowsFit(rows, c)
  BY <1>4, MovingRecalled
<1> QED
  BY <1>1, <1>4, <1>5, CallMoves

\* The steps that write no row.
LEMMA GotoRemembers ==
  ASSUME NEW hist, Opened(hist), NEW w \in Writers, MovesOn(w),
         UNCHANGED <<phase, rows, want, blurred>>,
         NEW pc, Goto(w, pc), pc \in {"map", "row", "tomb", "node", "read", "drop"},
         local[w].pc \in {"node", "map", "tomb"},
         pc = "read" => local[w].kind = "update" /\ local[w].arg = Absent,
         local[w].kind = "update" /\ pc = "row" => local[w].arg # Absent,
         local[w].kind = "update" => pc # "drop"
  PROVE  Remembered(hist)'
<1>1. PICK c : c = local[w]
  OBVIOUS
<1>2. PICK d \in VectorCall : Advances(w, d) /\ d.lsn = c.lsn
  BY <1>1 DEF MovesOn
<1>3. c \in Holding /\ local' = [local EXCEPT ![w] = d] /\ d.pc # "log" /\ c.pc # "log" /\ log' = log
  BY <1>1, <1>2 DEF Advances, MovesOn
<1>4. Types /\ Working
  BY OpenedFacts
<1>5. IsVector(c) /\ c \in InsertCall \cup VersionCall \cup DeleteCall
  <2>1. c \in VectorCall
    BY <1>3, <1>4, HoldingFacts
  <2> QED
    BY <2>1, VectorCallFacts DEF VectorCall, IsVector
<1>6. d = [c EXCEPT !.pc = pc]
  <2>1. local \in [Writers -> Call] /\ local' = [local EXCEPT ![w] = [local[w] EXCEPT !.pc = pc]]
    BY <1>4 DEF Types, Goto
  <2>2. local'[w] = d /\ local'[w] = [local[w] EXCEPT !.pc = pc]
    BY <1>3, <2>1
  <2> QED
    BY <1>1, <2>2
<1>7. /\ d.kind = c.kind /\ d.real = c.real /\ d.new = c.new /\ d.old = c.old /\ d.read = c.read
      /\ d.vec = c.vec /\ d.arg = c.arg /\ d.lsn = c.lsn /\ d.pc = pc
  BY <1>5, <1>6, GotoFields
<1>8. RowsFit(rows, c) => RowsFit(rows, d)
  BY <1>1, <1>7 DEF RowsFit
<1> QED
  BY <1>1, <1>3, <1>5, <1>7, <1>8, QuietRemembers

LEMMA InsertNodeRemembers ==
  ASSUME NEW hist, Opened(hist), IInv', NEW w \in Writers, InsertNode(w)
  PROVE  Remembered(hist)'
<1>1. Working
  BY OpenedFacts
<1>2. MovesOn(w)
  BY <1>1, InsertNodeMoves
<1> DEFINE pc == IF local[w].kind = "update" THEN "map" ELSE "row"
<1>3. Goto(w, pc) /\ local[w].pc = "node" /\ UNCHANGED <<phase, rows, want, blurred>>
  BY DEF InsertNode, ghosts
<1>4. pc \in {"map", "row"} /\ (local[w].kind = "update" => pc = "map")
  OBVIOUS
<1> HIDE DEF pc
<1> QED
  BY <1>2, <1>3, <1>4, GotoRemembers

LEMMA RecordMappingRemembers ==
  ASSUME NEW hist, Opened(hist), NEW w \in Writers, RecordMapping(w)
  PROVE  Remembered(hist)'
<1>1. Working
  BY OpenedFacts
<1>2. MovesOn(w)
  BY <1>1, RecordMappingMoves
<1> DEFINE pc == IF local[w].kind = "update" THEN "tomb" ELSE "node"
<1>3. Goto(w, pc) /\ local[w].pc = "map" /\ UNCHANGED <<phase, rows, want, blurred>>
  BY DEF RecordMapping, ghosts
<1>4. pc \in {"tomb", "node"}
  OBVIOUS
<1> HIDE DEF pc
<1> QED
  BY <1>2, <1>3, <1>4, GotoRemembers

LEMMA TombstoneRemembers ==
  ASSUME NEW hist, Opened(hist), NEW w \in Writers, Tombstone(w)
  PROVE  Remembered(hist)'
<1>1. Working
  BY OpenedFacts
<1>2. MovesOn(w)
  BY <1>1, TombstoneMoves
<1> DEFINE pc == IF local[w].kind = "update" /\ local[w].arg = Absent THEN "read"
                 ELSE IF local[w].kind = "delete" THEN "drop" ELSE "row"
<1>3. Goto(w, pc) /\ local[w].pc = "tomb" /\ UNCHANGED <<phase, rows, want, blurred>>
  BY DEF Tombstone, ghosts
<1>4. /\ pc \in {"read", "row", "drop"}
      /\ pc = "read" => local[w].kind = "update" /\ local[w].arg = Absent
      /\ local[w].kind = "update" /\ pc = "row" => local[w].arg # Absent
      /\ local[w].kind = "update" => pc # "drop"
  OBVIOUS
<1> HIDE DEF pc
<1> QED
  BY <1>2, <1>3, <1>4, GotoRemembers

LEMMA ReadOldRowRemembers ==
  ASSUME NEW hist, Opened(hist), NEW w \in Writers, ReadOldRow(w)
  PROVE  Remembered(hist)'
<1> DEFINE pc == IF local[w].old \in DOMAIN rows THEN "row" ELSE "drop"
           read == IF local[w].old \in DOMAIN rows THEN rows[local[w].old] ELSE {}
<1>a. PICK c : c = local[w]
  OBVIOUS
<1>1. c.pc = "read" /\ c.kind \in VectorKinds /\ UNCHANGED <<phase, log, rows, want, blurred>>
      /\ local' = [local EXCEPT ![w].pc = pc, ![w].read = read]
  BY <1>a DEF ReadOldRow, durable, ghosts
<1>2. Types /\ Working
  BY OpenedFacts
<1>3. IsVector(c) /\ c \in Call
  BY <1>a, <1>1, <1>2, VectorPc DEF Types
<1>4. c \in VersionCall /\ c \in VectorCall
  BY <1>1, <1>3 DEF Call, Idle, InsertCall, DeleteCall, PayloadCall, PayloadKinds, VectorKinds, VectorCall
<1>5. c.kind = "update"
  BY <1>a, <1>1, <1>2, <1>3, <1>4, CallOf DEF Sound, Fits, ReinsertFits, VersionCall
<1>6. MovesOn(w)
  BY <1>2, ReadOldRowMoves
<1>7. PICK d \in VectorCall : Advances(w, d) /\ d.lsn = c.lsn
  BY <1>a, <1>6 DEF MovesOn
<1>8. local' = [local EXCEPT ![w] = d] /\ d.pc # "log"
  BY <1>7 DEF Advances
<1>9. d = [c EXCEPT !.pc = pc, !.read = read]
  <2> HIDE DEF pc, read
  <2>1. local \in [Writers -> Call]
    BY <1>2 DEF Types
  <2>2. local'[w] = d /\ local'[w] = [local[w] EXCEPT !.pc = pc, !.read = read]
    BY <1>1, <1>8, <2>1
  <2> QED
    BY <1>a, <2>2
<1>10. /\ d.kind = c.kind /\ d.real = c.real /\ d.new = c.new /\ d.old = c.old
       /\ d.vec = c.vec /\ d.arg = c.arg /\ d.lsn = c.lsn /\ d.pc = pc /\ d.read = read
  <2> HIDE DEF pc, read
  <2> QED
    BY <1>4, <1>9 DEF VersionCall
<1>11. RowsFit(rows, c) => RowsFit(rows, d)
  BY <1>a, <1>1, <1>5, <1>10 DEF RowsFit
<1>12. /\ c.pc # "log" /\ UNCHANGED <<phase, log, rows, want, blurred>>
       /\ d.real = c.real /\ d.kind = c.kind /\ d.vec = c.vec /\ d.arg = c.arg /\ d.lsn = c.lsn
  BY <1>1, <1>10
<1> HIDE DEF pc, read
<1> QED
  BY <1>a, <1>3, <1>8, <1>11, <1>12, QuietRemembers

-----------------------------------------------------------------------------
(* The vector call on an id writes a row.                                  *)

LEMMA CallRecord ==
  ASSUME NEW hist, NEW w, NEW c, NEW d, NEW r, NEW p, Moving(hist, w, c, d, r, p)
  PROVE  /\ r \in RealIds /\ c \in VectorCall /\ c.pc # "log" /\ c.real = r
         /\ Telling(log, hist) /\ Linked(log, hist) /\ p = hist[Len(log)][r]
         /\ c.lsn \in 1..Len(log) /\ log[c.lsn].real = r /\ p.last = c.lsn
         /\ log[c.lsn].new = c.new /\ log[c.lsn].old = c.old /\ log[c.lsn].arg = c.arg
         /\ log[c.lsn].op = (IF c.kind = "reinsert" THEN "insert" ELSE c.kind)
         /\ p.now = After(RecordOf(c))
         /\ \A k \in (c.lsn+1)..Len(log) : log[k].real # r
<1>1. /\ r \in RealIds /\ c \in LoggedCalls(r) /\ p = Past0(hist, r) /\ p = hist[Len(log)][r]
      /\ Telling(log, hist) /\ Linked(log, hist)
  BY MovingFacts
<1>2. Opened(hist)
  BY DEF Moving
<1>a. c \in VectorCall /\ c.pc # "log" /\ c.real = r /\ c.lsn \in 1..Len(log)
  BY <1>1, <1>2, CallRows
<1>b. log[c.lsn] = RecordOf(c) /\ log[c.lsn].real = r
  BY <1>1, <1>2, CallRows
<1>c. Past0(hist, r).last = c.lsn /\ Past0(hist, r).now = After(RecordOf(c))
  <2>1. r \in RealIds /\ c \in LoggedCalls(r)
    BY <1>1
  <2>2. Past0(hist, r).last = c.lsn
    BY <1>2, <2>1, CallRows
  <2>3. Past0(hist, r).now = After(RecordOf(c))
    BY <1>2, <2>1, CallRows
  <2> QED
    BY <2>2, <2>3
<1>3. /\ c \in VectorCall /\ c.pc # "log" /\ c.real = r
      /\ c.lsn \in 1..Len(log) /\ log[c.lsn] = RecordOf(c) /\ log[c.lsn].real = r
      /\ p.last = c.lsn /\ p.now = After(RecordOf(c))
  BY <1>1, <1>a, <1>b, <1>c
<1>4. /\ log[c.lsn].new = c.new /\ log[c.lsn].old = c.old /\ log[c.lsn].arg = c.arg
      /\ log[c.lsn].op = (IF c.kind = "reinsert" THEN "insert" ELSE c.kind)
  BY <1>3 DEF RecordOf
<1>5. \A k \in (c.lsn+1)..Len(log) : log[k].real # r
  <2>1. Len(log) \in 0..Len(log)
    BY <1>2, OpenedFacts
  <2>2. c.lsn = hist[Len(log)][r].last
    BY <1>1, <1>3
  <2>3. PICK n \in 0..Len(log), m \in {c.lsn} : n = Len(log) /\ m = c.lsn
    BY <2>1
  <2> QED
    BY <1>1, <2>2, <2>3, LastRecord
<1> QED
  BY <1>1, <1>3, <1>4, <1>5

\* It fills in the row of its version.
LEMMA FillLast ==
  ASSUME NEW hist, NEW w, NEW c, NEW d, NEW r, NEW p, Moving(hist, w, c, d, r, p), r \notin blurred,
         NEW v, Fills(log, rows, c.lsn, v), NEW y, y = Set(rows, c.new, v)
  PROVE  /\ RowsKept(log, hist, y, r, {c.lsn}) /\ ~Pending(y, log, p)
         /\ FinalRow(y, log, p) = FinalRow(rows, log, p)
<1>1. /\ r \in RealIds /\ Telling(log, hist) /\ Linked(log, hist) /\ p = hist[Len(log)][r]
      /\ c.lsn \in 1..Len(log) /\ log[c.lsn].real = r /\ p.last = c.lsn /\ log[c.lsn].new = c.new
      /\ \A k \in (c.lsn+1)..Len(log) : log[k].real # r
  BY CallRecord
<1>2. RowsKept(log, hist, rows, r, {c.lsn})
  BY MovingRecalled
<1>3. PICK j \in 1..Len(log) : j = c.lsn
  BY <1>1
<1>4. y = Set(rows, log[j].new, v) /\ Fills(log, rows, j, v)
  BY <1>1, <1>3
<1>5. RowsKept(log, hist, y, r, {c.lsn})
  BY <1>1, <1>2, <1>3, <1>4, FillKept
<1>6. FinalRow(y, log, p) = FinalRow(rows, log, p) /\ ~Pending(y, log, p)
  BY <1>1, <1>2, <1>3, <1>4, FillFinal
<1> QED
  BY <1>5, <1>6

\* All it was to do to the rows is done.
LEMMA CarriedOut ==
  ASSUME NEW hist, NEW w, NEW c, NEW d, NEW r, NEW p, Moving(hist, w, c, d, r, p),
         NEW t, RowsKept(log, hist, t, r, {c.lsn}), ~Pending(t, log, p),
         c.kind \in {"insert", "reinsert"} \/ c.old \notin DOMAIN t
  PROVE  RowsKept(log, hist, t, r, {})
<1>1. /\ p = hist[Len(log)][r] /\ log[c.lsn].old = c.old
      /\ log[c.lsn].op = (IF c.kind = "reinsert" THEN "insert" ELSE c.kind)
  BY CallRecord
<1>2. ~(Supersedes(log, hist, c.lsn) /\ log[c.lsn].old \in DOMAIN t)
  BY <1>1 DEF Supersedes
<1> QED
  BY <1>1, <1>2, RowsShrink

\* It drops the row of the version before.
LEMMA DropLast ==
  ASSUME NEW hist, NEW w, NEW c, NEW d, NEW r, NEW p, Moving(hist, w, c, d, r, p), r \notin blurred,
         c.kind \in {"update", "delete"}, ~Pending(rows, log, p),
         NEW y, y = Without(rows, c.old)
  PROVE  /\ RowsKept(log, hist, y, r, {c.lsn}) /\ ~Pending(y, log, p)
         /\ FinalRow(y, log, p) = FinalRow(rows, log, p)
<1>1. /\ r \in RealIds /\ Telling(log, hist) /\ p = hist[Len(log)][r]
      /\ c.lsn \in 1..Len(log) /\ log[c.lsn].real = r /\ log[c.lsn].old = c.old
      /\ log[c.lsn].op = (IF c.kind = "reinsert" THEN "insert" ELSE c.kind)
  BY CallRecord
<1>2. RowsKept(log, hist, rows, r, {c.lsn})
  BY MovingRecalled
<1>3. PICK j \in 1..Len(log) : j = c.lsn
  BY <1>1
<1>4. y = Without(rows, log[j].old) /\ log[j].op # "insert" /\ log[j].real = r
  BY <1>1, <1>3
<1>5. RowsKept(log, hist, y, r, {c.lsn}) /\ (Pending(y, log, p) <=> Pending(rows, log, p))
         /\ FinalRow(y, log, p) = FinalRow(rows, log, p)
  BY <1>1, <1>2, <1>4, DropOld
<1> QED
  BY <1>5

\* The call of w on r writes the row of one of its versions.
LEMMA RowStep ==
  ASSUME NEW hist, Opened(hist), NEW w \in Writers, NEW c, c = local[w], NEW r, r = c.real,
         NEW p, p = Past0(hist, r), IsVector(c), c.pc # "log",
         NEW d, d = Idle \/ (d \in VectorCall /\ d.pc # "log" /\ d.real = r),
         local' = [local EXCEPT ![w] = d], phase' = phase, log' = log, blurred' = blurred,
         want' = want \/ want' = [want EXCEPT ![r] = Outcomes(c)],
         \/ rows' = rows
         \/ c.kind # "delete" /\ \E v : rows' = Set(rows, c.new, v)
         \/ c.kind \in {"update", "delete"} /\ rows' = Without(rows, c.old)
  PROVE  Moving(hist, w, c, d, r, p)
<1>1. Working /\ DOMAIN want = RealIds /\ Types
  BY OpenedFacts
<1>2. c \in VectorCall /\ r \in RealIds
  BY <1>1, CallOf, VectorCallFacts
<1>3. c \in LoggedCalls(r)
  BY <1>2, HoldingFacts, <1>1 DEF LoggedCalls
<1>4. /\ c.kind # "delete" => Belongs(log, c.new, r)
      /\ c.kind \in {"update", "delete"} => Belongs(log, c.old, r)
  BY <1>2, <1>3, CallRows
<1>5. \A i : SameRow(rows, rows', i) \/ Belongs(log, i, r)
  <2>1. CASE rows' = rows
    BY <2>1 DEF SameRow
  <2>2. ASSUME c.kind # "delete", NEW v, rows' = Set(rows, c.new, v)
        PROVE  \A i : SameRow(rows, rows', i) \/ Belongs(log, i, r)
    <3>1. PICK y : y = rows'
      OBVIOUS
    <3>2. \A i : i = c.new \/ SameRow(rows, y, i)
      BY <2>2, <3>1, SetRows
    <3> QED
      BY <1>4, <2>2, <3>1, <3>2
  <2>3. CASE c.kind \in {"update", "delete"} /\ rows' = Without(rows, c.old)
    <3>1. PICK y : y = rows'
      OBVIOUS
    <3>2. \A i : i = c.old \/ SameRow(rows, y, i)
      BY <2>3, <3>1, WithoutRows
    <3> QED
      BY <1>4, <2>3, <3>1, <3>2
  <2> QED
    BY <2>1, <2>2, <2>3
<1>6. DOMAIN want' = RealIds /\ \A q \in RealIds : q # r => want'[q] = want[q]
  BY <1>1, <1>2
<1> QED
  BY <1>5, <1>6, VectorStep

LEMMA InsertRowRemembers ==
  ASSUME NEW hist, Opened(hist), NEW w \in Writers, WriteRow(w), local[w].kind # "update"
  PROVE  Remembered(hist)'
<1>1. PICK c, r, p, y, d : c = local[w] /\ r = c.real /\ p = Past0(hist, r) /\ y = rows' /\ d = Idle
  OBVIOUS
<1>2. Working /\ Types
  BY OpenedFacts
<1>3. c.pc = "row" /\ Acked(w) /\ UNCHANGED <<phase, log>>
      /\ y = IF c.arg # Absent THEN Set(rows, c.new, c.arg) ELSE rows
  BY <1>1 DEF WriteRow, durable
<1>4. IsVector(c) /\ c \in VectorCall
  BY <1>1, <1>2, <1>3, VectorPc, CallOf
<1>5. c.kind \in {"insert", "reinsert"}
  BY <1>1, <1>3, <1>4 DEF VectorCall, InsertCall, VersionCall, DeleteCall
<1>6. /\ local' = [local EXCEPT ![w] = d] /\ blurred' = blurred
      /\ want' = [want EXCEPT ![r] = Outcomes(c)]
  BY <1>1, <1>3 DEF Acked
<1>7. y = rows \/ \E v : y = Set(rows, c.new, v)
  BY <1>3
<1>8. Moving(hist, w, c, d, r, p)
  BY <1>1, <1>3, <1>4, <1>5, <1>6, <1>7, RowStep
<1>9. want'[r] = Outcomes(c)
  <2>1. r \in RealIds
    BY <1>8, MovingFacts
  <2> QED
    BY <1>6, <2>1, OpenedFacts
<1>10. ASSUME r \notin blurred
       PROVE  RowsKept(log, hist, y, r, {}) /\ FinalRow(y, log, p) = FinalRow(rows, log, p)
  <2>1. RowsKept(log, hist, rows, r, {c.lsn}) /\ RowsFit(rows, c)
    BY <1>8, <1>10, MovingRecalled
  <2>2. c.new \notin DOMAIN rows
    BY <1>5, <2>1 DEF RowsFit
  <2>3. /\ c.lsn \in 1..Len(log) /\ p.last = c.lsn
        /\ log[c.lsn].new = c.new /\ log[c.lsn].arg = c.arg
        /\ log[c.lsn].op = (IF c.kind = "reinsert" THEN "insert" ELSE c.kind)
    BY <1>8, CallRecord
  <2>4. CASE c.arg = Absent
    <3>1. ~Pending(rows, log, p)
      BY <1>5, <2>3, <2>4 DEF Pending, Sourced
    <3>2. RowsKept(log, hist, rows, r, {})
      BY <1>5, <1>8, <2>1, <3>1, CarriedOut
    <3> QED
      BY <1>3, <2>4, <3>2
  <2>5. CASE c.arg # Absent
    <3>1. Fills(log, rows, c.lsn, c.arg)
      BY <1>5, <2>2, <2>3, <2>5 DEF Fills, Issues
    <3>2. y = Set(rows, c.new, c.arg)
      BY <1>3, <2>5
    <3>3. RowsKept(log, hist, y, r, {c.lsn}) /\ ~Pending(y, log, p)
          /\ FinalRow(y, log, p) = FinalRow(rows, log, p)
      BY <1>8, <1>10, <3>1, <3>2, FillLast, ZenonT(60)
    <3> QED
      BY <1>5, <1>8, <3>3, CarriedOut
  <2> QED
    BY <2>4, <2>5
<1> QED
  BY <1>1, <1>8, <1>9, <1>10, CallReturns

LEMMA UpdateRowRemembers ==
  ASSUME NEW hist, Opened(hist), NEW w \in Writers, WriteRow(w), local[w].kind = "update"
  PROVE  Remembered(hist)'
<1>1. PICK c, r, p, y, d : c = local[w] /\ r = c.real /\ p = Past0(hist, r) /\ y = rows'
                           /\ d = [c EXCEPT !.pc = "drop"]
  OBVIOUS
<1>a. PICK v : v = IF c.arg = Absent THEN c.read ELSE c.arg
  OBVIOUS
<1>2. Working /\ Types
  BY OpenedFacts
<1>3. c.pc = "row" /\ Goto(w, "drop") /\ UNCHANGED <<phase, log, want, blurred>>
      /\ y = Set(rows, c.new, v)
  BY <1>1, <1>a DEF WriteRow, durable, ghosts
<1>4. IsVector(c) /\ c \in VectorCall /\ c.kind = "update"
  BY <1>1, <1>2, <1>3, VectorPc, CallOf
<1>5. c \in VersionCall
  BY <1>4 DEF VectorCall, InsertCall, VersionCall, DeleteCall
<1>6. local' = [local EXCEPT ![w] = d]
  BY <1>1, <1>2, <1>3 DEF Goto, Types
<1>7. /\ d \in VectorCall /\ d.pc = "drop" /\ d.real = r /\ d.lsn = c.lsn /\ d.kind = c.kind
      /\ d.vec = c.vec /\ d.arg = c.arg /\ d.new = c.new
  BY <1>1, <1>5 DEF VersionCall, VectorCall
<1>8. Moving(hist, w, c, d, r, p)
  BY <1>1, <1>3, <1>4, <1>6, <1>7, RowStep, ZenonT(60)
<1>9. ASSUME r \notin blurred
      PROVE  /\ RowsKept(log, hist, y, r, {c.lsn}) /\ FinalRow(y, log, p) = FinalRow(rows, log, p)
             /\ RowsFit(y, d)
  <2>1. RowsFit(rows, c)
    BY <1>8, <1>9, MovingRecalled
  <2>2. c.new \notin DOMAIN rows /\ (c.arg = Absent => c.old \in DOMAIN rows /\ c.read = rows[c.old])
    BY <1>3, <1>4, <2>1 DEF RowsFit
  <2>3. /\ log[c.lsn].new = c.new /\ log[c.lsn].arg = c.arg /\ log[c.lsn].old = c.old
        /\ log[c.lsn].op = "update"
    BY <1>4, <1>8, CallRecord
  <2>4. Fills(log, rows, c.lsn, v)
    BY <1>a, <2>2, <2>3 DEF Fills, Issues
  <2>5. RowsKept(log, hist, y, r, {c.lsn}) /\ FinalRow(y, log, p) = FinalRow(rows, log, p)
    BY <1>3, <1>8, <1>9, <2>4, FillLast, ZenonT(60)
  <2>6. c.new \in DOMAIN y
    BY <1>3 DEF Set
  <2>7. RowsFit(y, d)
    BY <1>4, <1>7, <2>6 DEF RowsFit
  <2> QED
    BY <2>5, <2>7
<1>10. r \notin blurred => /\ RowsKept(log, hist, rows', r, {c.lsn})
                            /\ FinalRow(rows', log, p) = FinalRow(rows, log, p)
                            /\ RowsFit(rows', d)
  BY <1>1, <1>9
<1>11. want' = want
  BY <1>3
<1> QED
  BY <1>7, <1>8, <1>10, <1>11, CallMoves

LEMMA WriteRowRemembers ==
  ASSUME NEW hist, Opened(hist), NEW w \in Writers, WriteRow(w)
  PROVE  Remembered(hist)'
  BY InsertRowRemembers, UpdateRowRemembers

LEMMA DropRowOfUpdateRemembers ==
  ASSUME NEW hist, Opened(hist), NEW w \in Writers, DropRow(w), local[w].kind # "delete"
  PROVE  Remembered(hist)'
<1>1. PICK c, r, p, y, d : c = local[w] /\ r = c.real /\ p = Past0(hist, r) /\ y = rows' /\ d = Idle
  OBVIOUS
<1>2. Working /\ Types
  BY OpenedFacts
<1>3. c.pc = "drop" /\ Acked(w) /\ UNCHANGED <<phase, log>> /\ y = Without(rows, c.old)
  BY <1>1 DEF DropRow, durable
<1>4. IsVector(c) /\ c \in VectorCall
  BY <1>1, <1>2, <1>3, VectorPc, CallOf
<1>5. c.kind = "update"
  <2>1. Fits(ix, c)
    BY <1>1, <1>2, <1>4, CallOf DEF Sound
  <2>2. c.kind # "reinsert"
    BY <1>3, <2>1 DEF Fits, ReinsertFits
  <2> QED
    BY <1>1, <1>3, <1>4, <2>2 DEF VectorCall, InsertCall, VersionCall, DeleteCall
<1>6. /\ local' = [local EXCEPT ![w] = d] /\ blurred' = blurred
      /\ want' = [want EXCEPT ![r] = Outcomes(c)]
  BY <1>1, <1>3 DEF Acked
<1>8. Moving(hist, w, c, d, r, p)
  BY <1>1, <1>3, <1>4, <1>5, <1>6, RowStep
<1>9. want'[r] = Outcomes(c)
  <2>1. r \in RealIds
    BY <1>8, MovingFacts
  <2> QED
    BY <1>6, <2>1, OpenedFacts
<1>10. ASSUME r \notin blurred
       PROVE  RowsKept(log, hist, y, r, {}) /\ FinalRow(y, log, p) = FinalRow(rows, log, p)
  <2>1. RowsFit(rows, c)
    BY <1>8, <1>10, MovingRecalled
  <2>2. c.new \in DOMAIN rows \/ (c.arg = Absent /\ c.old \notin DOMAIN rows)
    BY <1>3, <1>5, <2>1 DEF RowsFit
  <2>3. /\ p.last = c.lsn /\ p.now = After(RecordOf(c))
        /\ log[c.lsn].new = c.new /\ log[c.lsn].arg = c.arg /\ log[c.lsn].old = c.old
    BY <1>8, CallRecord
  <2>4. p.now.ver = c.new
    BY <1>5, <2>3, AfterFields DEF RecordOf
  <2>5. ~Pending(rows, log, p)
    BY <2>2, <2>3, <2>4 DEF Pending, Sourced
  <2>6. /\ RowsKept(log, hist, y, r, {c.lsn}) /\ ~Pending(y, log, p)
        /\ FinalRow(y, log, p) = FinalRow(rows, log, p)
    BY <1>3, <1>5, <1>8, <1>10, <2>5, DropLast, ZenonT(60)
  <2>7. c.old \notin DOMAIN y
    BY <1>3, WithoutRows
  <2> QED
    BY <1>8, <2>6, <2>7, CarriedOut
<1> QED
  BY <1>1, <1>8, <1>9, <1>10, CallReturns

LEMMA DropRowOfDeleteRemembers ==
  ASSUME NEW hist, Opened(hist), NEW w \in Writers, DropRow(w), local[w].kind = "delete"
  PROVE  Remembered(hist)'
<1>1. PICK c, r, p, y, d : c = local[w] /\ r = c.real /\ p = Past0(hist, r) /\ y = rows'
                           /\ d = [c EXCEPT !.pc = "forget"]
  OBVIOUS
<1>2. Working /\ Types
  BY OpenedFacts
<1>3. c.pc = "drop" /\ Goto(w, "forget") /\ UNCHANGED <<phase, log, want, blurred>>
      /\ y = Without(rows, c.old)
  BY <1>1 DEF DropRow, durable, ghosts
<1>4. IsVector(c) /\ c \in VectorCall /\ c.kind = "delete"
  BY <1>1, <1>2, <1>3, VectorPc, CallOf
<1>5. c \in DeleteCall
  BY <1>4 DEF VectorCall, InsertCall, VersionCall, DeleteCall
<1>6. local' = [local EXCEPT ![w] = d]
  BY <1>1, <1>2, <1>3 DEF Goto, Types
<1>7. /\ d \in VectorCall /\ d.pc = "forget" /\ d.real = r /\ d.lsn = c.lsn /\ d.kind = c.kind
      /\ d.vec = c.vec /\ d.arg = c.arg /\ d.old = c.old
  BY <1>1, <1>5 DEF DeleteCall, VectorCall
<1>8. Moving(hist, w, c, d, r, p)
  BY <1>1, <1>3, <1>4, <1>6, <1>7, RowStep
<1>9. ASSUME r \notin blurred
      PROVE  /\ RowsKept(log, hist, y, r, {c.lsn}) /\ FinalRow(y, log, p) = FinalRow(rows, log, p)
             /\ RowsFit(y, d)
  <2>1. p.now = After(RecordOf(c))
    BY <1>8, CallRecord
  <2>2. ~Pending(rows, log, p)
    BY <1>4, <2>1, AfterFields DEF RecordOf, Pending
  <2>3. RowsKept(log, hist, y, r, {c.lsn}) /\ FinalRow(y, log, p) = FinalRow(rows, log, p)
    BY <1>3, <1>4, <1>8, <1>9, <2>2, DropLast, ZenonT(60)
  <2>4. c.old \notin DOMAIN y
    BY <1>3, WithoutRows
  <2>5. RowsFit(y, d)
    BY <1>4, <1>7, <2>4 DEF RowsFit
  <2> QED
    BY <2>3, <2>5
<1>10. r \notin blurred => /\ RowsKept(log, hist, rows', r, {c.lsn})
                            /\ FinalRow(rows', log, p) = FinalRow(rows, log, p)
                            /\ RowsFit(rows', d)
  BY <1>1, <1>9
<1>11. want' = want
  BY <1>3
<1> QED
  BY <1>7, <1>8, <1>10, <1>11, CallMoves

LEMMA DropRowRemembers ==
  ASSUME NEW hist, Opened(hist), NEW w \in Writers, DropRow(w)
  PROVE  Remembered(hist)'
  BY DropRowOfUpdateRemembers, DropRowOfDeleteRemembers

LEMMA ForgetMappingRemembers ==
  ASSUME NEW hist, Opened(hist), NEW w \in Writers, ForgetMapping(w)
  PROVE  Remembered(hist)'
<1>1. PICK c, r, p, d : c = local[w] /\ r = c.real /\ p = Past0(hist, r) /\ d = Idle
  OBVIOUS
<1>2. Working /\ Types
  BY OpenedFacts
<1>3. c.pc = "forget" /\ Acked(w) /\ UNCHANGED <<phase, log, rows>>
  BY <1>1 DEF ForgetMapping, durable
<1>4. IsVector(c) /\ c \in VectorCall
  BY <1>1, <1>2, <1>3, VectorPc, CallOf
<1>5. c.kind = "delete"
  BY <1>1, <1>3, <1>4 DEF VectorCall, InsertCall, VersionCall, DeleteCall
<1>6. /\ local' = [local EXCEPT ![w] = d] /\ blurred' = blurred
      /\ want' = [want EXCEPT ![r] = Outcomes(c)]
  BY <1>1, <1>3 DEF Acked
<1>8. Moving(hist, w, c, d, r, p)
  BY <1>1, <1>3, <1>4, <1>5, <1>6, RowStep
<1>9. want'[r] = Outcomes(c)
  <2>1. r \in RealIds
    BY <1>8, MovingFacts
  <2> QED
    BY <1>6, <2>1, OpenedFacts
<1>10. ASSUME r \notin blurred
       PROVE  RowsKept(log, hist, rows, r, {})
  <2>1. RowsKept(log, hist, rows, r, {c.lsn}) /\ RowsFit(rows, c)
    BY <1>8, <1>10, MovingRecalled
  <2>2. c.old \notin DOMAIN rows
    BY <1>3, <1>5, <2>1 DEF RowsFit
  <2>3. p.now = After(RecordOf(c))
    BY <1>8, CallRecord
  <2>4. ~Pending(rows, log, p)
    BY <1>5, <2>3, AfterFields DEF RecordOf, Pending
  <2> QED
    BY <1>8, <2>1, <2>2, <2>4, CarriedOut
<1> QED
  BY <1>1, <1>3, <1>8, <1>9, <1>10, CallReturns

-----------------------------------------------------------------------------
(* The vector call on an id is logged.                                     *)

LEMMA LogsAdded ==
  ASSUME NEW hist, Logging(hist), NEW w \in Writers, LogsCall(w), NEW c, c = local[w],
         NEW m, m = log', NEW new, new = Grown(hist, m)
  PROVE  Added(log, hist, RecordOf(c), m, new)
<1>1. PICK rec, n : rec = RecordOf(c) /\ n = Len(log)
  OBVIOUS
<1>2. c.pc = "log" /\ m = Append(log, rec) /\ c \in Holding
  BY <1>1 DEF LogsCall, Logging, Advances
<1>4. /\ ix \in Index /\ log \in Seq(Record) /\ n \in Nat /\ Holding \subseteq VectorCall
      /\ Tells(log, hist) /\ Sound(ix, Holding)
      /\ \A e \in Holding : CallTold(log, hist, ix, e)
  BY <1>1, LoggingFacts
<1>5. /\ Now(ix, c.real) = hist[n][c.real].now
      /\ c.kind \in {"reinsert", "update"} => \A k \in 1..n : Issues(log[k]) => log[k].new # c.new
  BY <1>1, <1>2, <1>4 DEF CallTold
<1>6. c \in VectorCall /\ c.real \in RealIds /\ rec.real = c.real /\ rec.new = c.new
  BY <1>1, <1>2, <1>4, VectorCallFacts DEF RecordOf
<1>7. rec \in UpsertRecord \cup DeleteRecord
  <2>1. UpdateIds \subseteq Nat
    BY DEF UpdateIds
  <2>2. CASE c \in InsertCall
    BY <1>1, <2>2 DEF InsertCall, RecordOf, UpsertRecord
  <2>3. CASE c \in VersionCall
    BY <1>1, <2>1, <2>3 DEF VersionCall, RecordOf, UpsertRecord
  <2>4. CASE c \in DeleteCall
    BY <1>1, <2>4 DEF DeleteCall, RecordOf, DeleteRecord
  <2> QED
    BY <1>6, <2>2, <2>3, <2>4 DEF VectorCall
<1>8. Follows(hist[n][rec.real].now, rec)
  BY <1>1, <1>2, <1>4, <1>5, <1>6, CallFollows
<1>9. Issues(rec) /\ is_update_id(rec.new) => c.kind \in {"reinsert", "update"}
  <2>1. Issues(rec) => c.kind \in {"insert", "reinsert", "update"}
    BY <1>1, <1>6, VectorCallFacts DEF Issues, RecordOf, VectorKinds
  <2>2. c.kind = "insert" => ~is_update_id(rec.new)
    <3>1. Fits(ix, c) /\ ~is_update_id(c.real)
      BY <1>2, <1>4, CallIds
    <3> QED
      BY <1>6, <3>1 DEF Fits, InsertFits
  <2> QED
    BY <2>1, <2>2
<1>10. IssuesAnew(log, rec)
  BY <1>1, <1>5, <1>6, <1>9 DEF IssuesAnew
<1>11. Grew(log, hist, rec, m, new)
  BY <1>1, <1>2, <1>4, <1>7, <1>8, <1>10, TellsGrows
<1>12. Telling(log, hist)
  BY <1>4 DEF Telling
<1>13. Telling(m, new)
  <2>1. rec \in Record
    BY <1>7 DEF Record
  <2>2. m \in Seq(Record)
    BY <1>2, <1>4, <2>1
  <2> QED
    BY <1>11, <2>2 DEF Grew, Telling
<1> QED
  BY <1>1, <1>2, <1>7, <1>8, <1>10, <1>11, <1>12, <1>13 DEF Added

\* What a call was to make of the value its id has is what its record does.
LEMMA LoggedOutcome ==
  ASSUME NEW c \in VectorCall, NEW u, NEW f,
         c.kind = "delete" => f = <<Gone, {}>>,
         c.kind # "delete" /\ c.arg # Absent => f = <<c.vec, c.arg>>,
         c.kind \in {"insert", "reinsert"} /\ c.arg = Absent => f = <<c.vec, {}>>,
         c.kind = "update" /\ c.arg = Absent => f = <<c.vec, u[2]>>
  PROVE  OutcomesIn(c, {u}) = {f}
<1>1. c.kind \in {"insert", "reinsert", "update", "delete"}
  BY DEF VectorCall, InsertCall, VersionCall, DeleteCall
<1>2. CASE c.kind = "delete"
  BY <1>2 DEF OutcomesIn
<1>3. CASE c.kind \in {"insert", "reinsert"}
  BY <1>3 DEF OutcomesIn
<1>4. CASE c.kind = "update"
  <2> DEFINE P == IF c.arg # Absent THEN {c.arg} ELSE {v[2] : v \in {u}}
  <2>1. P = {IF c.arg # Absent THEN c.arg ELSE u[2]}
    OBVIOUS
  <2>2. OutcomesIn(c, {u}) = {<<c.vec, p>> : p \in P}
    BY <1>4 DEF OutcomesIn
  <2>3. f = <<c.vec, IF c.arg # Absent THEN c.arg ELSE u[2]>>
    BY <1>4
  <2> HIDE DEF P
  <2> QED
    BY <2>1, <2>2, <2>3
<1> QED
  BY <1>1, <1>2, <1>3, <1>4

\* The call d that w makes on r is logged: new is what the log tells after.
LEMMA LogOpRecalled ==
  ASSUME NEW hist, Opened(hist), NEW w \in Writers, NEW c, c = local[w], NEW r, r = c.real,
         IsVector(c), c.pc = "log", r \in RealIds, r \notin blurred,
         NEW d \in VectorCall, local' = [local EXCEPT ![w] = d], d.pc # "log",
         RecordOf(d) = RecordOf(c), d.real = r, d.kind = c.kind,
         d.kind = "update" => d.pc = "node", d.kind = "delete" => d.pc # "forget",
         NEW m, m = log', d.lsn = Len(m), NEW new, Added(log, hist, RecordOf(c), m, new),
         UNCHANGED <<rows, want>>
  PROVE  Recalled(new, r)'
<1>1. PICK rec, p, q : rec = RecordOf(d) /\ p = hist[Len(log)][r] /\ q = new[Len(m)][r]
  OBVIOUS
<1>2. Types /\ OneHolder /\ Recalled(hist, r) /\ \A i \in DOMAIN rows : \E x \in RealIds : Belongs(log, i, x)
  BY OpenedFacts
<1>3. IsVector(d) /\ d.pc # "idle" /\ d.kind \in VectorKinds
  BY VectorCallFacts DEF IsVector
<1>4. LoggedCalls(r) = {} /\ LoggedCalls(r)' = {d}
  BY <1>2, <1>3, OwnCalls
<1>5. Lsns(LoggedCalls(r)) = {} /\ Lsns(LoggedCalls(r)') = {Len(m)}
  BY <1>4 DEF Lsns
<1>6. RowsKept(log, hist, rows, r, {}) /\ want[r] = {LastValue(hist, r)}
  BY <1>2, <1>4, <1>5 DEF Recalled
<1>7. /\ rec.real = r /\ rec.new = d.new /\ rec.vec = d.vec /\ rec.arg = d.arg
      /\ rec.op = (IF d.kind = "reinsert" THEN "insert" ELSE d.kind)
  BY <1>1 DEF RecordOf
<1>8. Added(log, hist, rec, m, new)
  BY <1>1
<1>9. RowsKept(m, new, rows, r, {Len(m)})
  BY <1>2, <1>6, <1>7, <1>8, OwnRecord
<1>10. /\ rec.op = "delete" => Final(rows, m, q) = <<Gone, {}>>
       /\ rec.op # "delete" /\ rec.arg # Absent => Final(rows, m, q) = <<rec.vec, rec.arg>>
       /\ rec.op = "insert" /\ rec.arg = Absent => Final(rows, m, q) = <<rec.vec, {}>>
       /\ rec.op = "update" /\ rec.arg = Absent => Final(rows, m, q) = <<rec.vec, FinalRow(rows, log, p)>>
  <2>1. q = new[Len(m)][r] /\ p = hist[Len(log)][r] /\ r = rec.real
    BY <1>1, <1>7
  <2>2. PICK t : t = rows
    OBVIOUS
  <2>3. RowsKept(log, hist, t, r, {}) /\ \A i \in DOMAIN t : \E x \in RealIds : Belongs(log, i, x)
    BY <1>2, <1>6, <2>2
  <2>4. FinalIs(rec, t, m, q, log, p)
    BY <1>8, <2>1, <2>3, OwnFinal
  <2> QED
    BY <2>2, <2>4 DEF FinalIs
<1>11. LastValue(hist, r) = <<p.now.vec, FinalRow(rows, log, p)>>
  BY <1>1 DEF LastValue, Final, Past0
<1>12. LastValue(new, r)' = Final(rows, m, q)
  BY <1>1 DEF LastValue, Past0
<1>13. Outcomes(d)' = {LastValue(new, r)'}
  <2>1. PICK u, f : u = LastValue(hist, r) /\ f = Final(rows, m, q)
    OBVIOUS
  <2>2. u[2] = FinalRow(rows, log, p)
    BY <1>11, <2>1
  <2>3. OutcomesIn(d, {u}) = {f}
    <3>1. d.kind \in {"insert", "reinsert", "update", "delete"}
      BY <1>3 DEF VectorKinds
    <3>2. /\ d.kind = "delete" => f = <<Gone, {}>>
          /\ d.kind # "delete" /\ d.arg # Absent => f = <<d.vec, d.arg>>
          /\ d.kind \in {"insert", "reinsert"} /\ d.arg = Absent => f = <<d.vec, {}>>
          /\ d.kind = "update" /\ d.arg = Absent => f = <<d.vec, u[2]>>
      BY <1>7, <1>10, <2>1, <2>2, <3>1
    <3> QED
      BY <3>2, LoggedOutcome, ZenonT(60)
  <2>4. Outcomes(d)' = OutcomesIn(d, want'[d.real])
    BY OutcomesAre
  <2>5. want'[d.real] = {u}
    BY <1>6, <2>1
  <2> QED
    BY <1>12, <2>1, <2>3, <2>4, <2>5
<1>14. RowsFit(rows, d)
  <2>1. d.kind # "delete" => d.new \notin DOMAIN rows
    <3>1. d.kind # "delete" => Issues(rec)
      BY <1>3, <1>7 DEF Issues, VectorKinds
    <3> QED
      BY <1>2, <1>6, <1>7, <1>8, <3>1, NewRow
  <2> QED
    BY <2>1 DEF RowsFit
<1>15. NoPayloads(r)'
  <2> SUFFICES ASSUME NEW u \in Writers, IsPayload(local'[u]), local'[u].real = r PROVE FALSE
    BY DEF NoPayloads
  <2>1. local'[w] = d /\ (u # w => local'[u] = local[u])
    BY <1>2 DEF Types
  <2>2. ~IsPayload(d) /\ u # w
    BY <1>3, <2>1 DEF IsPayload, VectorKinds, PayloadKinds
  <2>3. Alone(u)
    BY <1>2, <2>1, <2>2 DEF Recalled
  <2>4. Busy(w) /\ local[w].real = local[u].real
    BY <2>1, <2>2 DEF Busy, IsVector
  <2> QED
    BY <2>2, <2>3, <2>4 DEF Alone
<1>16. RowsKept(log', new, rows', r, Lsns(LoggedCalls(r)'))
  BY <1>5, <1>9
<1>17. RowsFit(rows', d)
  BY <1>14
<1> QED
  BY <1>4, <1>13, <1>15, <1>16, <1>17 DEF Recalled, NoPayloads

LEMMA LogOpRemembers ==
  ASSUME NEW hist, Opened(hist), NEW w \in Writers, LogOp(w), NEW new, new = Grown(hist, log')
  PROVE  Remembered(new)'
<1>1. PICK c, r, m : c = local[w] /\ r = c.real /\ m = log'
  OBVIOUS
<1>2. Working /\ Types /\ Logging(hist) /\ phase = "open" /\ DOMAIN want = RealIds
  BY OpenedFacts
<1>3. c.pc = "log" /\ UNCHANGED <<phase, rows, want, blurred>>
  BY <1>1 DEF LogOp, ghosts
<1>4. IsVector(c) /\ c \in VectorCall /\ r \in RealIds
  BY <1>1, <1>2, <1>3, VectorPc, CallOf, VectorCallFacts
<1>5. LogsCall(w)
  BY <1>2, LogOpMoves
<1>6. PICK d \in VectorCall : Advances(w, d) /\ d.lsn = Len(m)
  BY <1>1, <1>5 DEF LogsCall
<1>7. /\ local' = [local EXCEPT ![w] = d] /\ d.pc # "log"
      /\ RecordOf(d) = RecordOf(c) /\ d.real = r /\ d.kind = c.kind
  BY <1>1, <1>6 DEF Advances
<1>8. d.pc = CASE c.kind = "reinsert" -> "map" [] c.kind = "delete" -> "tomb" [] OTHER -> "node"
  <2> DEFINE pc == CASE c.kind = "reinsert" -> "map" [] c.kind = "delete" -> "tomb" [] OTHER -> "node"
  <2>1. local' = [local EXCEPT ![w].lsn = Len(log'), ![w].pc = pc]
    BY <1>1 DEF LogOp
  <2> HIDE DEF pc
  <2>2. local \in [Writers -> Call]
    BY <1>2 DEF Types
  <2>3. local'[w] = [c EXCEPT !.lsn = Len(log'), !.pc = pc] /\ local'[w] = d
    BY <1>1, <1>7, <2>1, <2>2
  <2>4. [c EXCEPT !.lsn = Len(log'), !.pc = pc].pc = pc
    BY <1>4 DEF VectorCall, InsertCall, VersionCall, DeleteCall
  <2> QED
    BY <2>3, <2>4 DEF pc
<1>9. (d.kind = "update" => d.pc = "node") /\ (d.kind = "delete" => d.pc # "forget")
  BY <1>7, <1>8
<1>10. Added(log, hist, RecordOf(c), m, new)
  BY <1>1, <1>2, <1>5, LogsAdded
<1>11. r \notin blurred => Recalled(new, r)'
  BY <1>1, <1>3, <1>4, <1>6, <1>7, <1>9, <1>10, LogOpRecalled
<1>12. d.pc # "idle" /\ IsVector(d) /\ ~IsPayload(d)
  BY VectorCallFacts DEF IsVector, IsPayload, VectorKinds, PayloadKinds
<1>13. Around(w, d, r)
  <2>1. \A i : SameRow(rows, rows', i)
    BY <1>3 DEF SameRow
  <2> QED
    BY <1>1, <1>2, <1>3, <1>4, <1>7, <2>1 DEF Around
<1>14. LogsFor(hist, new, r)
  <2>1. RecordOf(c).real = r
    BY <1>1 DEF RecordOf
  <2> QED
    BY <1>1, <1>10, <2>1 DEF LogsFor
<1>15. KeptVector(new, r)'
  <2>1. OneHolder /\ want[r] # {}
    BY <1>4, OpenedFacts DEF KeptVector
  <2>2. LoggedCalls(r)' = {d}
    BY <1>1, <1>2, <1>4, <1>7, <1>12, <2>1, OwnCalls, ZenonT(60)
  <2> QED
    BY <1>2, <1>3, <2>1, <2>2 DEF KeptVector
<1>16. Kept(new, r)'
  BY <1>2, <1>3, <1>11, <1>15 DEF Kept
<1> QED
  BY <1>12, <1>13, <1>14, <1>16, StepRemembers

-----------------------------------------------------------------------------
(* Calls begin.                                                            *)

LEMMA LoggedHolding ==
  ASSUME NEW r
  PROVE  /\ (\A c \in Holding : c.real # r) => LoggedCalls(r) = {}
         /\ Holding' = Holding => LoggedCalls(r)' = LoggedCalls(r)
<1>1. (\A c \in Holding : c.real # r) => LoggedCalls(r) = {}
  BY DEF LoggedCalls
<1>2. Holding' = Holding => LoggedCalls(r)' = LoggedCalls(r)
  BY DEF LoggedCalls
<1> QED
  BY <1>1, <1>2

\* A vector call begins on an id with no other.
LEMMA StartsRemembers ==
  ASSUME NEW hist, Opened(hist), NEW w \in Writers, ~Busy(w), Starts(w), NEW r, local'[w].real = r,
         UNCHANGED <<phase, rows, want>>,
         blurred' = IF PayloadCallOn(r) THEN blurred \cup {r} ELSE blurred
  PROVE  Remembered(hist)'
<1>1. PICK c \in VectorCall :
        /\ c.pc = "log" /\ local' = [local EXCEPT ![w] = c]
        /\ \A d \in Holding : d.real # c.real
        /\ Holding' = Holding \cup {c} /\ log' = log
  BY DEF Starts
<1>2. Types /\ phase = "open" /\ DOMAIN want = RealIds
  BY OpenedFacts
<1>3. local'[w] = c /\ \A u \in Writers : u # w => local'[u] = local[u]
  BY <1>1, <1>2 DEF Types
<1>4. c.real = r /\ r \in RealIds /\ c.kind \in VectorKinds /\ c.pc # "idle" /\ ~IsPayload(c)
  BY <1>3, VectorCallFacts DEF IsPayload, VectorKinds, PayloadKinds
<1>5. LoggedCalls(r) = {} /\ LoggedCalls(r)' = {}
  BY <1>1, <1>4, LoggedHolding DEF LoggedCalls
<1>6. KeptVector(hist, r) /\ (r \notin blurred => Recalled(hist, r))
  BY <1>4, OpenedFacts
<1>7. Past0(hist, r)' = Past0(hist, r) /\ LastValue(hist, r)' = LastValue(hist, r)
  BY <1>1 DEF Past0, LastValue, Final
<1>8. KeptVector(hist, r)'
  BY <1>5, <1>6, <1>7 DEF KeptVector
<1>9. ASSUME r \notin blurred'
      PROVE  Recalled(hist, r)'
  <2>1. r \notin blurred /\ ~PayloadCallOn(r)
    BY <1>9
  <2>2. RowsKept(log, hist, rows, r, Lsns(LoggedCalls(r))) /\ want[r] = {LastValue(hist, r)}
    BY <1>5, <1>6, <2>1 DEF Recalled
  <2>3. Lsns(LoggedCalls(r)') = Lsns(LoggedCalls(r))
    BY <1>5
  <2>4. RowsKept(log', hist, rows', r, Lsns(LoggedCalls(r)')) /\ want'[r] = {LastValue(hist, r)'}
    BY <1>1, <1>7, <2>2, <2>3
  <2>5. NoPayloads(r)'
    <3> SUFFICES ASSUME NEW u \in Writers, IsPayload(local'[u]), local'[u].real = r PROVE FALSE
      BY DEF NoPayloads
    <3>1. u # w /\ local'[u] = local[u]
      BY <1>3, <1>4
    <3> QED
      BY <2>1, <3>1 DEF IsPayload, PayloadCallOn, Busy
  <2> QED
    BY <1>5, <2>4, <2>5 DEF Recalled, NoPayloads
<1>10. Kept(hist, r)'
  BY <1>2, <1>8, <1>9 DEF Kept
<1>11. Around(w, c, r)
  <2>1. \A i : SameRow(rows, rows', i)
    BY DEF SameRow
  <2>2. \A q \in RealIds : q # r => (q \in blurred' <=> q \in blurred)
    OBVIOUS
  <2> QED
    BY <1>1, <1>2, <1>4, <2>1, <2>2 DEF Around
<1>12. LogsFor(hist, hist, r)
  BY <1>1 DEF LogsFor
<1> QED
  BY <1>4, <1>10, <1>11, <1>12, StepRemembers

LEMMA BeginUpsertRemembers ==
  ASSUME NEW hist, Opened(hist), NEW w \in Writers, NEW r \in RealIds, NEW v \in Vecs,
         NEW p \in Payloads \cup {Absent}, NEW kind \in {"insert", "reinsert", "update"},
         BeginUpsert(w, r, v, p, kind), Starts(w)
  PROVE  Remembered(hist)'
<1>1. Types
  BY OpenedFacts
<1>2. /\ ~Busy(w) /\ UNCHANGED <<phase, rows, want>>
      /\ blurred' = IF PayloadCallOn(r) THEN blurred \cup {r} ELSE blurred
  BY DEF BeginUpsert, CanBegin
<1>3. local'[w].real = r
  BY <1>1 DEF BeginUpsert, Begun, Types
<1> QED
  BY <1>2, <1>3, StartsRemembers

LEMMA BeginDeleteRemembers ==
  ASSUME NEW hist, Opened(hist), NEW w \in Writers, NEW r \in RealIds, BeginDelete(w, r)
  PROVE  Remembered(hist)'
<1>1. Types /\ Working
  BY OpenedFacts
<1>2. /\ ~Busy(w) /\ UNCHANGED <<phase, rows, want>>
      /\ blurred' = IF PayloadCallOn(r) THEN blurred \cup {r} ELSE blurred
  BY DEF BeginDelete, CanBegin
<1>3. local'[w].real = r
  BY <1>1 DEF BeginDelete, Begun, Types
<1>4. Starts(w)
  BY <1>1, BeginDeleteStarts
<1> QED
  BY <1>2, <1>3, <1>4, StartsRemembers

\* An id that is free is as the log tells.
LEMMA FreeId ==
  ASSUME NEW hist, Opened(hist), NEW r \in RealIds, \A c \in Holding : c.real # r
  PROVE  LoggedCalls(r) = {} /\ Past0(hist, r).now = Now(ix, r)
<1>1. Logging(hist)
  BY OpenedFacts
<1>2. Now(ix, r) = hist[Len(log)][r].now
  BY <1>1, LoggingFacts
<1> QED
  BY <1>2, LoggedHolding DEF Past0

LEMMA DeleteNothingRemembers ==
  ASSUME NEW hist, Opened(hist), NEW w \in Writers, NEW r \in RealIds, DeleteNothing(w, r)
  PROVE  Remembered(hist)'
<1>1. Types /\ phase = "open" /\ DOMAIN want = RealIds /\ ix \in Index
  BY OpenedFacts DEF Types
<1>2. /\ ~Busy(w) /\ ~Locked(r) /\ resolve_internal(ix, r) \notin DOMAIN ix.vecs
      /\ want' = [want EXCEPT ![r] = {<<Gone, {}>>}]
      /\ UNCHANGED <<phase, rows, log, local, blurred>>
  BY DEF DeleteNothing, CanBegin, durable
<1>3. LoggedCalls(r) = {} /\ Past0(hist, r).now = Now(ix, r)
  BY <1>1, <1>2, LockedHolding, FreeId
<1>4. Now(ix, r).vec = Gone
  BY <1>2 DEF Now, is_alive
<1>5. LastValue(hist, r) = <<Gone, {}>> /\ want'[r] = {<<Gone, {}>>}
  BY <1>1, <1>2, <1>3, <1>4 DEF LastValue, Final, FinalRow
<1>6. LoggedCalls(r)' = {}
  BY <1>2, <1>3 DEF LoggedCalls, Holding, Busy
<1>7. Past0(hist, r)' = Past0(hist, r) /\ LastValue(hist, r)' = LastValue(hist, r)
  BY <1>2 DEF Past0, LastValue, Final
<1>8. KeptVector(hist, r)'
  <2>1. <<Gone, {}>>[1] = Past0(hist, r)'.now.vec
    BY <1>3, <1>4, <1>7
  <2> QED
    BY <1>5, <2>1 DEF KeptVector
<1>9. ASSUME r \notin blurred'
      PROVE  Recalled(hist, r)'
  <2>1. Recalled(hist, r)
    BY <1>2, <1>9, OpenedFacts
  <2>2. RowsKept(log', hist, rows', r, Lsns(LoggedCalls(r)'))
    BY <1>2, <1>3, <1>6, <2>1 DEF Recalled
  <2>3. want'[r] = {LastValue(hist, r)'}
    BY <1>5, <1>7
  <2>4. ASSUME NEW u \in Writers, IsPayload(local'[u]), local'[u].real = r
        PROVE  Alone(u)' /\ PayloadFits(rows', log', Past0(hist, r)', local'[u])
    <3>1. Alone(u) /\ PayloadFits(rows, log, Past0(hist, r), local[u])
      BY <1>2, <2>1, <2>4 DEF Recalled
    <3>2. Alone(u)'
      BY <1>2, <3>1 DEF Alone, Busy
    <3> QED
      BY <1>2, <1>7, <3>1, <3>2
  <2> QED
    BY <1>6, <2>2, <2>3, <2>4 DEF Recalled
<1>10. Kept(hist, r)'
  BY <1>1, <1>2, <1>8, <1>9 DEF Kept
<1>11. PICK d : d = local[w] /\ d.pc = "idle"
  BY <1>2 DEF Busy
<1>12. Around(w, d, r)
  <2>1. \A i : SameRow(rows, rows', i)
    BY <1>2 DEF SameRow
  <2>2. local' = [local EXCEPT ![w] = d]
    BY <1>1, <1>2, <1>11 DEF Types
  <2>3. DOMAIN want' = RealIds /\ \A q \in RealIds : q # r => want'[q] = want[q]
    BY <1>1, <1>2
  <2> QED
    BY <1>1, <1>2, <1>11, <2>1, <2>2, <2>3 DEF Around
<1>13. LogsFor(hist, hist, r) /\ ~IsPayload(d)
  BY <1>2, <1>11 DEF LogsFor, IsPayload
<1> QED
  BY <1>10, <1>12, <1>13, StepRemembers

-----------------------------------------------------------------------------
(* Payload calls.                                                          *)

\* The version a payload call is about is one of its id.
LEMMA VersionBelongs ==
  ASSUME NEW hist, Opened(hist), NEW r \in RealIds
  PROVE  Belongs(log, resolve_internal(ix, r), r)
<1>1. /\ Telling(log, hist) /\ Len(log) \in 0..Len(log) /\ Logging(hist) /\ Working
  BY OpenedFacts
<1>2. Sound(ix, Holding) /\ \A c \in Holding : CallTold(log, hist, ix, c)
  BY <1>1, LoggingFacts
<1>3. Now(ix, r).ver = resolve_internal(ix, r)
  BY DEF Now
<1>4. CASE Now(ix, r) = hist[Len(log)][r].now
  <2>1. PICK n \in 0..Len(log), v \in {hist[Len(log)][r].now.ver} : n = Len(log) /\ v = hist[n][r].now.ver
    BY <1>1
  <2>2. Belongs(log, v, r)
    BY <1>1, <2>1, VersionIssued
  <2> QED
    BY <1>3, <1>4, <2>1, <2>2
<1>5. CASE \A c \in Holding : c.real # r
  BY <1>4, <1>5, FreeId DEF Past0
<1>6. ASSUME NEW c \in Holding, c.real = r, c.pc = "log"
      PROVE  Now(ix, r) = hist[Len(log)][r].now
  BY <1>2, <1>6 DEF CallTold
<1>7. ASSUME NEW c \in Holding, c.real = r, c.pc # "log"
      PROVE  Belongs(log, resolve_internal(ix, r), r)
  <2>1. c \in LoggedCalls(r)
    BY <1>7 DEF LoggedCalls
  <2>2. /\ c.kind # "delete" => Belongs(log, c.new, r)
        /\ c.kind \in {"update", "delete"} => Belongs(log, c.old, r)
        /\ c \in VectorCall
    BY <2>1, CallRows
  <2>3. Belongs(log, r, r)
    BY DEF Belongs
  <2>4. Fits(ix, c)
    BY <1>2 DEF Sound
  <2>5. CASE c.kind = "insert"
    <3>1. resolve_internal(ix, r) = r
      BY <1>7, <2>4, <2>5 DEF Fits, InsertFits, resolve_internal
    <3> QED
      BY <2>3, <3>1
  <2>6. CASE c.kind = "reinsert"
    <3>1. resolve_internal(ix, r) \in {r, c.new}
      BY <1>7, <2>4, <2>6 DEF Fits, ReinsertFits, resolve_internal, Maps
    <3> QED
      BY <2>2, <2>3, <2>6, <3>1
  <2>7. CASE c.kind = "update"
    <3>1. resolve_internal(ix, r) \in {c.old, c.new}
      BY <1>7, <2>4, <2>7 DEF Fits, UpdateFits, resolve_internal, Maps
    <3> QED
      BY <2>2, <2>7, <3>1
  <2>8. CASE c.kind = "delete"
    <3>1. resolve_internal(ix, r) = c.old
      BY <1>7, <2>4, <2>8 DEF Fits, DeleteFits
    <3> QED
      BY <2>2, <2>8, <3>1
  <2> QED
    BY <2>2, <2>5, <2>6, <2>7, <2>8, VectorCallFacts DEF VectorKinds
<1> QED
  BY <1>4, <1>5, <1>6, <1>7

\* What a payload call leaves of the vectors an id may hold.
LEMMA PayloadOutcomes ==
  ASSUME NEW c, c.kind \in PayloadKinds, NEW S, NEW vec, \E u \in S : u[1] = vec
  PROVE  \E u \in OutcomesIn(c, S) : u[1] = vec
<1>1. OutcomesIn(c, S) = {IF u[1] = Gone THEN u ELSE <<u[1], Patched(c, u[2])>> : u \in S}
  BY DEF OutcomesIn, PayloadKinds
<1>2. PICK u \in S : u[1] = vec
  OBVIOUS
<1>3. PICK x : x = IF u[1] = Gone THEN u ELSE <<u[1], Patched(c, u[2])>>
  OBVIOUS
<1>4. x \in OutcomesIn(c, S)
  BY <1>1, <1>3
<1>5. x[1] = vec
  BY <1>2, <1>3
<1> QED
  BY <1>4, <1>5

\* A payload call on r steps on.
LEMMA PayloadRemembers ==
  ASSUME NEW hist, Opened(hist), NEW w \in Writers, NEW c, c = local[w], IsPayload(c), NEW r, r = c.real,
         r \in RealIds, NEW d, d.pc = "idle" \/ (IsPayload(d) /\ d.real = r /\ d.new = c.new),
         local' = [local EXCEPT ![w] = d], UNCHANGED <<phase, log, ix, blurred>>,
         want' = want \/ want' = [want EXCEPT ![r] = Outcomes(c)],
         rows' = rows \/ \E v : rows' = Set(rows, c.new, v),
         NEW p, p = Past0(hist, r),
         r \notin blurred => /\ RowsKept(log, hist, rows', r, {})
                             /\ want'[r] = {Final(rows', log, p)}
                             /\ d.pc # "idle" => PayloadFits(rows', log, p, d)
  PROVE  Remembered(hist)'
<1>1. /\ Types /\ phase = "open" /\ DOMAIN want = RealIds /\ Working /\ Belongs(log, c.new, r)
      /\ KeptVector(hist, r) /\ (r \notin blurred => Recalled(hist, r))
  BY OpenedFacts
<1>2. local'[w] = d /\ \A u \in Writers : u # w => local'[u] = local[u]
  BY <1>1 DEF Types
<1>3. ~IsVector(c) /\ ~IsVector(d)
  BY DEF IsPayload, IsVector, PayloadKinds, VectorKinds
<1>4. LoggedCalls(r)' = LoggedCalls(r)
  <2>1. Holding' = Holding
    BY <1>1, <1>3, PayloadAside DEF Aside
  <2> QED
    BY <2>1, LoggedHolding
<1>5. Past0(hist, r)' = p /\ LastValue(hist, r)' = Final(rows', log, p)
  BY DEF Past0, LastValue, Final
<1>6. KeptVector(hist, r)'
  <2>1. CASE LoggedCalls(r) # {}
    <3>1. want'[r] # {}
      <4>1. want[r] # {} /\ c.kind \in PayloadKinds
        BY <1>1 DEF KeptVector, IsPayload
      <4>2. PICK u : u \in want[r]
        BY <4>1
      <4>3. PICK S, vec : S = want[r] /\ vec = u[1]
        OBVIOUS
      <4>5. c.kind \in PayloadKinds /\ \E x \in S : x[1] = vec
        BY <4>1, <4>2, <4>3
      <4>6. \E x \in OutcomesIn(c, S) : x[1] = vec
        BY <4>5, PayloadOutcomes
      <4>4. Outcomes(c) # {}
        BY <4>3, <4>6, OutcomesAre
      <4> QED
        BY <1>1, <4>1, <4>4
    <3> QED
      BY <1>1, <1>4, <2>1, <3>1 DEF KeptVector
  <2>2. CASE LoggedCalls(r) = {}
    <3>1. c.kind \in PayloadKinds /\ \E u \in want[r] : u[1] = p.now.vec
      BY <1>1, <2>2 DEF KeptVector, IsPayload
    <3>2. \E u \in OutcomesIn(c, want[r]) : u[1] = p.now.vec
      BY <3>1, PayloadOutcomes
    <3>3. Outcomes(c) = OutcomesIn(c, want[r])
      BY OutcomesAre
    <3>4. \E u \in want'[r] : u[1] = p.now.vec
      BY <1>1, <3>1, <3>2, <3>3
    <3> QED
      BY <1>1, <1>5, <3>4 DEF KeptVector
  <2> QED
    BY <2>1, <2>2
<1>7. ASSUME r \notin blurred'
      PROVE  Recalled(hist, r)'
  <2>1. r \notin blurred
    BY <1>7
  <2>2. Alone(w) /\ Busy(w)
    BY <1>1, <2>1 DEF Recalled, IsPayload, Busy
  <2>3. LoggedCalls(r) = {}
    <3>1. \A v \in Writers : IsVector(local[v]) => local[v].real # r
      BY <1>3, <2>2 DEF Alone, Busy, IsVector
    <3>2. \A e \in Holding : e.real # r
      BY <1>1, <3>1, HoldingFacts
    <3> QED
      BY <3>2, LoggedHolding
  <2>4. Lsns(LoggedCalls(r)') = {}
    BY <1>4, <2>3 DEF Lsns
  <2>5. RowsKept(log', hist, rows', r, Lsns(LoggedCalls(r)'))
    BY <2>1, <2>4
  <2>6. want'[r] = {LastValue(hist, r)'}
    BY <1>5, <2>1
  <2>7. ASSUME NEW u \in Writers, IsPayload(local'[u]), local'[u].real = r
        PROVE  Alone(u)' /\ PayloadFits(rows', log', Past0(hist, r)', local'[u])
    <3>1. u = w
      <4>1. SUFFICES ASSUME u # w PROVE FALSE
        OBVIOUS
      <4>2. Busy(u) /\ local[u].real = r
        BY <1>2, <2>7, <4>1 DEF IsPayload, Busy
      <4> QED
        BY <2>2, <4>1, <4>2 DEF Alone
    <3>2. d.pc # "idle" /\ d.real = r
      BY <1>2, <2>7, <3>1 DEF IsPayload
    <3>3. Alone(u)'
      <4>1. SUFFICES ASSUME NEW v \in Writers, local'[v].pc # "idle", local'[v].real = r, v # w PROVE FALSE
        BY <1>2, <3>1, <3>2 DEF Alone, Busy
      <4>2. Busy(v) /\ local[v].real = r
        BY <1>2, <4>1 DEF Busy
      <4> QED
        BY <2>2, <4>1, <4>2 DEF Alone
    <3> QED
      BY <1>2, <1>5, <2>1, <3>1, <3>2, <3>3
  <2> QED
    BY <1>4, <2>3, <2>5, <2>6, <2>7 DEF Recalled
<1>8. Kept(hist, r)'
  BY <1>1, <1>6, <1>7 DEF Kept
<1>9. Around(w, d, r)
  <2>1. \A i : SameRow(rows, rows', i) \/ Belongs(log, i, r)
    <3>1. CASE rows' = rows
      BY <3>1 DEF SameRow
    <3>2. ASSUME NEW v, rows' = Set(rows, c.new, v)
          PROVE  \A i : SameRow(rows, rows', i) \/ Belongs(log, i, r)
      <4>1. PICK y : y = rows'
        OBVIOUS
      <4>2. \A i : i = c.new \/ SameRow(rows, y, i)
        BY <3>2, <4>1, SetRows
      <4> QED
        BY <1>1, <4>1, <4>2
    <3> QED
      BY <3>1, <3>2
  <2>2. DOMAIN want' = RealIds /\ \A q \in RealIds : q # r => want'[q] = want[q]
    BY <1>1
  <2> QED
    BY <1>1, <2>1, <2>2 DEF Around, Busy
<1>10. LogsFor(hist, hist, r) /\ (IsPayload(d) => Belongs(log, d.new, r))
  BY <1>1 DEF LogsFor, IsPayload
<1> QED
  BY <1>8, <1>9, <1>10, StepRemembers

\* The call c of w on payloads, on an id that nothing else is about.
LEMMA PayloadFacts ==
  ASSUME NEW hist, Opened(hist), NEW w \in Writers, NEW c, c = local[w], IsPayload(c),
         NEW r, r = c.real, NEW p, p = Past0(hist, r)
  PROVE  /\ c \in PayloadCall /\ r \in RealIds /\ Belongs(log, c.new, r) /\ Telling(log, hist)
         /\ p = hist[Len(log)][r] /\ ~IsVector(c)
         /\ r \notin blurred =>
              /\ RowsKept(log, hist, rows, r, {}) /\ want[r] = {Final(rows, log, p)}
              /\ PayloadFits(rows, log, p, c)
<1>1. /\ Types /\ Telling(log, hist) /\ Belongs(log, c.new, r)
  BY OpenedFacts
<1>2. ~IsVector(c) /\ c.pc # "idle"
  BY DEF IsPayload, IsVector, PayloadKinds, VectorKinds
<1>3. c \in PayloadCall
  BY <1>1, <1>2, VectorCallFacts DEF Types, Call, Idle, VectorCall, IsVector
<1>4. r \in RealIds
  BY <1>3 DEF PayloadCall
<1>5. ASSUME r \notin blurred
      PROVE  /\ RowsKept(log, hist, rows, r, {}) /\ want[r] = {Final(rows, log, p)}
             /\ PayloadFits(rows, log, p, c)
  <2>1. Recalled(hist, r)
    BY <1>4, <1>5, OpenedFacts
  <2>2. Alone(w) /\ Busy(w) /\ PayloadFits(rows, log, p, c)
    BY <1>2, <2>1 DEF Recalled, Busy
  <2>3. LoggedCalls(r) = {}
    <3>1. \A v \in Writers : IsVector(local[v]) => local[v].real # r
      BY <1>2, <2>2 DEF Alone, Busy, IsVector
    <3>2. \A e \in Holding : e.real # r
      BY <1>1, <3>1, HoldingFacts
    <3> QED
      BY <3>2, LoggedHolding
  <2>4. Lsns(LoggedCalls(r)) = {}
    BY <2>3 DEF Lsns
  <2> QED
    BY <2>1, <2>2, <2>3, <2>4 DEF Recalled, LastValue
<1> QED
  BY <1>1, <1>2, <1>3, <1>4, <1>5 DEF Past0

LEMMA ReadRowRemembers ==
  ASSUME NEW hist, Opened(hist), NEW w \in Writers, ReadRow(w)
  PROVE  Remembered(hist)'
<1>1. PICK c, r, p, d, read : /\ c = local[w] /\ r = c.real /\ p = Past0(hist, r)
                              /\ read = IF c.new \in DOMAIN rows THEN rows[c.new] ELSE {}
                              /\ d = [c EXCEPT !.pc = "put", !.read = read]
  OBVIOUS
<1>2. Types
  BY OpenedFacts
<1>3. /\ c.pc = "read" /\ c.kind \in PayloadKinds /\ (c.new \in DOMAIN rows \/ c.kind = "patch")
      /\ UNCHANGED <<phase, ix, rows, log, want, blurred>>
      /\ local' = [local EXCEPT ![w].pc = "put", ![w].read = read]
  BY <1>1 DEF ReadRow, durable, ghosts
<1>4. local' = [local EXCEPT ![w] = d]
  BY <1>1, <1>2, <1>3 DEF Types
<1>a. c = local[w] /\ r = c.real /\ p = Past0(hist, r)
  BY <1>1
<1>5. IsPayload(c)
  BY <1>3 DEF IsPayload
<1>6. /\ c \in PayloadCall /\ r \in RealIds /\ Belongs(log, c.new, r)
      /\ p = hist[Len(log)][r]
      /\ r \notin blurred =>
           /\ RowsKept(log, hist, rows, r, {}) /\ want[r] = {Final(rows, log, p)}
           /\ PayloadFits(rows, log, p, c)
  <2>1. c \in PayloadCall /\ r \in RealIds /\ Belongs(log, c.new, r) /\ p = hist[Len(log)][r]
    BY <1>a, <1>5, PayloadFacts
  <2>2. r \notin blurred =>
           /\ RowsKept(log, hist, rows, r, {}) /\ want[r] = {Final(rows, log, p)}
           /\ PayloadFits(rows, log, p, c)
    BY <1>a, <1>5, PayloadFacts
  <2> QED
    BY <2>1, <2>2
<1>7. d.pc = "put" /\ d.kind = c.kind /\ d.real = r /\ d.new = c.new /\ d.read = read
  BY <1>1, <1>6 DEF PayloadCall
<1>8. IsPayload(d)
  BY <1>3, <1>7 DEF IsPayload
<1>9. ASSUME r \notin blurred
      PROVE  PayloadFits(rows, log, p, d)
  <2>1. /\ c.new = p.now.ver /\ (c.kind # "dropkeys" => p.now.vec # Gone)
        /\ RowsKept(log, hist, rows, r, {})
    BY <1>6, <1>9 DEF PayloadFits
  <2>2. p.now.vec # Gone
    <3>1. CASE c.new \in DOMAIN rows
      BY <1>6, <2>1, <3>1 DEF RowsKept
    <3>2. CASE c.kind = "patch"
      BY <2>1, <3>2
    <3> QED
      BY <1>3, <3>1, <3>2
  <2>3. read = FinalRow(rows, log, p)
    <3>1. CASE c.new \in DOMAIN rows
      BY <1>1, <2>1, <2>2, <3>1 DEF FinalRow
    <3>2. CASE c.new \notin DOMAIN rows
      <4>1. ~Pending(rows, log, p)
        BY <1>6, <2>1 DEF RowsKept
      <4>2. ~Sourced(rows, log, p)
        BY <2>1, <2>2, <3>2, <4>1 DEF Pending
      <4> QED
        BY <1>1, <2>1, <2>2, <3>2, <4>2 DEF FinalRow
    <3> QED
      BY <3>1, <3>2
  <2> QED
    BY <1>7, <2>1, <2>2, <2>3 DEF PayloadFits
<1>10. r \notin blurred => /\ RowsKept(log, hist, rows', r, {})
                           /\ want'[r] = {Final(rows', log, p)}
                           /\ d.pc # "idle" => PayloadFits(rows', log, p, d)
  BY <1>3, <1>6, <1>9
<1>11. /\ c = local[w] /\ r = c.real /\ p = Past0(hist, r) /\ r \in RealIds
       /\ d.pc = "idle" \/ (IsPayload(d) /\ d.real = r /\ d.new = c.new)
       /\ UNCHANGED <<phase, log, ix, blurred>> /\ want' = want /\ rows' = rows
  BY <1>1, <1>3, <1>6, <1>7, <1>8
<1> QED
  BY <1>4, <1>5, <1>10, <1>11, PayloadRemembers

LEMMA NoSuchRowRemembers ==
  ASSUME NEW hist, Opened(hist), NEW w \in Writers, NoSuchRow(w)
  PROVE  Remembered(hist)'
<1>1. PICK c, r, p, d : c = local[w] /\ r = c.real /\ p = Past0(hist, r) /\ d = Idle
  OBVIOUS
<1>2. /\ c.pc = "read" /\ c.kind = "dropkeys"
      /\ UNCHANGED <<phase, ix, rows, log, want, blurred>>
      /\ local' = [local EXCEPT ![w] = d]
  BY <1>1 DEF NoSuchRow, durable, ghosts
<1>3. IsPayload(c) /\ d.pc = "idle"
  BY <1>1, <1>2 DEF IsPayload, PayloadKinds, Idle
<1>4. /\ r \in RealIds
      /\ r \notin blurred => RowsKept(log, hist, rows, r, {}) /\ want[r] = {Final(rows, log, p)}
  BY <1>1, <1>3, PayloadFacts
<1>5. r \notin blurred => /\ RowsKept(log, hist, rows', r, {})
                          /\ want'[r] = {Final(rows', log, p)}
                          /\ d.pc # "idle" => PayloadFits(rows', log, p, d)
  BY <1>2, <1>3, <1>4
<1> QED
  BY <1>1, <1>2, <1>3, <1>4, <1>5, PayloadRemembers

LEMMA PutRowRemembers ==
  ASSUME NEW hist, Opened(hist), NEW w \in Writers, PutRow(w)
  PROVE  Remembered(hist)'
<1>1. PICK c, r, p, d, v, y : /\ c = local[w] /\ r = c.real /\ p = Past0(hist, r) /\ d = Idle
                              /\ v = Patched(c, c.read) /\ y = rows'
  OBVIOUS
<1>2. Types /\ DOMAIN want = RealIds
  BY OpenedFacts
<1>3. /\ c.pc = "put" /\ UNCHANGED <<phase, ix, log, blurred>> /\ y = Set(rows, c.new, v)
      /\ want' = [want EXCEPT ![r] = Outcomes(c)]
      /\ local' = [local EXCEPT ![w] = d]
  BY <1>1 DEF PutRow, durable, Acked
<1>4. IsPayload(c)
  <2>1. c \in Call
    BY <1>1, <1>2 DEF Types
  <2> QED
    BY <1>3, <2>1 DEF Call, Idle, InsertCall, VersionCall, DeleteCall, PayloadCall, IsPayload
<1>5. /\ c \in PayloadCall /\ r \in RealIds /\ Telling(log, hist) /\ p = hist[Len(log)][r]
      /\ r \notin blurred =>
           /\ RowsKept(log, hist, rows, r, {}) /\ want[r] = {Final(rows, log, p)}
           /\ PayloadFits(rows, log, p, c)
  <2>1. c = local[w] /\ r = c.real /\ p = Past0(hist, r)
    BY <1>1
  <2> QED
    BY <1>4, <2>1, PayloadFacts
<1>6. ASSUME r \notin blurred
      PROVE  RowsKept(log, hist, y, r, {}) /\ want'[r] = {Final(y, log, p)}
  <2>1. /\ RowsKept(log, hist, rows, r, {}) /\ want[r] = {Final(rows, log, p)}
        /\ c.new = p.now.ver /\ p.now.vec # Gone
        /\ c.kind # "set" => c.read = FinalRow(rows, log, p)
    BY <1>3, <1>5, <1>6 DEF PayloadFits
  <2>2. RowsKept(log, hist, y, r, {}) /\ FinalRow(y, log, p) = v
    BY <1>3, <1>5, <2>1, PutCurrent
  <2>3. v = Patched(c, FinalRow(rows, log, p))
    <3>1. CASE c.kind = "set"
      BY <1>1, <3>1 DEF Patched
    <3>2. CASE c.kind # "set"
      BY <1>1, <2>1, <3>2
    <3> QED
      BY <3>1, <3>2
  <2>4. PICK u : u = Final(rows, log, p)
    OBVIOUS
  <2>5. u[1] = p.now.vec /\ u[2] = FinalRow(rows, log, p)
    BY <2>4 DEF Final
  <2>6. OutcomesIn(c, {u}) = {IF u[1] = Gone THEN u ELSE <<u[1], Patched(c, u[2])>>}
    <3>1. c.kind \notin {"insert", "reinsert", "update", "delete"}
      BY <1>4 DEF IsPayload, PayloadKinds
    <3> QED
      BY <3>1 DEF OutcomesIn
  <2>7. OutcomesIn(c, {u}) = {<<p.now.vec, v>>}
    BY <2>1, <2>3, <2>5, <2>6
  <2>8. Outcomes(c) = OutcomesIn(c, want[c.real])
    BY OutcomesAre
  <2>9. want'[r] = {<<p.now.vec, v>>}
    BY <1>1, <1>2, <1>3, <1>5, <2>1, <2>4, <2>7, <2>8
  <2> QED
    BY <2>2, <2>9 DEF Final
<1>7. r \notin blurred => /\ RowsKept(log, hist, rows', r, {})
                          /\ want'[r] = {Final(rows', log, p)}
                          /\ d.pc # "idle" => PayloadFits(rows', log, p, d)
  BY <1>1, <1>6 DEF Idle
<1>8. d.pc = "idle" /\ \E x : rows' = Set(rows, c.new, x)
  BY <1>1, <1>3 DEF Idle
<1> QED
  BY <1>1, <1>3, <1>4, <1>5, <1>7, <1>8, PayloadRemembers

LEMMA BeginPayloadRemembers ==
  ASSUME NEW hist, Opened(hist), NEW w \in Writers, NEW r \in RealIds, NEW kind \in PayloadKinds,
         NEW arg \in Payloads, BeginPayload(w, r, kind, arg)
  PROVE  Remembered(hist)'
<1>1. PICK d, p : /\ p = Past0(hist, r)
                  /\ d = [pc |-> IF kind = "set" THEN "put" ELSE "read", kind |-> kind, real |-> r,
                          arg |-> arg, lsn |-> 0, new |-> resolve_internal(ix, r), read |-> {}]
  OBVIOUS
<1>2. Types /\ Working /\ phase = "open" /\ DOMAIN want = RealIds /\ ix \in Index
  BY OpenedFacts DEF Types
<1>3. /\ ~Busy(w) /\ UNCHANGED <<phase, ix, rows, log, want>>
      /\ kind # "dropkeys" => is_alive(ix, r)
      /\ blurred' = IF Overlaps(r) \/ (is_alive(ix, r) /\ <<Gone, {}>> \in want[r])
                    THEN blurred \cup {r} ELSE blurred
      /\ local' = [local EXCEPT ![w] = d]
  BY <1>1 DEF BeginPayload, CanBegin, Begun, durable
<1>4. local'[w] = d /\ \A u \in Writers : u # w => local'[u] = local[u]
  BY <1>2, <1>3 DEF Types
<1>5. /\ d.pc # "idle" /\ d.kind = kind /\ d.real = r /\ d.new = resolve_internal(ix, r)
      /\ d.pc = "put" <=> kind = "set"
  BY <1>1
<1>6. ~IsVector(local[w]) /\ ~IsVector(d)
  BY <1>3, <1>5 DEF IsVector, Busy, PayloadKinds, VectorKinds
<1>7. LoggedCalls(r)' = LoggedCalls(r)
  <2>1. Holding' = Holding
    BY <1>2, <1>3, <1>6, PayloadAside DEF Aside
  <2> QED
    BY <2>1, LoggedHolding
<1>8. Past0(hist, r)' = p /\ LastValue(hist, r)' = LastValue(hist, r)
  BY <1>1, <1>3 DEF Past0, LastValue, Final
<1>9. KeptVector(hist, r)'
  <2>1. KeptVector(hist, r)
    BY OpenedFacts
  <2> QED
    BY <1>1, <1>2, <1>3, <1>7, <1>8, <2>1 DEF KeptVector
<1>10. ASSUME r \notin blurred'
       PROVE  Recalled(hist, r)'
  <2>1. r \notin blurred /\ ~Overlaps(r)
    BY <1>3, <1>10
  <2>2. Recalled(hist, r)
    BY <2>1, OpenedFacts
  <2>3. \A c \in Holding : c.real # r
    BY <1>2, <2>1, HoldingFacts DEF Overlaps, Busy, IsVector
  <2>4. LoggedCalls(r) = {} /\ p.now = Now(ix, r)
    BY <1>1, <2>3, FreeId
  <2>5. RowsKept(log', hist, rows', r, Lsns(LoggedCalls(r)')) /\ want'[r] = {LastValue(hist, r)'}
    BY <1>3, <1>7, <1>8, <2>2, <2>4 DEF Recalled
  <2>6. PayloadFits(rows, log, p, d)
    <3>1. d.new = p.now.ver
      BY <1>2, <1>5, <2>4, NowFacts
    <3>2. d.kind # "dropkeys" => p.now.vec # Gone
      BY <1>2, <1>3, <1>5, <2>4, NowFacts
    <3>3. d.pc = "put" => d.kind = "set" /\ d.kind # "dropkeys"
      BY <1>5
    <3> QED
      BY <3>1, <3>2, <3>3 DEF PayloadFits
  <2>7. ASSUME NEW u \in Writers, IsPayload(local'[u]), local'[u].real = r
        PROVE  Alone(u)' /\ PayloadFits(rows', log', Past0(hist, r)', local'[u])
    <3>1. u = w
      BY <1>4, <2>1, <2>7 DEF IsPayload, Overlaps, Busy
    <3>2. Alone(u)'
      <4>1. SUFFICES ASSUME NEW v \in Writers, local'[v].pc # "idle", local'[v].real = r, v # w PROVE FALSE
        BY <1>4, <1>5, <3>1 DEF Alone, Busy
      <4> QED
        BY <1>4, <2>1, <4>1 DEF Overlaps, Busy
    <3> QED
      BY <1>3, <1>4, <1>8, <2>6, <3>1, <3>2
  <2> QED
    BY <1>7, <2>4, <2>5, <2>7 DEF Recalled
<1>11. Kept(hist, r)'
  BY <1>2, <1>3, <1>9, <1>10 DEF Kept
<1>12. Around(w, d, r)
  <2>1. \A i : SameRow(rows, rows', i)
    BY <1>3 DEF SameRow
  <2>2. \A q \in RealIds : q # r => (q \in blurred' <=> q \in blurred)
    BY <1>3
  <2> QED
    BY <1>2, <1>3, <1>5, <2>1, <2>2 DEF Around
<1>13. LogsFor(hist, hist, r) /\ Belongs(log, d.new, r)
  BY <1>3, <1>5, VersionBelongs DEF LogsFor
<1> QED
  BY <1>11, <1>12, <1>13, StepRemembers

\* Every step of a call.
LEMMA StepRemembersAll ==
  ASSUME NEW hist, Opened(hist), IInv', UsedType, used.failures = 0, used'.failures = 0,
         NEW w \in Writers, Step(w), NEW new, new = Later(hist, log, log')
  PROVE  Remembered(new)'
<1>1. Working /\ Types /\ enable_oplog
  BY OpenedFacts
<1>2. ~Fault
  BY DEF Fault, UsedType
<1>3. ~LogOpFails(w) /\ ~InsertNodeFails(w) /\ ~RowFails(w) /\ ~ReadOldRowFails(w)
  BY <1>2 DEF LogOpFails, InsertNodeFails, RowFails, ReadOldRowFails
<1>4. ~LogAbort(w)
  <2> SUFFICES ASSUME local[w].pc = "abort" PROVE FALSE
    BY DEF LogAbort
  <2>1. IsVector(local[w])
    BY <1>1, VectorPc
  <2>2. Fits(ix, local[w]) /\ local[w] \in VectorCall
    BY <1>1, <2>1, CallOf DEF Sound
  <2>3. local[w].kind \in VectorKinds
    BY <2>2, VectorCallFacts
  <2> QED
    BY <2>2, <2>3 DEF Fits, InsertFits, ReinsertFits, UpdateFits, DeleteFits, VectorKinds
<1>5. CASE LogOp(w)
  <2>1. log' # log
    <3>1. PICK rec : log' = Append(log, rec)
      BY <1>1, <1>5 DEF LogOp
    <3>2. log \in Seq(Record)
      BY <1>1 DEF Types
    <3>3. Len(Append(log, rec)) = Len(log) + 1 /\ Len(log) \in Nat
      BY <3>2
    <3> QED
      BY <3>1, <3>3
  <2>2. new = Grown(hist, log')
    BY <2>1 DEF Later
  <2> QED
    BY <1>5, <2>2, LogOpRemembers
<1>6. CASE ~LogOp(w)
  <2>1. log' = log
    BY <1>3, <1>4, <1>6 DEF Step, InsertNode, RecordMapping, Tombstone, ReadOldRow, WriteRow, DropRow,
         ForgetMapping, ReadRow, NoSuchRow, PutRow, durable
  <2>2. new = hist
    BY <2>1 DEF Later
  <2>3. Remembered(hist)'
    BY <1>3, <1>4, <1>6, InsertNodeRemembers, RecordMappingRemembers, TombstoneRemembers,
       ReadOldRowRemembers, WriteRowRemembers, DropRowRemembers, ForgetMappingRemembers,
       ReadRowRemembers, NoSuchRowRemembers, PutRowRemembers DEF Step
  <2> QED
    BY <2>2, <2>3
<1> QED
  BY <1>5, <1>6

\* The start of every call.
LEMMA BeginRemembers ==
  ASSUME NEW hist, Opened(hist), NEW w \in Writers, Begin(w)
  PROVE  Remembered(hist)' /\ log' = log
<1>0. Working
  BY OpenedFacts
<1>1. PICK r \in RealIds :
        \/ BeginDelete(w, r) \/ DeleteNothing(w, r)
        \/ \E p \in Payloads :
             \/ \E v \in Vecs, q \in {p, Absent} : BeginInsert(w, r, v, q) \/ BeginUpdate(w, r, v, q)
             \/ \E kind \in PayloadKinds : BeginPayload(w, r, kind, p)
  BY DEF Begin
<1>2. CASE BeginDelete(w, r)
  <2>1. log' = log
    BY <1>2 DEF BeginDelete, durable
  <2> QED
    BY <1>2, <2>1, BeginDeleteRemembers
<1>3. CASE DeleteNothing(w, r)
  <2>1. log' = log
    BY <1>3 DEF DeleteNothing, durable
  <2> QED
    BY <1>3, <2>1, DeleteNothingRemembers
<1>4. ASSUME NEW p \in Payloads, NEW v \in Vecs, NEW q \in {p, Absent}, BeginInsert(w, r, v, q)
      PROVE  Remembered(hist)' /\ log' = log
  <2> DEFINE kind == IF r \in ix.tomb THEN "reinsert" ELSE "insert"
  <2>1. ~is_alive(ix, r) /\ BeginUpsert(w, r, v, q, kind)
    BY <1>4 DEF BeginInsert
  <2>2. q \in Payloads \cup {Absent}
    OBVIOUS
  <2>3. log' = log
    BY <2>1 DEF BeginUpsert, durable
  <2>4. kind \in {"insert", "reinsert"} /\ (kind = "reinsert" <=> r \in ix.tomb)
    OBVIOUS
  <2> HIDE DEF kind
  <2>5. Starts(w)
    BY <1>0, <2>1, <2>2, <2>4, BeginUpsertStarts
  <2>6. Remembered(hist)'
    BY <2>1, <2>2, <2>4, <2>5, BeginUpsertRemembers
  <2> QED
    BY <2>3, <2>6
<1>5. ASSUME NEW p \in Payloads, NEW v \in Vecs, NEW q \in {p, Absent}, BeginUpdate(w, r, v, q)
      PROVE  Remembered(hist)' /\ log' = log
  <2>1. is_alive(ix, r) /\ BeginUpsert(w, r, v, q, "update")
    BY <1>5 DEF BeginUpdate
  <2>2. q \in Payloads \cup {Absent}
    OBVIOUS
  <2>3. log' = log
    BY <2>1 DEF BeginUpsert, durable
  <2>5. Starts(w)
    BY <1>0, <2>1, <2>2, BeginUpsertStarts
  <2>6. Remembered(hist)'
    BY <2>1, <2>2, <2>5, BeginUpsertRemembers
  <2> QED
    BY <2>3, <2>6
<1>6. ASSUME NEW p \in Payloads, NEW kind \in PayloadKinds, BeginPayload(w, r, kind, p)
      PROVE  Remembered(hist)' /\ log' = log
  <2>1. log' = log
    BY <1>6 DEF BeginPayload, durable
  <2> QED
    BY <1>6, <2>1, BeginPayloadRemembers
<1> QED
  BY <1>1, <1>2, <1>3, <1>4, <1>5, <1>6

-----------------------------------------------------------------------------
(* A store that is down or recovering.                                     *)

Closed(hist) == IInv /\ Whole(hist) /\ enable_oplog /\ phase # "open" /\ Remembered(hist)

LEMMA ClosedFacts ==
  ASSUME NEW hist, Closed(hist)
  PROVE  /\ Telling(log, hist) /\ Len(log) \in Nat /\ Len(log) \in 0..Len(log) /\ Types /\ Control
         /\ Linked(log, hist) /\ DOMAIN want = RealIds
         /\ \A i \in DOMAIN rows : \E r \in RealIds : Belongs(log, i, r)
         /\ \A r \in RealIds : want[r] # {} /\ \E u \in want[r] : u[1] = Past0(hist, r).now.vec
         /\ \A r \in RealIds : r \notin blurred => Recoverable(hist, r)
         /\ \A w \in Writers : local[w] = Idle
<1>1. Types /\ Control /\ phase # "open" /\ Told(hist) /\ Remembered(hist)
  BY DEF Closed, IInv, Whole
<1>2. Telling(log, hist) /\ Len(log) \in Nat /\ Len(log) \in 0..Len(log)
  BY <1>1 DEF Telling, Types, Told
<1> QED
  BY <1>1, <1>2 DEF Remembered, Kept, KeptVector, Control

LEMMA MoreDue ==
  ASSUME NEW l, NEW hist, NEW r, NEW t, NEW E, NEW D, RowsKept(l, hist, t, r, E), E \subseteq D
  PROVE  RowsKept(l, hist, t, r, D)
<1>1. Pending(t, l, hist[Len(l)][r]) => hist[Len(l)][r].last \in D
  BY DEF RowsKept
<1> QED
  BY <1>1, RowsShrink

\* What a step to such a store has to show.
LEMMA ClosedRemembers ==
  ASSUME NEW hist, Linked(log, hist), IInv', phase' # "open", log' = log, DOMAIN want' = RealIds,
         \A i \in DOMAIN rows' : \E r \in RealIds : Belongs(log, i, r),
         \A r \in RealIds : want'[r] # {} /\ \E u \in want'[r] : u[1] = Past0(hist, r).now.vec,
         \A r \in RealIds : r \notin blurred' => Recoverable(hist, r)'
  PROVE  Remembered(hist)'
<1>1. \A w \in Writers : ~IsPayload(local'[w])
  BY DEF IInv, Control, IsPayload, Idle
<1>2. \A r \in RealIds : Past0(hist, r)' = Past0(hist, r)
  BY DEF Past0
<1>3. \A r \in RealIds : KeptVector(hist, r)'
  BY <1>2 DEF KeptVector
<1>4. \A r \in RealIds : Kept(hist, r)'
  BY <1>3 DEF Kept
<1> QED
  BY <1>1, <1>4 DEF Remembered

\* Nothing is replayed.
LEMMA QuietClosed ==
  ASSUME NEW hist, Closed(hist), IInv', phase' \in {"down", "replaying", "replayed"},
         UNCHANGED <<rows, log, blurred>>, DOMAIN want' = RealIds,
         \A r \in RealIds : want[r] \subseteq want'[r],
         \A r \in RealIds : Due(r) \subseteq Due(r)'
  PROVE  Remembered(hist)'
<1>1. ASSUME NEW r \in RealIds, r \notin blurred'
      PROVE  Recoverable(hist, r)'
  <2>1. Recoverable(hist, r)
    BY <1>1, ClosedFacts
  <2>2. PICK D : D = Due(r)'
    OBVIOUS
  <2>3. RowsKept(log, hist, rows, r, D)
    BY <2>1, <2>2, MoreDue DEF Recoverable
  <2>4. LastValue(hist, r)' = LastValue(hist, r)
    BY DEF LastValue, Past0
  <2>5. phase' # "dropping"
    OBVIOUS
  <2>6. LastValue(hist, r)' \in want'[r]
    BY <2>1, <2>4 DEF Recoverable
  <2> QED
    BY <2>2, <2>3, <2>5, <2>6 DEF Recoverable, Past0
<1>2. /\ Linked(log, hist) /\ DOMAIN want' = RealIds
      /\ \A i \in DOMAIN rows' : \E r \in RealIds : Belongs(log, i, r)
  BY ClosedFacts
<1>3. \A r \in RealIds : want'[r] # {} /\ \E u \in want'[r] : u[1] = Past0(hist, r).now.vec
  BY ClosedFacts
<1>4. phase' # "open" /\ log' = log
  OBVIOUS
<1> QED
  BY <1>1, <1>2, <1>3, <1>4, ClosedRemembers

LEMMA DamageMainRemembers ==
  ASSUME NEW hist, Closed(hist), IInv', DamageMain
  PROVE  Remembered(hist)'
<1>1. /\ phase = "down" /\ phase' = "down" /\ main' = Damaged /\ prev' = prev
      /\ UNCHANGED <<rows, log, want, blurred>>
  BY DEF DamageMain
<1>2. Loadable' \subseteq Loadable
  BY <1>1 DEF Loadable
<1>3. \A r \in RealIds : Due(r) \subseteq Due(r)'
  BY <1>1, <1>2 DEF Due
<1> QED
  BY <1>1, <1>3, ClosedFacts, QuietClosed

LEMMA LoadCheckpointRemembers ==
  ASSUME NEW hist, Closed(hist), IInv', LoadCheckpoint
  PROVE  Remembered(hist)'
<1>a. PICK file : file = IF main \in {NoFile, Damaged} THEN prev ELSE main
  OBVIOUS
<1>1. /\ phase = "down" /\ phase' = "replaying" /\ at' = file.lsn + 1
      /\ main' = IF main = Damaged THEN NoFile ELSE main
      /\ UNCHANGED <<prev, rows, log, want, blurred>>
  BY <1>a DEF LoadCheckpoint, ghosts
<1>2. Types /\ Control
  BY ClosedFacts
<1>3. /\ main \in CheckpointFile \cup {NoFile, Damaged} /\ prev \in CheckpointFile \cup {NoFile}
      /\ main \in {NoFile, Damaged} => prev # NoFile
  BY <1>2 DEF Types, Control
<1>4. file \in CheckpointFile
  BY <1>a, <1>3
<1>5. file \in Loadable
  BY <1>a, <1>3, <1>4, Intact DEF Loadable
<1>6. Loadable' \subseteq Loadable
  BY <1>1 DEF Loadable
<1>7. file.lsn \in Nat
  BY <1>4 DEF CheckpointFile
<1>8. ASSUME NEW r \in RealIds, NEW k \in Due(r)
      PROVE  k \in Due(r)'
  <2>1. k \in 1..Len(log) /\ log[k].real = r /\ \A f \in Loadable : f.lsn < k
    BY DEF Due
  <2>2. Len(log) \in Nat /\ file.lsn < k
    BY <1>5, <2>1, ClosedFacts
  <2>3. k >= at'
    BY <1>1, <1>7, <2>1, <2>2
  <2> QED
    BY <1>1, <1>6, <2>1, <2>3 DEF Due
<1>9. \A r \in RealIds : Due(r) \subseteq Due(r)'
  BY <1>8
<1> QED
  BY <1>1, <1>9, ClosedFacts, QuietClosed

LEMMA ReplayEndRemembers ==
  ASSUME NEW hist, Closed(hist), IInv', ReplayEnd
  PROVE  Remembered(hist)'
<1>1. /\ phase = "replaying" /\ phase' = "replayed" /\ UNCHANGED <<main, prev, at, rows, log, want, blurred>>
  BY DEF ReplayEnd, durable, ghosts
<1>2. Loadable' = Loadable
  BY <1>1 DEF Loadable
<1>3. \A r \in RealIds : Due(r) \subseteq Due(r)'
  BY <1>1, <1>2 DEF Due
<1> QED
  BY <1>1, <1>3, ClosedFacts, QuietClosed

\* What a crash leaves of an id.
LEMMA CrashFacts ==
  ASSUME Crash
  PROVE  /\ phase' = "down" /\ UNCHANGED <<main, prev, rows, log, blurred, enable_oplog>>
         /\ DOMAIN want' = RealIds
         /\ \A r \in RealIds : want'[r] = want[r] \cup UNION {Outcomes(c) : c \in Interrupted(r)}
         /\ \A r \in RealIds : Due(r)' = {k \in 1..Len(log) : /\ log[k].real = r
                                                              /\ \A f \in Loadable : f.lsn < k}
<1>1. /\ phase' = "down" /\ UNCHANGED <<main, prev, rows, log, blurred, enable_oplog>>
      /\ want' = [r \in RealIds |-> want[r] \cup UNION {Outcomes(c) : c \in Interrupted(r)}]
  BY DEF Crash, durable
<1>2. Loadable' = Loadable
  BY <1>1 DEF Loadable
<1>3. \A r \in RealIds : Due(r)' = {k \in 1..Len(log) : /\ log[k].real = r
                                                        /\ \A f \in Loadable : f.lsn < k}
  BY <1>1, <1>2 DEF Due
<1> QED
  BY <1>1, <1>3

\* A crash of a store that was not open.
LEMMA ClosedCrashRemembers ==
  ASSUME NEW hist, Closed(hist), IInv', Crash
  PROVE  Remembered(hist)'
<1>1. \A r \in RealIds : want[r] \subseteq want'[r]
  BY CrashFacts
<1>2. ASSUME NEW r \in RealIds
      PROVE  Due(r) \subseteq Due(r)'
  BY CrashFacts DEF Due
<1> QED
  BY <1>1, <1>2, CrashFacts, QuietClosed

\* A crash cuts the logged calls short.
LEMMA LoggedInterrupted ==
  ASSUME NEW hist, Opened(hist), NEW r \in RealIds, NEW c \in LoggedCalls(r)
  PROVE  c \in Interrupted(r)
<1>1. c \in Holding /\ c.real = r /\ c.lsn \in 1..Len(log)
  BY CallRows
<1>2. PICK w \in Writers : Busy(w) /\ c = local[w]
  BY <1>1 DEF Holding
<1>3. Len(log) \in Nat
  BY OpenedFacts
<1>4. c.lsn > 0
  BY <1>1, <1>3
<1> QED
  BY <1>1, <1>2, <1>4 DEF Interrupted

\* Their records are replayed whichever checkpoint is loaded.
LEMMA LoggedDue ==
  ASSUME NEW hist, Opened(hist), Crash, NEW r \in RealIds
  PROVE  Lsns(LoggedCalls(r)) \subseteq Due(r)'
<1>1. ASSUME NEW c \in LoggedCalls(r)
      PROVE  c.lsn \in Due(r)'
  <2>1. c \in Holding /\ c.pc # "log" /\ c.lsn \in 1..Len(log) /\ log[c.lsn].real = r
    BY <1>1, CallRows
  <2>2. \A f \in Loadable : f.lsn < c.lsn
    BY <2>1, OpenedFacts, LoggedCall
  <2> QED
    BY <2>1, <2>2, CrashFacts
<1> QED
  BY <1>1 DEF Lsns

LEMMA CrashVector ==
  ASSUME NEW hist, Opened(hist), Crash, NEW r \in RealIds
  PROVE  want'[r] # {} /\ \E u \in want'[r] : u[1] = Past0(hist, r).now.vec
<1>1. KeptVector(hist, r) /\ phase = "open"
  BY OpenedFacts
<1>2. want[r] \subseteq want'[r] /\ want[r] # {}
  BY <1>1, CrashFacts DEF KeptVector
<1>3. CASE LoggedCalls(r) = {}
  BY <1>1, <1>2, <1>3 DEF KeptVector
<1>4. CASE LoggedCalls(r) # {}
  <2>1. PICK c \in LoggedCalls(r) : TRUE
    BY <1>4
  <2>2. c \in VectorCall /\ c.real = r /\ Past0(hist, r).now.vec = c.vec
    BY <2>1, CallRows
  <2>3. Outcomes(c) = OutcomesIn(c, want[r])
    BY <2>2, OutcomesAre
  <2>4. PICK u \in Outcomes(c) : u[1] = c.vec
    BY <1>2, <2>2, <2>3, VectorOutcomes
  <2>5. u \in want'[r]
    <3>1. c \in Interrupted(r)
      BY <2>1, LoggedInterrupted
    <3> QED
      BY <2>4, <3>1, CrashFacts
  <2> QED
    BY <1>2, <2>2, <2>4, <2>5
<1> QED
  BY <1>3, <1>4

LEMMA CrashRecoverable ==
  ASSUME NEW hist, Opened(hist), Crash, NEW r \in RealIds, r \notin blurred
  PROVE  Recoverable(hist, r)'
<1>1. Recalled(hist, r)
  BY OpenedFacts
<1>2. PICK D : D = Due(r)'
  OBVIOUS
<1>3. RowsKept(log, hist, rows, r, D)
  <2>1. RowsKept(log, hist, rows, r, Lsns(LoggedCalls(r)))
    BY <1>1 DEF Recalled
  <2>2. Lsns(LoggedCalls(r)) \subseteq D
    BY <1>2, LoggedDue
  <2> QED
    BY <2>1, <2>2, MoreDue
<1>4. LastValue(hist, r) \in want'[r]
  <2>1. CASE LoggedCalls(r) = {}
    <3>1. want[r] = {LastValue(hist, r)}
      BY <1>1, <2>1 DEF Recalled
    <3>2. want[r] \subseteq want'[r]
      BY CrashFacts
    <3> QED
      BY <3>1, <3>2
  <2>2. CASE LoggedCalls(r) # {}
    <3>1. PICK c \in LoggedCalls(r) : Outcomes(c) = {LastValue(hist, r)}
      BY <1>1, <2>2 DEF Recalled
    <3>2. c \in Interrupted(r)
      BY LoggedInterrupted
    <3> QED
      BY <3>1, <3>2, CrashFacts
  <2> QED
    BY <2>1, <2>2
<1>5. /\ LastValue(hist, r)' = LastValue(hist, r) /\ Past0(hist, r)' = Past0(hist, r)
      /\ phase' = "down" /\ log' = log /\ rows' = rows
  BY CrashFacts DEF LastValue, Past0
<1>6. LastValue(hist, r)' \in want'[r]
  BY <1>4, <1>5
<1>7. phase' # "dropping"
  BY <1>5
<1>8. RowsKept(log', hist, rows', r, Due(r)')
  BY <1>2, <1>3, <1>5
<1> QED
  BY <1>6, <1>7, <1>8 DEF Recoverable

LEMMA OpenCrashRemembers ==
  ASSUME NEW hist, Opened(hist), IInv', Crash
  PROVE  Remembered(hist)'
<1>1. /\ Linked(log, hist) /\ log' = log /\ rows' = rows /\ phase' # "open" /\ DOMAIN want' = RealIds
      /\ blurred' = blurred
  BY OpenedFacts, CrashFacts
<1>2. \A i \in DOMAIN rows' : \E r \in RealIds : Belongs(log, i, r)
  BY <1>1, OpenedFacts
<1>3. \A r \in RealIds : want'[r] # {} /\ \E u \in want'[r] : u[1] = Past0(hist, r).now.vec
  BY CrashVector
<1>4. \A r \in RealIds : r \notin blurred' => Recoverable(hist, r)'
  BY <1>1, CrashRecoverable
<1> QED
  BY <1>1, <1>2, <1>3, <1>4, ClosedRemembers

\* An open store in which no call has failed.
LEMMA OpenedStore ==
  ASSUME NEW hist, IInv, Whole(hist), enable_oplog, Remembered(hist), phase = "open"
  PROVE  Opened(hist)
BY DEF Opened, Logging, Working, Whole

LEMMA CrashRemembers ==
  ASSUME NEW hist, IInv, Whole(hist), enable_oplog, Remembered(hist), IInv', Crash
  PROVE  Remembered(hist)'
<1>1. CASE phase = "open"
  BY <1>1, OpenedStore, OpenCrashRemembers
<1>2. CASE phase # "open"
  BY <1>2, ClosedCrashRemembers DEF Closed
<1> QED
  BY <1>1, <1>2

-----------------------------------------------------------------------------
(* The replay.                                                             *)

\* The replay works on the rows of r, the id of the record it is at.
ReplayMove(hist, r) ==
  /\ Closed(hist) /\ at \in 1..Len(log) /\ r = log[at].real
  /\ phase \in {"replaying", "dropping"} /\ phase' \in {"replaying", "dropping"}
  /\ IF phase' = "dropping" THEN at' = at ELSE at' = at + 1
  /\ UNCHANGED <<main, prev, log, want, blurred>>
  /\ \A i : SameRow(rows, rows', i) \/ Belongs(log, i, r)

LEMMA ReplayFacts ==
  ASSUME NEW hist, NEW r, ReplayMove(hist, r)
  PROVE  /\ Telling(log, hist) /\ Linked(log, hist) /\ r \in RealIds /\ at \in 1..Len(log) /\ at \in Nat
         /\ Len(log) \in Nat /\ Len(log) \in 0..Len(log) /\ r = log[at].real
         /\ \A q \in RealIds : Due(q)' = IF phase' = "dropping" THEN Due(q) ELSE Due(q) \ {at}
         /\ \A q \in RealIds : q # r => Due(q)' = Due(q)
<1>1. /\ Telling(log, hist) /\ Linked(log, hist) /\ at \in 1..Len(log) /\ Len(log) \in Nat
      /\ Len(log) \in 0..Len(log) /\ r = log[at].real
  BY ClosedFacts DEF ReplayMove
<1>2. r \in RealIds /\ at \in Nat
  BY <1>1, TellingFacts
<1>3. Loadable' = Loadable /\ log' = log
  BY DEF ReplayMove, Loadable
<1>4. phase # "down" /\ phase' # "down" /\ IF phase' = "dropping" THEN at' = at ELSE at' = at + 1
  BY DEF ReplayMove
<1>5. ASSUME NEW q \in RealIds
      PROVE  Due(q)' = IF phase' = "dropping" THEN Due(q) ELSE Due(q) \ {at}
  <2>1. Due(q) = {k \in 1..Len(log) : /\ log[k].real = q
                                      /\ \A f \in Loadable : f.lsn < k
                                      /\ k >= at}
    BY <1>4 DEF Due
  <2>2. Due(q)' = {k \in 1..Len(log) : /\ log[k].real = q
                                       /\ \A f \in Loadable : f.lsn < k
                                       /\ k >= at'}
    BY <1>3, <1>4 DEF Due
  <2>3. CASE phase' = "dropping"
    BY <1>4, <2>1, <2>2, <2>3
  <2>4. CASE phase' # "dropping"
    <3>1. \A k \in 1..Len(log) : k >= at' <=> k >= at /\ k # at
      BY <1>1, <1>2, <1>4, <2>4
    <3> QED
      BY <2>1, <2>2, <2>4, <3>1
  <2> QED
    BY <2>3, <2>4
<1>6. ASSUME NEW q \in RealIds, q # r
      PROVE  Due(q)' = Due(q)
  <2>1. at \notin Due(q)
    BY <1>1, <1>6 DEF Due
  <2> QED
    BY <1>5, <2>1
<1> QED
  BY <1>1, <1>2, <1>5, <1>6

\* The other ids are left alone.
LEMMA ReplayOthers ==
  ASSUME NEW hist, NEW r, ReplayMove(hist, r), NEW q \in RealIds, q # r, q \notin blurred
  PROVE  Recoverable(hist, q)'
<1>1. Recoverable(hist, q)
  BY ClosedFacts, ReplayFacts DEF ReplayMove
<1>2. Telling(log, hist) /\ r \in RealIds /\ Due(q)' = Due(q) /\ at \in 1..Len(log) /\ Len(log) \in 0..Len(log)
  BY ReplayFacts
<1>3. log' = log /\ want' = want
  BY DEF ReplayMove
<1>4. SameRows(rows, rows', log, q)
  <2>1. ASSUME NEW i, Belongs(log, i, q)
        PROVE  SameRow(rows, rows', i)
    <3>1. ~Belongs(log, i, r)
      BY <1>2, <2>1, BelongsToOne
    <3> QED
      BY <3>1 DEF ReplayMove
  <2> QED
    BY <2>1 DEF SameRows
<1>5. PICK p : p = hist[Len(log)][q]
  OBVIOUS
<1>6. PICK y : y = rows'
  OBVIOUS
<1>7. /\ FinalRow(y, log, p) = FinalRow(rows, log, p)
      /\ RowsKept(log, hist, rows, q, Due(q)) => RowsKept(log, hist, y, q, Due(q))
  BY <1>2, <1>4, <1>5, <1>6, RowsFrame
<1>8. RowsKept(log', hist, rows', q, Due(q)')
  BY <1>1, <1>2, <1>3, <1>6, <1>7 DEF Recoverable
<1>9. LastValue(hist, q)' \in want'[q]
  <2>1. LastValue(hist, q)' = LastValue(hist, q)
    BY <1>3, <1>5, <1>6, <1>7 DEF LastValue, Final, Past0
  <2> QED
    BY <1>1, <1>3, <2>1 DEF Recoverable
<1>10. ~(phase' = "dropping" /\ Past0(hist, q)'.last = at')
  <2> SUFFICES ASSUME phase' = "dropping", Past0(hist, q)'.last = at'
               PROVE  FALSE
    OBVIOUS
  <2>1. at' = at /\ p.last = at
    BY <1>3, <1>5 DEF ReplayMove, Past0
  <2>2. PICK m : m = p.last
    OBVIOUS
  <2>3. m > 0 => log[m].real = q
    BY <1>2, <1>5, <2>2, LastRecord
  <2>4. log[at].real = q
    BY <1>2, <2>1, <2>2, <2>3
  <2> QED
    BY <2>4 DEF ReplayMove
<1> QED
  BY <1>8, <1>9, <1>10 DEF Recoverable

\* What a step of the replay has to show.
LEMMA ReplayStepRemembers ==
  ASSUME NEW hist, NEW r, ReplayMove(hist, r), IInv', r \notin blurred => Recoverable(hist, r)'
  PROVE  Remembered(hist)'
<1>1. /\ Closed(hist) /\ phase' # "open" /\ log' = log /\ want' = want /\ blurred' = blurred
  BY DEF ReplayMove
<1>2. /\ Linked(log, hist) /\ DOMAIN want' = RealIds
      /\ \A q \in RealIds : want'[q] # {} /\ \E u \in want'[q] : u[1] = Past0(hist, q).now.vec
  BY <1>1, ClosedFacts
<1>3. \A q \in RealIds : q \notin blurred' => Recoverable(hist, q)'
  BY <1>1, ReplayOthers
<1>4. ASSUME NEW i \in DOMAIN rows'
      PROVE  \E q \in RealIds : Belongs(log, i, q)
  <2>1. CASE Belongs(log, i, r)
    BY <2>1, ReplayFacts
  <2>2. CASE ~Belongs(log, i, r)
    <3>1. i \in DOMAIN rows
      BY <2>2 DEF ReplayMove, SameRow
    <3> QED
      BY <1>1, <3>1, ClosedFacts
  <2> QED
    BY <2>1, <2>2
<1> QED
  BY <1>1, <1>2, <1>3, <1>4, ClosedRemembers

\* A record is done with.
LEMMA RecordDone ==
  ASSUME NEW l, NEW hist, NEW r, NEW y, NEW E, NEW n, RowsKept(l, hist, y, r, E),
         l[n].op = "insert" \/ l[n].old \notin DOMAIN y,
         hist[Len(l)][r].last = n => ~Pending(y, l, hist[Len(l)][r])
  PROVE  RowsKept(l, hist, y, r, E \ {n})
<1>1. \A k \in E : k \in E \ {n} \/ ~(Supersedes(l, hist, k) /\ l[k].old \in DOMAIN y)
  BY DEF Supersedes
<1>2. Pending(y, l, hist[Len(l)][r]) => hist[Len(l)][r].last \in E \ {n}
  BY DEF RowsKept
<1> QED
  BY <1>1, <1>2, RowsShrink

LEMMA ReplayDropRowRemembers ==
  ASSUME NEW hist, Closed(hist), IInv', ReplayDropRow
  PROVE  Remembered(hist)'
<1>1. /\ phase = "dropping" /\ phase' = "replaying" /\ at' = at + 1
      /\ rows' = Without(rows, log[at].old)
      /\ UNCHANGED <<main, prev, log, want, blurred>>
  BY DEF ReplayDropRow, durable, ghosts
<1>2. Types /\ Control /\ Telling(log, hist)
  BY ClosedFacts
<1>3. at \in 1..Len(log) /\ log[at].op = "update"
  BY <1>1, <1>2 DEF Types, Control
<1>4. PICK r : r = log[at].real
  OBVIOUS
<1>5. r \in RealIds /\ Belongs(log, log[at].old, r)
  BY <1>2, <1>3, <1>4, TellingFacts, OldVersion
<1>6. PICK y : y = rows' /\ y = Without(rows, log[at].old)
  BY <1>1
<1>7. \A i : SameRow(rows, rows', i) \/ Belongs(log, i, r)
  BY <1>5, <1>6, WithoutRows
<1>8. ReplayMove(hist, r)
  BY <1>1, <1>3, <1>4, <1>7 DEF ReplayMove
<1>9. ASSUME r \notin blurred
      PROVE  Recoverable(hist, r)'
  <2>1. Recoverable(hist, r)
    BY <1>5, <1>9, ClosedFacts
  <2>2. PICK p : p = hist[Len(log)][r]
    OBVIOUS
  <2>3. RowsKept(log, hist, rows, r, Due(r)) /\ ~(at = p.last /\ Pending(rows, log, p))
    BY <1>1, <2>1, <2>2 DEF Recoverable, Past0
  <2>4. log[at].op # "insert" /\ log[at].real = r
    BY <1>3, <1>4
  <2>5. /\ RowsKept(log, hist, y, r, Due(r)) /\ (Pending(y, log, p) <=> Pending(rows, log, p))
        /\ FinalRow(y, log, p) = FinalRow(rows, log, p)
    BY <1>2, <1>3, <1>5, <1>6, <2>2, <2>3, <2>4, DropOld
  <2>6. log[at].old \notin DOMAIN y
    BY <1>6, WithoutRows
  <2>7. RowsKept(log, hist, y, r, Due(r) \ {at})
    BY <2>2, <2>3, <2>5, <2>6, RecordDone
  <2>8. Due(r)' = Due(r) \ {at}
    BY <1>1, <1>5, <1>8, ReplayFacts
  <2>9. RowsKept(log', hist, rows', r, Due(r)')
    BY <1>1, <1>6, <2>7, <2>8
  <2>10. LastValue(hist, r)' \in want'[r]
    <3>1. LastValue(hist, r)' = LastValue(hist, r)
      BY <1>1, <1>6, <2>2, <2>5 DEF LastValue, Final, Past0
    <3> QED
      BY <1>1, <2>1, <3>1 DEF Recoverable
  <2> QED
    BY <1>1, <2>9, <2>10 DEF Recoverable
<1> QED
  BY <1>8, <1>9, ReplayStepRemembers

\* What the replay of record n makes of the rows t of its id, whose records
\* from n on are in E.
RowsReplayed(l, hist, t, n, r, E, y) ==
  LET p == hist[Len(l)][r]
  IN /\ RowsKept(l, hist, y, r, E)
     /\ FinalRow(y, l, p) = FinalRow(t, l, p)
     /\ p.last = n => ~Pending(y, l, p)
     /\ l[n].op = "delete" => l[n].old \notin DOMAIN y
     /\ \A i : SameRow(t, y, i) \/ Belongs(l, i, r)

\* The replay of an upsert fills in a row or leaves the rows.
LEMMA UpsertRows ==
  ASSUME NEW rec, rec.op # "delete", NEW t, NEW y, y = ReplayedRows(t, rec)
  PROVE  \/ /\ rec.new \notin DOMAIN t
            /\ \E v : /\ y = Set(t, rec.new, v)
                      /\ IF rec.arg # Absent THEN v = rec.arg
                         ELSE rec.op = "update" /\ rec.old \in DOMAIN t /\ v = t[rec.old]
         \/ /\ y = t
            /\ rec.new \in DOMAIN t \/ (rec.arg = Absent /\ ~(rec.op = "update" /\ rec.old \in DOMAIN t))
<1>1. CASE rec.new \in DOMAIN t
  BY <1>1 DEF ReplayedRows
<1>2. CASE rec.new \notin DOMAIN t /\ rec.arg # Absent
  <2>1. y = Set(t, rec.new, rec.arg)
    BY <1>2 DEF ReplayedRows
  <2> QED
    BY <1>2, <2>1
<1>3. CASE rec.new \notin DOMAIN t /\ rec.arg = Absent /\ rec.op = "update" /\ rec.old \in DOMAIN t
  <2>1. y = Set(t, rec.new, t[rec.old])
    BY <1>3 DEF ReplayedRows
  <2> QED
    BY <1>3, <2>1
<1>4. CASE rec.new \notin DOMAIN t /\ rec.arg = Absent /\ ~(rec.op = "update" /\ rec.old \in DOMAIN t)
  BY <1>4 DEF ReplayedRows
<1> QED
  BY <1>1, <1>2, <1>3, <1>4

LEMMA UpsertRowsReplayed ==
  ASSUME NEW l, NEW hist, Telling(l, hist), Linked(l, hist), NEW n \in 1..Len(l), NEW r, r = l[n].real,
         NEW t, NEW E, RowsKept(l, hist, t, r, E), Issues(l[n]),
         \A k \in (n+1)..Len(l) : l[k].real = r => k \in E,
         NEW y, y = ReplayedRows(t, l[n])
  PROVE  RowsReplayed(l, hist, t, n, r, E, y)
<1>1. r \in RealIds /\ l[n].op # "delete"
  BY TellingFacts DEF Issues
<1>2. PICK p : p = hist[Len(l)][r]
  OBVIOUS
<1>3. CASE \E v : Fills(l, t, n, v) /\ y = Set(t, l[n].new, v)
  <2>1. PICK v : Fills(l, t, n, v) /\ y = Set(t, l[n].new, v)
    BY <1>3
  <2>2. RowsKept(l, hist, y, r, E)
    BY <1>1, <2>1, FillKept
  <2>3. FinalRow(y, l, p) = FinalRow(t, l, p) /\ (n = p.last => ~Pending(y, l, p))
    BY <1>1, <1>2, <2>1, FillFinal
  <2>4. Belongs(l, l[n].new, r)
    BY DEF Belongs
  <2>5. \A i : SameRow(t, y, i) \/ Belongs(l, i, r)
    BY <2>1, <2>4, SetRows
  <2> QED
    BY <1>1, <1>2, <2>2, <2>3, <2>5 DEF RowsReplayed
<1>4. CASE y = t /\ (l[n].new \in DOMAIN t \/ (l[n].arg = Absent /\ ~(l[n].op = "update" /\ l[n].old \in DOMAIN t)))
  <2>1. ASSUME p.last = n
        PROVE  ~Pending(t, l, p)
    <3>1. Len(l) \in Nat /\ Len(l) \in 0..Len(l) /\ n > 0
      BY TellingFacts
    <3>2. PICK m : m = p.last
      OBVIOUS
    <3>3. m > 0 => p.now = After(l[m])
      BY <1>1, <1>2, <3>1, <3>2, LastRecord
    <3>4. p.now = After(l[n])
      BY <2>1, <3>1, <3>2, <3>3
    <3>5. p.now.ver = l[n].new
      BY <1>1, <3>4, AfterFields
    <3> QED
      BY <1>4, <2>1, <3>5 DEF Pending, Sourced
  <2>2. \A i : SameRow(t, y, i)
    BY <1>4 DEF SameRow
  <2> QED
    BY <1>1, <1>2, <1>4, <2>1, <2>2 DEF RowsReplayed
<1> QED
  <2>1. CASE l[n].new \notin DOMAIN t /\ \E v : /\ y = Set(t, l[n].new, v)
                      /\ IF l[n].arg # Absent THEN v = l[n].arg
                         ELSE l[n].op = "update" /\ l[n].old \in DOMAIN t /\ v = t[l[n].old]
    BY <1>3, <2>1 DEF Fills
  <2> QED
    BY <1>1, <1>4, <2>1, UpsertRows

LEMMA DeleteRowsReplayed ==
  ASSUME NEW l, NEW hist, Telling(l, hist), NEW n \in 1..Len(l), NEW r, r = l[n].real,
         NEW t, NEW E, RowsKept(l, hist, t, r, E), l[n].op = "delete",
         NEW y, y = ReplayedRows(t, l[n])
  PROVE  RowsReplayed(l, hist, t, n, r, E, y)
<1>1. r \in RealIds
  BY TellingFacts
<1>2. PICK p : p = hist[Len(l)][r]
  OBVIOUS
<1>3. l[n].new = l[n].old /\ Belongs(l, l[n].old, r)
  BY OldVersion
<1>4. y = Without(t, l[n].old)
  BY <1>3 DEF ReplayedRows
<1>5. ~(n = p.last /\ Pending(t, l, p))
  <2>1. Len(l) \in Nat /\ Len(l) \in 0..Len(l) /\ n > 0
    BY TellingFacts
  <2>2. PICK m : m = p.last
    OBVIOUS
  <2>3. m > 0 => p.now = After(l[m])
    BY <1>1, <1>2, <2>1, <2>2, LastRecord
  <2>4. n = p.last => p.now = After(l[n])
    BY <2>1, <2>2, <2>3
  <2>5. n = p.last => p.now.vec = Gone
    BY <2>4, AfterFields
  <2> QED
    BY <2>5 DEF Pending
<1>6. l[n].op # "insert"
  OBVIOUS
<1>7. /\ RowsKept(l, hist, y, r, E) /\ (Pending(y, l, p) <=> Pending(t, l, p))
      /\ FinalRow(y, l, p) = FinalRow(t, l, p)
  BY <1>1, <1>2, <1>4, <1>5, <1>6, DropOld
<1>8. l[n].old \notin DOMAIN y /\ \A i : SameRow(t, y, i) \/ Belongs(l, i, r)
  BY <1>3, <1>4, WithoutRows
<1> QED
  BY <1>2, <1>5, <1>7, <1>8 DEF RowsReplayed

LEMMA ReplayRecordRemembers ==
  ASSUME NEW hist, Closed(hist), IInv', ReplayRecord
  PROVE  Remembered(hist)'
<1>1. /\ phase = "replaying" /\ at <= Len(log)
      /\ rows' = ReplayedRows(rows, log[at])
      /\ IF log[at].op = "update" THEN phase' = "dropping" /\ UNCHANGED at
                                  ELSE at' = at + 1 /\ UNCHANGED phase
      /\ UNCHANGED <<main, prev, log, want, blurred>>
  BY DEF ReplayRecord, durable, ghosts
<1>2. Telling(log, hist) /\ Linked(log, hist)
  BY ClosedFacts
<1>3. at \in 1..Len(log) /\ at \in Nat /\ \A f \in Loadable : f.lsn \in Nat /\ f.lsn <= at - 1
  BY <1>1, ReplayingFacts DEF Closed
<1>4. PICK r : r = log[at].real
  OBVIOUS
<1>5. r \in RealIds /\ log[at].op \in {"insert", "update", "delete"} /\ Len(log) \in Nat
  BY <1>2, <1>3, <1>4, TellingFacts
<1>6. PICK y : y = rows' /\ y = ReplayedRows(rows, log[at])
  BY <1>1
<1>7. PICK E : E = Due(r)
  OBVIOUS
<1>8. \A k \in (at+1)..Len(log) : log[k].real = r => k \in E
  <2> SUFFICES ASSUME NEW k \in (at+1)..Len(log), log[k].real = r PROVE k \in E
    OBVIOUS
  <2>1. k \in 1..Len(log) /\ k >= at /\ \A f \in Loadable : f.lsn < k
    BY <1>3, <1>5
  <2> QED
    BY <1>7, <2>1 DEF Due
<1>9. RowsKept(log, hist, rows, r, E) => RowsReplayed(log, hist, rows, at, r, E, y)
  <2> SUFFICES ASSUME RowsKept(log, hist, rows, r, E) PROVE RowsReplayed(log, hist, rows, at, r, E, y)
    OBVIOUS
  <2>1. CASE Issues(log[at])
    BY <1>2, <1>3, <1>4, <1>6, <1>8, <2>1, UpsertRowsReplayed
  <2>2. CASE log[at].op = "delete"
    BY <1>2, <1>3, <1>4, <1>6, <2>2, DeleteRowsReplayed
  <2> QED
    BY <1>5, <2>1, <2>2 DEF Issues
<1>10. \A i : SameRow(rows, rows', i) \/ Belongs(log, i, r)
  <2>1. CASE Issues(log[at])
    <3>1. log[at].op # "delete" /\ Belongs(log, log[at].new, r)
      BY <1>3, <1>4, <2>1 DEF Issues, Belongs
    <3>2. y = rows \/ \E v : y = Set(rows, log[at].new, v)
      BY <1>6, <3>1, UpsertRows
    <3>3. CASE y = rows
      BY <1>6, <3>3 DEF SameRow
    <3>4. CASE \E v : y = Set(rows, log[at].new, v)
      BY <1>6, <3>1, <3>4, SetRows
    <3> QED
      BY <3>2, <3>3, <3>4
  <2>2. CASE log[at].op = "delete"
    <3>1. log[at].new = log[at].old /\ Belongs(log, log[at].old, r)
      BY <1>2, <1>3, <1>4, <2>2, OldVersion
    <3>2. y = Without(rows, log[at].old)
      BY <1>6, <2>2, <3>1 DEF ReplayedRows
    <3> QED
      BY <1>6, <3>1, <3>2, WithoutRows
  <2> QED
    BY <1>5, <2>1, <2>2 DEF Issues
<1>11. ReplayMove(hist, r)
  BY <1>1, <1>3, <1>4, <1>10 DEF ReplayMove
<1>12. ASSUME r \notin blurred
       PROVE  Recoverable(hist, r)'
  <2>1. Recoverable(hist, r)
    BY <1>5, <1>12, ClosedFacts
  <2>2. PICK p : p = hist[Len(log)][r]
    OBVIOUS
  <2>3. /\ RowsKept(log, hist, y, r, E) /\ FinalRow(y, log, p) = FinalRow(rows, log, p)
        /\ p.last = at => ~Pending(y, log, p)
        /\ log[at].op = "delete" => log[at].old \notin DOMAIN y
    <3>1. RowsReplayed(log, hist, rows, at, r, E, y)
      BY <1>7, <1>9, <2>1 DEF Recoverable
    <3> QED
      BY <2>2, <3>1 DEF RowsReplayed
  <2>4. LastValue(hist, r)' \in want'[r]
    <3>1. LastValue(hist, r)' = LastValue(hist, r)
      BY <1>1, <1>6, <2>2, <2>3 DEF LastValue, Final, Past0
    <3> QED
      BY <1>1, <2>1, <3>1 DEF Recoverable
  <2>5. RowsKept(log', hist, rows', r, Due(r)')
    <3>1. CASE log[at].op = "update"
      <4>1. Due(r)' = E
        BY <1>1, <1>5, <1>7, <1>11, <3>1, ReplayFacts
      <4> QED
        BY <1>1, <1>6, <2>3, <4>1
    <3>2. CASE log[at].op # "update"
      <4>1. Due(r)' = E \ {at}
        BY <1>1, <1>5, <1>7, <1>11, <3>2, ReplayFacts
      <4>2. log[at].op = "insert" \/ log[at].old \notin DOMAIN y
        BY <1>5, <2>3, <3>2
      <4>3. RowsKept(log, hist, y, r, E \ {at})
        BY <2>2, <2>3, <4>2, RecordDone
      <4> QED
        BY <1>1, <1>6, <4>1, <4>3
    <3> QED
      BY <3>1, <3>2
  <2>6. phase' = "dropping" /\ Past0(hist, r)'.last = at' => ~Pending(rows', log', Past0(hist, r)')
    <3>1. phase' = "dropping" => at' = at
      BY <1>1
    <3>2. Past0(hist, r)' = p
      BY <1>1, <2>2 DEF Past0
    <3> QED
      BY <1>1, <1>6, <2>3, <3>1, <3>2
  <2> QED
    BY <2>4, <2>5, <2>6 DEF Recoverable
<1> QED
  BY <1>11, <1>12, ReplayStepRemembers

-----------------------------------------------------------------------------
(* What an id holds between calls.                                         *)

\* The index and the log agree on r, and nothing is left to carry out.
Rests(hist, r) ==
  /\ Past0(hist, r).now = Now(ix, r)
  /\ \E u \in want[r] : u[1] = Past0(hist, r).now.vec
  /\ r \notin blurred => RowsKept(log, hist, rows, r, {}) /\ LastValue(hist, r) \in want[r]

LEMMA OpenRests ==
  ASSUME NEW hist, Opened(hist), NEW r \in RealIds, ~Overlaps(r)
  PROVE  Rests(hist, r)
<1>1. \A c \in Holding : c.real # r
  BY DEF Holding, Overlaps
<1>2. LoggedCalls(r) = {} /\ Past0(hist, r).now = Now(ix, r)
  BY <1>1, FreeId
<1>3. KeptVector(hist, r) /\ (r \notin blurred => Recalled(hist, r))
  BY OpenedFacts
<1>4. \E u \in want[r] : u[1] = Past0(hist, r).now.vec
  BY <1>2, <1>3 DEF KeptVector
<1>5. Lsns(LoggedCalls(r)) = {}
  BY <1>2 DEF Lsns
<1>6. ASSUME r \notin blurred
      PROVE  RowsKept(log, hist, rows, r, {}) /\ LastValue(hist, r) \in want[r]
  BY <1>2, <1>3, <1>5, <1>6 DEF Recalled
<1> QED
  BY <1>2, <1>4, <1>6 DEF Rests

LEMMA ReplayedRests ==
  ASSUME NEW hist, Closed(hist), phase = "replayed", NEW r \in RealIds
  PROVE  Rests(hist, r)
<1>1. Types /\ Control /\ Len(log) \in Nat
  BY ClosedFacts
<1>2. at = Len(log) + 1
  BY <1>1 DEF Control
<1>3. Due(r) = {}
  <2> SUFFICES ASSUME NEW k \in Due(r) PROVE FALSE
    OBVIOUS
  <2>1. k \in 1..Len(log) /\ k >= at
    BY DEF Due
  <2> QED
    BY <1>1, <1>2, <2>1
<1>4. Past0(hist, r).now = Now(ix, r)
  <2>1. Told(hist) /\ Horizon = Len(log)
    BY DEF Closed, Whole, Horizon
  <2>2. Abreast(hist, ix, Len(log))
    BY <2>1 DEF Told
  <2> QED
    BY <2>2 DEF Abreast, Past0
<1>5. \E u \in want[r] : u[1] = Past0(hist, r).now.vec
  BY ClosedFacts
<1>6. r \notin blurred => RowsKept(log, hist, rows, r, {}) /\ LastValue(hist, r) \in want[r]
  BY <1>3, ClosedFacts DEF Recoverable
<1> QED
  BY <1>4, <1>5, <1>6 DEF Rests

\* What a reader gets.
LEMMA RestingValue ==
  ASSUME NEW hist, ix \in Index, NEW r \in RealIds, Rests(hist, r)
  PROVE  /\ Value(ix, rows, r)[1] = Past0(hist, r).now.vec
         /\ r \notin blurred => Value(ix, rows, r) = LastValue(hist, r)
<1>1. PICK p : p = Past0(hist, r)
  OBVIOUS
<1>2. p.now = Now(ix, r)
  BY <1>1 DEF Rests
<1>3. /\ p.now.ver = resolve_internal(ix, r)
      /\ is_alive(ix, r) <=> p.now.vec # Gone
      /\ is_alive(ix, r) => p.now.vec = ix.vecs[resolve_internal(ix, r)]
  BY <1>2, NowFacts
<1>4. Value(ix, rows, r)[1] = p.now.vec
  BY <1>3 DEF Value
<1>5. ASSUME r \notin blurred
      PROVE  Value(ix, rows, r) = <<p.now.vec, FinalRow(rows, log, p)>>
  <2>1. CASE p.now.vec = Gone
    BY <1>3, <2>1 DEF Value, FinalRow
  <2>2. CASE p.now.vec # Gone
    <3>1. Value(ix, rows, r) = <<p.now.vec, IF p.now.ver \in DOMAIN rows THEN rows[p.now.ver] ELSE {}>>
      BY <1>3, <2>2 DEF Value, PayloadOf
    <3>2. ~Pending(rows, log, p)
      BY <1>1, <1>5 DEF Rests, RowsKept, Past0
    <3>3. FinalRow(rows, log, p) = IF p.now.ver \in DOMAIN rows THEN rows[p.now.ver] ELSE {}
      BY <2>2, <3>2 DEF Pending, FinalRow
    <3> QED
      BY <3>1, <3>3
  <2> QED
    BY <2>1, <2>2
<1> QED
  BY <1>1, <1>4, <1>5 DEF LastValue, Final

-----------------------------------------------------------------------------
(* The end of the recovery, and the start.                                 *)

LEMMA FinishOpenRemembers ==
  ASSUME NEW hist, Closed(hist), used.failures = 0, FinishOpen
  PROVE  Remembered(hist)'
<1>1. /\ phase = "replayed" /\ phase' = "open" /\ UNCHANGED <<rows, log, local, blurred>>
      /\ want' = [r \in RealIds |-> {Value(ix, rows, r)}]
  BY DEF FinishOpen, RecoveredWant
<1>2. /\ Linked(log, hist) /\ \A i \in DOMAIN rows : \E r \in RealIds : Belongs(log, i, r)
      /\ ix \in Index /\ \A w \in Writers : local[w] = Idle
  BY ClosedFacts DEF Types
<1>3. \A w \in Writers : ~IsPayload(local'[w])
  BY <1>1, <1>2 DEF IsPayload, Idle
<1>4. ASSUME NEW r \in RealIds
      PROVE  Kept(hist, r)'
  <2>1. LoggedCalls(r)' = {}
    <3>1. Holding' = {}
      BY <1>1, <1>2 DEF Holding, Busy, Idle
    <3> QED
      BY <3>1 DEF LoggedCalls
  <2>2. Rests(hist, r)
    BY <1>1, ReplayedRests
  <2>3. /\ Value(ix, rows, r)[1] = Past0(hist, r).now.vec
        /\ r \notin blurred => Value(ix, rows, r) = LastValue(hist, r)
    BY <1>2, <2>2, RestingValue
  <2>4. Past0(hist, r)' = Past0(hist, r) /\ LastValue(hist, r)' = LastValue(hist, r)
    BY <1>1 DEF Past0, LastValue
  <2>5. want'[r] = {Value(ix, rows, r)}
    BY <1>1
  <2>6. KeptVector(hist, r)'
    <3>1. \E u \in want'[r] : u[1] = Past0(hist, r)'.now.vec
      BY <2>3, <2>4, <2>5
    <3> QED
      BY <2>5, <3>1 DEF KeptVector
  <2>7. ASSUME r \notin blurred'
        PROVE  Recalled(hist, r)'
    <3>1. RowsKept(log, hist, rows, r, {})
      BY <1>1, <2>2, <2>7 DEF Rests
    <3>2. Lsns(LoggedCalls(r)') = {}
      BY <2>1 DEF Lsns
    <3>3. RowsKept(log', hist, rows', r, Lsns(LoggedCalls(r)'))
      BY <1>1, <3>1, <3>2
    <3>4. want'[r] = {LastValue(hist, r)'}
      BY <1>1, <2>3, <2>4, <2>5, <2>7
    <3> QED
      BY <1>3, <2>1, <3>3, <3>4 DEF Recalled
  <2> QED
    BY <1>1, <2>6, <2>7 DEF Kept
<1>5. Linked(log', hist) /\ (\A i \in DOMAIN rows' : \E r \in RealIds : Belongs(log', i, r))
      /\ DOMAIN want' = RealIds
  BY <1>1, <1>2
<1> QED
  BY <1>3, <1>4, <1>5 DEF Remembered

\* A step of which nothing here tells.
LEMMA SameRemembers ==
  ASSUME NEW hist, Remembered(hist), UNCHANGED <<phase, rows, log, local, want, blurred>>,
         phase = "open" \/ UNCHANGED <<main, prev, at>>
  PROVE  Remembered(hist)'
<1>1. \A r \in RealIds : Past0(hist, r)' = Past0(hist, r) /\ LastValue(hist, r)' = LastValue(hist, r)
  BY DEF Past0, LastValue
<1>2. Holding' = Holding /\ \A r \in RealIds : LoggedCalls(r)' = LoggedCalls(r)
  <2>1. Holding' = Holding
    BY DEF Holding, Busy
  <2> QED
    BY <2>1 DEF LoggedCalls
<1>3. ASSUME NEW r \in RealIds
      PROVE  Kept(hist, r)'
  <2>1. Kept(hist, r) /\ KeptVector(hist, r)
    BY DEF Remembered, Kept
  <2>2. KeptVector(hist, r)'
    BY <1>1, <1>2, <2>1 DEF KeptVector
  <2>3. ASSUME r \notin blurred, phase = "open"
        PROVE  Recalled(hist, r)'
    <3>1. Recalled(hist, r)
      BY <2>1, <2>3 DEF Kept
    <3>2. \A c : Outcomes(c)' = Outcomes(c)
      BY DEF Outcomes
    <3>3. \A w : Alone(w)' = Alone(w)
      BY DEF Alone, Busy
    <3> QED
      BY <1>1, <1>2, <3>1, <3>2, <3>3 DEF Recalled
  <2>4. ASSUME r \notin blurred, phase # "open"
        PROVE  Recoverable(hist, r)'
    <3>1. Recoverable(hist, r)
      BY <2>1, <2>4 DEF Kept
    <3>2. Due(r)' = Due(r) /\ at' = at
      BY <2>4 DEF Due, Loadable
    <3> QED
      BY <1>1, <3>1, <3>2 DEF Recoverable
  <2> QED
    BY <2>2, <2>3, <2>4 DEF Kept
<1>4. /\ DOMAIN want' = RealIds /\ Linked(log', hist)
      /\ \A i \in DOMAIN rows' : \E r \in RealIds : Belongs(log', i, r)
      /\ \A w \in Writers : IsPayload(local'[w]) => Belongs(log', local'[w].new, local'[w].real)
  BY DEF Remembered
<1> QED
  BY <1>3, <1>4 DEF Remembered

\* The first state of an id.
LEMMA InitRecalled ==
  ASSUME NEW hist, Init, Told(hist), NEW b \in Loads, ix = BulkLoaded(b), rows = [i \in DOMAIN b |-> {}],
         NEW r \in RealIds, NEW p, p = hist[0][r]
  PROVE  /\ p.now.vec = (IF r \in DOMAIN b THEN b[r] ELSE Gone)
         /\ RowsKept(log, hist, rows, r, {}) /\ FinalRow(rows, log, p) = {}
<1>1. log = <<>> /\ Len(log) = 0 /\ main = [lsn |-> 0, ix |-> ix]
  BY DEF Init
<1>2. main \in Loadable
  BY <1>1 DEF Loadable, NoFile, Damaged
<1>3. p.now = Now(ix, r)
  BY <1>1, <1>2 DEF Told, Abreast
<1>4. /\ DOMAIN b \subseteq RealIds /\ b \in [DOMAIN b -> Vecs]
      /\ ix.vecs = b /\ ix.tomb = {} /\ DOMAIN ix.fwd = {}
  BY LoadsAssumption DEF BulkLoaded, EmptyIndex, Empty
<1>5. resolve_internal(ix, r) = r /\ (is_alive(ix, r) <=> r \in DOMAIN b)
  BY <1>4 DEF resolve_internal, is_alive
<1>6. p.now.ver = r /\ p.now.vec = (IF r \in DOMAIN b THEN b[r] ELSE Gone)
  BY <1>3, <1>4, <1>5 DEF Now
<1>7. p.last = 0 /\ ~p.bare
  BY <1>1 DEF Told, Tells, Fresh
<1>8. p.now.vec # Gone <=> r \in DOMAIN b
  BY <1>4, <1>6, TokensAssumption
<1>9. DOMAIN rows = DOMAIN b
  OBVIOUS
<1>10. ~Sourced(rows, log, p) /\ ~Pending(rows, log, p)
  BY <1>7 DEF Sourced, Pending
<1>11. FinalRow(rows, log, p) = {}
  BY <1>6, <1>8, <1>9, <1>10 DEF FinalRow
<1>12. 1..Len(log) = {}
  BY <1>1
<1>13. BareRows(log, hist, rows, r)
  BY <1>12 DEF BareRows
<1>14. \A i \in DOMAIN rows : Belongs(log, i, r) => p.now.vec # Gone /\ i = p.now.ver
  BY <1>6, <1>8, <1>9, <1>12 DEF Belongs
<1>15. p = hist[Len(log)][r]
  BY <1>1
<1>16. RowsKept(log, hist, rows, r, {})
  BY <1>6, <1>8, <1>9, <1>10, <1>13, <1>14, <1>15 DEF RowsKept
<1> QED
  BY <1>6, <1>11, <1>16

LEMMA InitRemembers ==
  ASSUME NEW hist, Init, Whole(hist), enable_oplog
  PROVE  Remembered(hist)
<1>1. /\ phase = "open" /\ log = <<>> /\ Len(log) = 0 /\ \A w \in Writers : local[w] = Idle
  BY DEF Init
<1>2. PICK b \in Loads : /\ ix = BulkLoaded(b) /\ rows = [i \in DOMAIN b |-> {}]
                         /\ want = [r \in RealIds |-> {IF r \in DOMAIN b THEN <<b[r], {}>> ELSE <<Gone, {}>>}]
  BY DEF Init
<1>3. Told(hist) /\ Holding = {}
  BY <1>1, NoneHeld DEF Whole, Busy, Idle
<1>4. \A w \in Writers : ~IsPayload(local[w])
  BY <1>1 DEF IsPayload, Idle
<1>5. 1..Len(log) = {}
  BY <1>1
<1>6. ASSUME NEW r \in RealIds
      PROVE  Kept(hist, r)
  <2>1. PICK p : p = hist[0][r]
    OBVIOUS
  <2>2. /\ p.now.vec = (IF r \in DOMAIN b THEN b[r] ELSE Gone)
        /\ RowsKept(log, hist, rows, r, {}) /\ FinalRow(rows, log, p) = {}
    BY <1>2, <1>3, <2>1, InitRecalled
  <2>3. Past0(hist, r) = p
    BY <1>1, <2>1 DEF Past0
  <2>4. want[r] = {<<p.now.vec, {}>>}
    BY <1>2, <2>2
  <2>5. want[r] = {LastValue(hist, r)}
    BY <2>2, <2>3, <2>4 DEF LastValue, Final
  <2>6. LoggedCalls(r) = {} /\ Lsns(LoggedCalls(r)) = {}
    BY <1>3 DEF LoggedCalls, Lsns
  <2>7. KeptVector(hist, r)
    BY <2>3, <2>4 DEF KeptVector
  <2>8. Recalled(hist, r)
    BY <1>4, <2>2, <2>5, <2>6 DEF Recalled
  <2> QED
    BY <1>1, <2>7, <2>8 DEF Kept
<1>7. Linked(log, hist)
  BY <1>5 DEF Linked
<1>8. \A i \in DOMAIN rows : \E r \in RealIds : Belongs(log, i, r)
  BY <1>2, LoadsAssumption DEF Belongs
<1>9. DOMAIN want = RealIds
  BY <1>2
<1> QED
  BY <1>4, <1>6, <1>7, <1>8, <1>9 DEF Remembered

\* A store keeps its log or it does not.
LEMMA ModeKept ==
  ASSUME [Next]_vars
  PROVE  enable_oplog' = enable_oplog
<1>1. ASSUME NEW w \in Writers, Begin(w)
      PROVE  enable_oplog' = enable_oplog
  BY <1>1, ZenonT(60) DEF Begin, BeginDelete, DeleteNothing, BeginInsert, BeginUpdate, BeginUpsert, BeginPayload, durable
<1>2. ASSUME NEW w \in Writers, Step(w)
      PROVE  enable_oplog' = enable_oplog
  BY <1>2 DEF Step, LogOp, LogOpFails, InsertNode, InsertNodeFails, LogAbort, RecordMapping, Tombstone,
         ReadOldRow, ReadOldRowFails, WriteRow, DropRow, RowFails, ForgetMapping, ReadRow, NoSuchRow, PutRow, durable
<1>3. Checkpoint \/ Crash \/ DamageMain => enable_oplog' = enable_oplog
  BY DEF Checkpoint, Crash, DamageMain, durable
<1>4. Recover => enable_oplog' = enable_oplog
  BY DEF Recover, LoadCheckpoint, ReplaySkipped, ReplayRecord, ReplayReadFails, ReplayDropRow, ReplayEnd,
         FinishOpen, RecoveryFails, durable
<1> QED
  BY <1>1, <1>2, <1>3, <1>4 DEF Next, vars

\* Only in an open store does a call step on.
LEMMA OpenAtStep ==
  ASSUME IInv, NEW w \in Writers, Step(w)
  PROVE  phase = "open"
<1>1. local[w] # Idle
  BY DEF Step, LogOp, LogOpFails, InsertNode, InsertNodeFails, LogAbort, RecordMapping, Tombstone,
         ReadOldRow, ReadOldRowFails, WriteRow, DropRow, RowFails, ForgetMapping, ReadRow, NoSuchRow, PutRow, Idle
<1> QED
  BY <1>1 DEF IInv, Control

LEMMA RememberedStep ==
  ASSUME NEW hist, IInv, IInv', UsedType, used.failures = 0, used'.failures = 0, Whole(hist), enable_oplog,
         Remembered(hist), Next, NEW new, new = Later(hist, log, log')
  PROVE  Remembered(new)'
<1>a. phase = "open" => Opened(hist)
  BY OpenedStore
<1>b. phase # "open" => Closed(hist)
  BY DEF Closed
<1>1. CASE \E w \in Writers : Begin(w)
  <2>1. PICK w \in Writers : Begin(w)
    BY <1>1
  <2>2. phase = "open"
    BY <2>1, ZenonT(60) DEF Begin, BeginDelete, DeleteNothing, BeginInsert, BeginUpdate, BeginUpsert, BeginPayload, CanBegin
  <2>3. Remembered(hist)' /\ log' = log
    BY <1>a, <2>1, <2>2, BeginRemembers
  <2> QED
    BY <2>3 DEF Later
<1>2. CASE \E w \in Writers : Step(w)
  <2>1. PICK w \in Writers : Step(w)
    BY <1>2
  <2>2. phase = "open"
    BY <2>1, OpenAtStep
  <2> QED
    BY <1>a, <2>1, <2>2, StepRemembersAll
<1>3. CASE Checkpoint
  <2>1. phase = "open" /\ UNCHANGED <<phase, rows, log, local, want, blurred>>
    BY <1>3 DEF Checkpoint, ghosts
  <2>2. Remembered(hist)' /\ new = hist
    BY <2>1, SameRemembers DEF Later
  <2> QED
    BY <2>2
<1>4. CASE Crash
  <2>1. new = hist
    BY <1>4 DEF Crash, durable, Later
  <2> QED
    BY <1>4, <2>1, CrashRemembers
<1>5. CASE DamageMain
  <2>1. new = hist /\ phase # "open"
    BY <1>5 DEF DamageMain, Later
  <2> QED
    BY <1>5, <1>b, <2>1, DamageMainRemembers
<1>6. CASE Recover
  <2>1. new = hist /\ phase # "open"
    BY <1>6 DEF Recover, LoadCheckpoint, ReplaySkipped, ReplayRecord, ReplayReadFails, ReplayDropRow,
                ReplayEnd, FinishOpen, RecoveryFails, durable, Later
  <2>2. ~ReplayReadFails /\ ~RecoveryFails
    BY DEF ReplayReadFails, RecoveryFails, Fault, UsedType
  <2> QED
    BY <1>6, <1>b, <2>1, <2>2, NeverSkipped, LoadCheckpointRemembers, ReplayRecordRemembers,
       ReplayDropRowRemembers, ReplayEndRemembers, FinishOpenRemembers DEF Recover
<1> QED
  BY <1>1, <1>2, <1>3, <1>4, <1>5, <1>6 DEF Next

-----------------------------------------------------------------------------
(* The theorems.                                                           *)

\* While no call has failed, index, files, log, rows, the calls in flight and
\* what was promised agree.
Faithful == /\ IInv /\ UsedType
            /\ used.failures = 0 => \E hist : Whole(hist) /\ (enable_oplog => Remembered(hist))

LEMMA FaithfulInit == Init => Faithful
<1> SUFFICES ASSUME Init PROVE Faithful
  OBVIOUS
<1>1. IInv /\ UsedType
  BY ConsistentInit DEF Consistent
<1>2. PICK hist : Whole(hist)
  BY WholeInit
<1> QED
  BY <1>1, <1>2, InitRemembers DEF Faithful

LEMMA FaithfulStep == Faithful /\ [Next]_vars => Faithful'
<1> SUFFICES ASSUME Faithful, [Next]_vars PROVE Faithful'
  OBVIOUS
<1>1. IInv /\ IInv' /\ UsedType
  BY InvStep DEF Faithful
<1>2. UsedType' /\ used.failures <= used'.failures
  BY <1>1, UsedStep
<1>3. ASSUME used'.failures = 0
      PROVE  \E new : Whole(new)' /\ (enable_oplog' => Remembered(new)')
  <2>1. used.failures = 0
    BY <1>1, <1>2, <1>3 DEF UsedType
  <2>2. PICK hist : Whole(hist) /\ (enable_oplog => Remembered(hist))
    BY <2>1 DEF Faithful
  <2>3. CASE Next
    <3>1. PICK new : new = Later(hist, log, log')
      OBVIOUS
    <3>2. Whole(new)'
      BY <1>1, <1>3, <2>1, <2>2, <2>3, <3>1, WholeStep
    <3>3. enable_oplog' => Remembered(new)'
      BY <1>1, <1>3, <2>1, <2>2, <2>3, <3>1, ModeKept, RememberedStep
    <3> QED
      BY <3>2, <3>3
  <2>4. CASE UNCHANGED vars
    <3>1. Whole(hist)'
      BY <2>2, <2>4 DEF vars, Whole, OneHolder, Busy, Loadable, Holding, Told, CallTold, Abreast, Horizon
    <3>2. enable_oplog' => Remembered(hist)'
      BY <2>2, <2>4, SameRemembers DEF vars
    <3> QED
      BY <3>1, <3>2
  <2> QED
    BY <2>3, <2>4
<1> QED
  BY <1>1, <1>2, <1>3 DEF Faithful

\* While no call has failed, the rows and the log also tell of every id what
\* the calls that returned promise of it, in an open store, in one that is
\* down and at every step of the replay.
THEOREM PromisesKept == Spec => []Faithful
  BY FaithfulInit, FaithfulStep, PTL DEF Spec

\* Every id that no call is on holds what the log tells.
LEMMA SettledRests ==
  ASSUME Faithful, used.failures = 0, enable_oplog, NEW r \in RealIds, Settled(r)
  PROVE  \E hist : Rests(hist, r)
<1>1. PICK hist : Whole(hist) /\ Remembered(hist)
  BY DEF Faithful
<1>2. CASE phase = "open"
  <2>1. Opened(hist)
    BY <1>1, <1>2, OpenedStore DEF Faithful
  <2> QED
    BY <2>1, OpenRests DEF Settled
<1>3. CASE phase = "replayed"
  <2>1. Closed(hist)
    BY <1>1, <1>3 DEF Closed, Faithful
  <2> QED
    BY <1>3, <2>1, ReplayedRests
<1> QED
  BY <1>2, <1>3 DEF Settled, Running

\* While no call has failed, what an id holds is what the calls that returned
\* say, whatever crashes, damaged checkpoints and interrupted replays came
\* between; a call cut short by a crash took effect as a whole or not at all.
THEOREM AckedWritesSurviveUnlessFailed == Spec => [](used.failures = 0 => AckedWritesSurvive)
<1>1. Faithful => (used.failures = 0 => AckedWritesSurvive)
  <2> SUFFICES ASSUME Faithful, used.failures = 0, enable_oplog, NEW r \in RealIds, Settled(r)
               PROVE  IF r \in blurred THEN Value(ix, rows, r)[1] \in {u[1] : u \in want[r]}
                                       ELSE Value(ix, rows, r) \in want[r]
    BY DEF AckedWritesSurvive
  <2>1. PICK hist : Rests(hist, r)
    BY SettledRests
  <2>2. ix \in Index
    BY DEF Faithful, IInv, Types
  <2>3. /\ Value(ix, rows, r)[1] = Past0(hist, r).now.vec
        /\ r \notin blurred => Value(ix, rows, r) = LastValue(hist, r)
    BY <2>1, <2>2, RestingValue
  <2> QED
    BY <2>1, <2>3 DEF Rests
<1> QED
  BY <1>1, PromisesKept, PTL

\* While no call has failed and no two calls on one id overlapped, every
\* payload row between calls is that of the current version of a live id.
THEOREM RowsBelongUnlessFailed == Spec => [](used.failures = 0 => RowsBelongToLiveIds)
<1>1. Faithful => (used.failures = 0 => RowsBelongToLiveIds)
  <2> SUFFICES ASSUME Faithful, used.failures = 0, Running, GateFree, blurred = {}, enable_oplog
               PROVE  Cardinality(OrphanRows) <= 0
    BY DEF RowsBelongToLiveIds
  <2>1. PICK hist : Whole(hist) /\ Remembered(hist)
    BY DEF Faithful
  <2>2. ASSUME NEW i \in DOMAIN rows
        PROVE  i \in CurrentVersions
    <3>1. PICK r \in RealIds : Belongs(log, i, r)
      BY <2>1, <2>2 DEF Remembered
    <3>2. Rests(hist, r)
      <4>1. CASE phase = "open"
        <5>1. Opened(hist) /\ ~Overlaps(r)
          BY <2>1, <4>1, OpenedStore DEF Faithful, GateFree, Overlaps
        <5> QED
          BY <5>1, OpenRests
      <4>2. CASE phase = "replayed"
        <5>1. Closed(hist)
          BY <2>1, <4>2 DEF Closed, Faithful
        <5> QED
          BY <4>2, <5>1, ReplayedRests
      <4> QED
        BY <4>1, <4>2 DEF Running
    <3>3. PICK p : p = Past0(hist, r)
      OBVIOUS
    <3>4. RowsKept(log, hist, rows, r, {}) /\ p.now = Now(ix, r) /\ p = hist[Len(log)][r]
      BY <3>2, <3>3 DEF Rests, Past0
    <3>5. p.now.vec # Gone /\ i = p.now.ver
      BY <2>2, <3>1, <3>4 DEF RowsKept
    <3>6. ix \in Index
      BY DEF Faithful, IInv, Types
    <3>7. is_alive(ix, r) /\ i = resolve_internal(ix, r)
      BY <3>4, <3>5, <3>6, NowFacts
    <3> QED
      BY <3>7 DEF CurrentVersions
  <2>3. OrphanRows = {}
    BY <2>2 DEF OrphanRows
  <2> QED
    BY <2>3, FS_EmptySet
<1> QED
  BY <1>1, PromisesKept, PTL
=============================================================================
