---------------------------- MODULE OpLogProofs ----------------------------
(***************************************************************************)
(* Proofs about the operation log, for any segment size, any number of     *)
(* operations, crashes and power failures.                                 *)
(*                                                                         *)
(* The argument: in every segment the records a scan can reach carry the   *)
(* lsns first, first + 1, ... without a break, agree with the history, and *)
(* end before the next segment begins (SegmentsTrue).  A scan therefore    *)
(* never sees an lsn between from_lsn and expected again, and whatever it  *)
(* has passed lies below expected (ScanProgress), so that a gap can only   *)
(* be found at the first record of a segment that OpLog::Open removes.     *)
(***************************************************************************)
EXTENDS OpLog, SequenceTheorems, TLAPS

SegmentsTrue ==
  \A f \in DOMAIN segs : \A i \in DOMAIN segs[f] : Reachable(f, i) =>
    /\ segs[f][i].lsn = f + i - 1
    /\ f + i - 1 <= Len(hist)
    /\ segs[f][i].op = hist[f + i - 1]
    /\ \A g \in DOMAIN segs : g > f => f + i - 1 < g

\* While the log is open the writer is at the end of an intact newest segment.
WriterAtEnd ==
  phase = "open" =>
    /\ nextLsn = Len(hist) + 1
    /\ mainLsn <= Len(hist)
    /\ \A f \in DOMAIN segs : f <= nextLsn
    /\ ~broken =>
         /\ cur \in DOMAIN segs
         /\ \A f \in DOMAIN segs : f <= cur
         /\ offset = Len(segs[cur])
         /\ nextLsn = cur + offset
         /\ Reachable(cur, offset)

\* What the scan has passed lies below expected; expected has not run ahead
\* of the current position.
Passed(f, i) == f < seg \/ (f = seg /\ i < pos)
ScanProgress ==
  /\ Recovering =>
       /\ from <= expected /\ expected <= Len(hist) + 1
       /\ mainLsn = from - 1
  /\ phase = "scanning" =>
       /\ seg = 0 \/ seg \in DOMAIN segs
       /\ seg # 0 => pos <= Len(segs[seg]) + 1
       /\ seg # 0 => expected = from \/ expected <= seg + pos - 1
       /\ \A g \in DOMAIN segs : g > seg => expected = from \/ expected <= g
       /\ seg # 0 /\ pos <= Len(segs[seg]) => \A j \in 1 .. pos - 1 : segs[seg][j].ok
       /\ \A f \in DOMAIN segs : \A i \in DOMAIN segs[f] :
            Reachable(f, i) /\ Passed(f, i) => f + i - 1 < expected
  /\ phase \in {"scanned", "removing"} =>
       \A f \in DOMAIN segs : \A i \in DOMAIN segs[f] :
         Reachable(f, i) /\ f < expected => f + i - 1 < expected

\* The checkpoint files never name an lsn that was not handed out.
CheckpointsTrue ==
  /\ main # NoFile => main <= Len(hist)
  /\ prev # NoFile => prev <= Len(hist)
  /\ main # NoFile /\ prev # NoFile => prev <= main
  /\ Recovering => /\ main # NoFile => main = from - 1
                   /\ prev # NoFile => prev <= from - 1
  /\ phase = "open" => /\ main # NoFile => mainLsn <= main
                       /\ main = NoFile => prev # NoFile /\ mainLsn <= prev
  /\ Recovering /\ main = NoFile => prev # NoFile /\ prev = from - 1

AcceptedTrue ==
  Recovering =>
    /\ Len(accepted) = expected - from
    /\ \A k \in 1 .. Len(accepted) : accepted[k] = hist[from + k - 1]

IInv == TypeOK /\ SegmentsTrue /\ WriterAtEnd /\ ScanProgress /\ CheckpointsTrue /\ AcceptedTrue

-----------------------------------------------------------------------------
(* Types.                                                                  *)

LEMMA EmptySegmentType ==
  ASSUME TypeOK, NEW l \in Nat \ {0}
  PROVE  /\ DOMAIN WithEmptySegment(segs, l) = DOMAIN segs \cup {l}
         /\ WithEmptySegment(segs, l)[l] = <<>>
         /\ \A f \in DOMAIN segs : f # l => WithEmptySegment(segs, l)[f] = segs[f]
         /\ \A f \in DOMAIN segs \cup {l} : WithEmptySegment(segs, l)[f] \in Seq(Record)
  BY EmptySeq DEF TypeOK, WithEmptySegment

\* The files an append writes to: those of before and, after a rotation, an
\* empty newest one.
LEMMA WritableShape ==
  ASSUME TypeOK, WriterAtEnd, CanAppend
  PROVE  /\ Target \in DOMAIN Writable
         /\ DOMAIN segs \subseteq DOMAIN Writable
         /\ DOMAIN Writable \subseteq Nat \ {0}
         /\ \A f \in DOMAIN Writable : Writable[f] \in Seq(Record) /\ f <= Target
         /\ Len(Writable[Target]) = TargetEnd /\ TargetEnd \in Nat
         /\ nextLsn = Target + TargetEnd /\ nextLsn = Len(hist) + 1
         /\ \A j \in 1 .. TargetEnd : Writable[Target][j].ok
         /\ \A f \in DOMAIN Writable :
              \/ f \in DOMAIN segs /\ Writable[f] = segs[f]
              \/ f = nextLsn /\ Writable[f] = <<>>
<1>1. /\ cur \in DOMAIN segs /\ nextLsn \in Nat \ {0} /\ cur \in Nat \ {0} /\ offset \in Nat
      /\ \A f \in DOMAIN segs : f <= cur
      /\ offset = Len(segs[cur]) /\ nextLsn = cur + offset
      /\ nextLsn = Len(hist) + 1
      /\ \A j \in 1 .. offset : segs[cur][j].ok
  BY DEF TypeOK, CanAppend, WriterAtEnd, Reachable
<1>2. CASE Rotates
  <2>1. Target = nextLsn /\ Writable = WithEmptySegment(segs, nextLsn) /\ TargetEnd = 0
    BY <1>2 DEF Target, Writable, TargetEnd
  <2>2. nextLsn > cur
    BY <1>1, <1>2, SegmentBytesAssumption DEF Rotates
  <2>3. \A f \in DOMAIN segs : f \in Nat \ {0} /\ f <= nextLsn
    BY <1>1, <2>2 DEF TypeOK
  <2>4. Len(Writable[Target]) = 0
    BY <1>1, <2>1, EmptySegmentType, EmptySeq
  <2>5. /\ DOMAIN Writable = DOMAIN segs \cup {nextLsn}
        /\ Writable[nextLsn] = <<>>
        /\ \A f \in DOMAIN segs : f # nextLsn => Writable[f] = segs[f]
        /\ \A f \in DOMAIN Writable : Writable[f] \in Seq(Record)
    BY <1>1, <2>1, EmptySegmentType
  <2>6. \A j \in 1 .. TargetEnd : Writable[Target][j].ok
    BY <2>1
  <2>7. DOMAIN Writable \subseteq Nat \ {0} /\ \A f \in DOMAIN Writable : f <= nextLsn
    BY <1>1, <2>3, <2>5
  <2>8. QED
    BY <1>1, <2>1, <2>4, <2>5, <2>6, <2>7
<1>3. CASE ~Rotates
  <2>1. Target = cur /\ Writable = segs /\ TargetEnd = offset
    BY <1>3 DEF Target, Writable, TargetEnd
  <2>2. QED
    BY <1>1, <2>1 DEF TypeOK
<1>4. QED
  BY <1>2, <1>3

LEMMA RecordType ==
  ASSUME NEW l \in Nat \ {0}, NEW op \in Ops
  PROVE  Good(l, op) \in Record /\ Torn(l, op) \in Record
  BY DEF Good, Torn, Record

\* The files after an append of any record.
LEMMA AppendShape ==
  ASSUME TypeOK, WriterAtEnd, CanAppend, NEW r \in Record,
         segs' = [Writable EXCEPT ![Target] = Append(@, r)]
  PROVE  /\ DOMAIN segs' = DOMAIN Writable
         /\ \A f \in DOMAIN segs' : segs'[f] \in Seq(Record)
         /\ Len(segs'[Target]) = TargetEnd + 1
         /\ segs'[Target][TargetEnd + 1] = r
         /\ \A i \in 1 .. TargetEnd : segs'[Target][i] = Writable[Target][i]
         /\ \A f \in DOMAIN segs' : f # Target => segs'[f] = Writable[f]
<1>1. /\ Target \in DOMAIN Writable
      /\ Writable[Target] \in Seq(Record)
      /\ \A f \in DOMAIN Writable : Writable[f] \in Seq(Record)
      /\ Len(Writable[Target]) = TargetEnd /\ TargetEnd \in Nat
  BY WritableShape
<1>2. segs'[Target] = Append(Writable[Target], r)
  BY <1>1
<1>3. /\ Append(Writable[Target], r) \in Seq(Record)
      /\ Len(Append(Writable[Target], r)) = TargetEnd + 1
      /\ Append(Writable[Target], r)[TargetEnd + 1] = r
      /\ \A i \in 1 .. TargetEnd : Append(Writable[Target], r)[i] = Writable[Target][i]
  BY <1>1
<1>4. QED
  BY <1>1, <1>2, <1>3

-----------------------------------------------------------------------------
(* Steps that add no record a scan could reach.                            *)

NoNewRecords ==
  /\ \A f \in DOMAIN segs' : f \in DOMAIN segs \/ f > Len(hist)
  /\ \A f \in DOMAIN segs' : \A i \in DOMAIN segs'[f] :
       (\A j \in 1 .. i : segs'[f][j].ok) =>
          /\ f \in DOMAIN segs /\ i \in DOMAIN segs[f]
          /\ \A j \in 1 .. i : segs[f][j].ok
          /\ segs'[f][i] = segs[f][i]

LEMMA SegmentsShrink ==
  ASSUME TypeOK, SegmentsTrue, NoNewRecords, UNCHANGED hist,
         DOMAIN segs' \subseteq Nat \ {0}
  PROVE  SegmentsTrue'
<1>1. SUFFICES ASSUME NEW f \in DOMAIN segs', NEW i \in DOMAIN segs'[f],
                      \A j \in 1 .. i : segs'[f][j].ok
               PROVE  /\ segs'[f][i].lsn = f + i - 1
                      /\ f + i - 1 <= Len(hist)
                      /\ segs'[f][i].op = hist[f + i - 1]
                      /\ \A g \in DOMAIN segs' : g > f => f + i - 1 < g
  BY DEF SegmentsTrue, Reachable
<1>2. /\ f \in DOMAIN segs /\ i \in DOMAIN segs[f]
      /\ \A j \in 1 .. i : segs[f][j].ok
      /\ segs'[f][i] = segs[f][i]
  BY <1>1 DEF NoNewRecords
<1>3. /\ segs[f][i].lsn = f + i - 1
      /\ f + i - 1 <= Len(hist)
      /\ segs[f][i].op = hist[f + i - 1]
      /\ \A g \in DOMAIN segs : g > f => f + i - 1 < g
  BY <1>2 DEF SegmentsTrue, Reachable
<1>4. Len(hist) \in Nat /\ f \in Nat /\ i \in Nat
  BY <1>2 DEF TypeOK
<1>5. \A g \in DOMAIN segs' : g > f => f + i - 1 < g
  BY <1>3, <1>4 DEF NoNewRecords
<1>6. QED
  BY <1>2, <1>3, <1>5

LEMMA TornShrinks ==
  ASSUME TypeOK, WriterAtEnd, CanAppend, NEW op \in Ops,
         segs' = [Writable EXCEPT ![Target] = Append(@, Torn(nextLsn, op))]
  PROVE  NoNewRecords
<1>1. Torn(nextLsn, op) \in Record /\ Torn(nextLsn, op).ok = FALSE
  BY RecordType DEF TypeOK, Torn
<1>2. /\ DOMAIN segs' = DOMAIN Writable
      /\ \A f \in DOMAIN segs' : segs'[f] \in Seq(Record)
      /\ Len(segs'[Target]) = TargetEnd + 1
      /\ segs'[Target][TargetEnd + 1].ok = FALSE
      /\ \A i \in 1 .. TargetEnd : segs'[Target][i] = Writable[Target][i]
      /\ \A f \in DOMAIN segs' : f # Target => segs'[f] = Writable[f]
  BY <1>1, AppendShape
<1>3. /\ Target \in DOMAIN Writable /\ TargetEnd \in Nat
      /\ Len(Writable[Target]) = TargetEnd
      /\ nextLsn = Len(hist) + 1 /\ Len(hist) \in Nat
      /\ \A f \in DOMAIN Writable : Writable[f] \in Seq(Record)
      /\ \A f \in DOMAIN Writable :
           \/ f \in DOMAIN segs /\ Writable[f] = segs[f]
           \/ f = nextLsn /\ Writable[f] = <<>>
  BY WritableShape DEF TypeOK
<1>4. ASSUME NEW f \in DOMAIN segs', NEW i \in DOMAIN segs'[f],
             \A j \in 1 .. i : segs'[f][j].ok
      PROVE  /\ i \in DOMAIN Writable[f]
             /\ \A j \in 1 .. i : segs'[f][j] = Writable[f][j]
  <2>1. i \in 1 .. Len(segs'[f])
    BY <1>2, <1>4
  <2>2. CASE f = Target
    <3>1. i # TargetEnd + 1
      BY <1>2, <1>3, <1>4, <2>1, <2>2
    <3>2. i \in 1 .. TargetEnd
      BY <1>2, <1>3, <2>1, <2>2, <3>1
    <3>3. QED
      BY <1>2, <1>3, <2>2, <3>2
  <2>3. CASE f # Target
    BY <1>2, <1>4, <2>1, <2>3
  <2>4. QED
    BY <2>2, <2>3
<1>5. ASSUME NEW f \in DOMAIN segs', NEW i \in DOMAIN segs'[f],
             \A j \in 1 .. i : segs'[f][j].ok
      PROVE  /\ f \in DOMAIN segs /\ i \in DOMAIN segs[f]
             /\ \A j \in 1 .. i : segs[f][j].ok
             /\ segs'[f][i] = segs[f][i]
  <2>1. Writable[f] # <<>>
    BY <1>4, <1>5, EmptySeq
  <2>2. f \in DOMAIN segs /\ Writable[f] = segs[f]
    BY <1>2, <1>3, <2>1
  <2>3. i \in Nat \ {0}
    BY <1>2, <1>5
  <2>4. QED
    BY <1>4, <1>5, <2>2, <2>3
<1>6. \A f \in DOMAIN segs' : f \in DOMAIN segs \/ f > Len(hist)
  BY <1>2, <1>3
<1>7. QED
  BY <1>5, <1>6 DEF NoNewRecords

\* Removing files adds nothing.
LEMMA SubsetShrinks ==
  ASSUME DOMAIN segs' \subseteq DOMAIN segs,
         \A f \in DOMAIN segs' : segs'[f] = segs[f]
  PROVE  NoNewRecords
  BY DEF NoNewRecords

\* Neither does creating an empty one after the last lsn.
LEMMA EmptyShrinks ==
  ASSUME TypeOK, NEW l \in Nat \ {0}, l > Len(hist),
         segs' = WithEmptySegment(segs, l)
  PROVE  NoNewRecords
<1>1. /\ DOMAIN segs' = DOMAIN segs \cup {l}
      /\ segs'[l] = <<>>
      /\ \A f \in DOMAIN segs : f # l => segs'[f] = segs[f]
  BY EmptySegmentType
<1>2. DOMAIN segs'[l] = {}
  BY <1>1
<1>3. QED
  BY <1>1, <1>2 DEF NoNewRecords

\* Nor does a step that keeps, of every file, what a scan reaches.
LEMMA PrefixShrinks ==
  ASSUME DOMAIN segs' \subseteq DOMAIN segs,
         \A f \in DOMAIN segs' : segs'[f] \in Seq(Record),
         \A f \in DOMAIN segs' : \A k \in DOMAIN segs'[f] :
           (\A j \in 1 .. k : segs'[f][j].ok) =>
             k \in DOMAIN segs[f] /\ \A j \in 1 .. k : segs'[f][j] = segs[f][j]
  PROVE  NoNewRecords
<1>1. ASSUME NEW f \in DOMAIN segs', NEW k \in DOMAIN segs'[f],
             \A j \in 1 .. k : segs'[f][j].ok
      PROVE  /\ f \in DOMAIN segs /\ k \in DOMAIN segs[f]
             /\ \A j \in 1 .. k : segs[f][j].ok
             /\ segs'[f][k] = segs[f][k]
  <2>1. k \in 1 .. k
    <3>1. segs'[f] \in Seq(Record)
      OBVIOUS
    <3>2. QED
      BY <3>1, LenProperties
  <2>2. k \in DOMAIN segs[f] /\ \A j \in 1 .. k : segs'[f][j] = segs[f][j]
    BY <1>1
  <2>3. QED
    BY <1>1, <2>1, <2>2
<1>2. QED
  BY <1>1 DEF NoNewRecords

\* Losing a record is such a step.
LEMMA LossShrinks ==
  ASSUME TypeOK, PowerLoss
  PROVE  /\ NoNewRecords
         /\ DOMAIN segs' = DOMAIN segs
         /\ \A f \in DOMAIN segs' : segs'[f] \in Seq(Record)
<1>1. PICK f \in DOMAIN segs : \E i \in DOMAIN segs[f] :
        \/ segs' = [segs EXCEPT ![f][i].ok = FALSE]
        \/ segs' = [segs EXCEPT ![f] = SubSeq(@, 1, i - 1)]
  BY DEF PowerLoss
<1>2. PICK i \in DOMAIN segs[f] :
        \/ segs' = [segs EXCEPT ![f][i].ok = FALSE]
        \/ segs' = [segs EXCEPT ![f] = SubSeq(@, 1, i - 1)]
  BY <1>1
<1>3. segs[f] \in Seq(Record) /\ segs[f][i] \in Record /\ i \in 1 .. Len(segs[f])
  BY DEF TypeOK
<1>4. CASE segs' = [segs EXCEPT ![f][i].ok = FALSE]
  <2> DEFINE bad == [segs[f][i] EXCEPT !.ok = FALSE]
  <2>1. bad \in Record /\ bad.ok = FALSE
    BY <1>3 DEF Record
  <2>2. segs'[f] = [segs[f] EXCEPT ![i] = bad]
    BY <1>4
  <2> HIDE DEF bad
  <2>3. /\ segs'[f] \in Seq(Record) /\ Len(segs'[f]) = Len(segs[f])
        /\ segs'[f][i].ok = FALSE
        /\ \A j \in 1 .. Len(segs[f]) : j # i => segs'[f][j] = segs[f][j]
    BY <1>3, <2>1, <2>2, ExceptSeq
  <2>4. /\ DOMAIN segs' = DOMAIN segs
        /\ \A g \in DOMAIN segs : g # f => segs'[g] = segs[g]
    BY <1>4
  <2>5. ASSUME NEW k \in DOMAIN segs'[f], \A j \in 1 .. k : segs'[f][j].ok
        PROVE  /\ k \in DOMAIN segs[f] /\ \A j \in 1 .. k : segs'[f][j] = segs[f][j]
    BY <1>3, <2>3, <2>5
  <2>6. \A g \in DOMAIN segs' : segs'[g] \in Seq(Record)
    BY <2>3, <2>4 DEF TypeOK
  <2>7. QED
    BY <2>4, <2>5, <2>6, PrefixShrinks
<1>5. CASE segs' = [segs EXCEPT ![f] = SubSeq(@, 1, i - 1)]
  <2>1. segs'[f] = SubSeq(segs[f], 1, i - 1)
    BY <1>5
  <2>2. /\ segs'[f] \in Seq(Record) /\ Len(segs'[f]) = i - 1
        /\ \A j \in 1 .. i - 1 : segs'[f][j] = segs[f][j]
    BY <1>3, <2>1
  <2>3. /\ DOMAIN segs' = DOMAIN segs
        /\ \A g \in DOMAIN segs : g # f => segs'[g] = segs[g]
    BY <1>5
  <2>4. ASSUME NEW k \in DOMAIN segs'[f]
        PROVE  /\ k \in DOMAIN segs[f] /\ \A j \in 1 .. k : segs'[f][j] = segs[f][j]
    BY <1>3, <2>2, <2>4
  <2>5. \A g \in DOMAIN segs' : segs'[g] \in Seq(Record)
    BY <2>2, <2>3 DEF TypeOK
  <2>6. QED
    BY <2>3, <2>4, <2>5, PrefixShrinks
<1>6. QED
  BY <1>2, <1>4, <1>5

-----------------------------------------------------------------------------
(* The invariant holds initially and is preserved, action by action.       *)

LEMMA InvInit == Init => IInv
<1> SUFFICES ASSUME Init PROVE IInv
  OBVIOUS
<1>1. DOMAIN segs = {} /\ hist = <<>> /\ Len(hist) = 0
  BY EmptySeq DEF Init
<1>2. TypeOK
  <2>1. accepted \in Seq(Ops) /\ hist \in Seq(Ops)
    BY EmptySeq DEF Init
  <2>2. DOMAIN segs \subseteq Nat \ {0} /\ \A f \in DOMAIN segs : segs[f] \in Seq(Record)
    BY <1>1
  <2>3. /\ phase = "down" /\ nextLsn = 1 /\ cur = 0 /\ offset = 0 /\ broken = FALSE
        /\ from = 1 /\ seg = 0 /\ pos = 1 /\ expected = 1
        /\ main = 0 /\ prev = NoFile /\ mainLsn = 0 /\ damage = 0
    BY DEF Init
  <2>4. broken \in BOOLEAN
    BY <2>3, Zenon
  <2>5. QED
    BY <2>1, <2>2, <2>3, <2>4 DEF TypeOK
<1>3. SegmentsTrue /\ WriterAtEnd /\ ScanProgress /\ AcceptedTrue
  BY <1>1 DEF Init, SegmentsTrue, WriterAtEnd, ScanProgress, AcceptedTrue, Recovering
<1>4. CheckpointsTrue
  BY <1>1, NoFileAssumption DEF Init, CheckpointsTrue, Recovering
<1>5. QED
  BY <1>2, <1>3, <1>4 DEF IInv

\* Outside recovery the scan's part of the invariant says nothing.
LEMMA NoScan ==
  ASSUME phase' \in {"open", "down"}
  PROVE  ScanProgress' /\ AcceptedTrue'
  BY DEF ScanProgress, AcceptedTrue, Recovering

LEMMA InvAppendRecord ==
  ASSUME IInv, NEW op \in Ops, AppendRecord(op)
  PROVE  IInv'
<1> USE DEF scanner
<1>1. /\ CanAppend /\ phase = "open" /\ ~broken
      /\ nextLsn \in Nat \ {0} /\ hist \in Seq(Ops) /\ TypeOK /\ WriterAtEnd
  BY DEF AppendRecord, CanAppend, IInv, TypeOK
<1>2. /\ Good(nextLsn, op) \in Record /\ Good(nextLsn, op).ok = TRUE
      /\ Good(nextLsn, op).lsn = nextLsn /\ Good(nextLsn, op).op = op
  BY <1>1, RecordType DEF Good
<1>3. /\ DOMAIN segs' = DOMAIN Writable
      /\ \A f \in DOMAIN segs' : segs'[f] \in Seq(Record)
      /\ Len(segs'[Target]) = TargetEnd + 1
      /\ segs'[Target][TargetEnd + 1] = Good(nextLsn, op)
      /\ \A i \in 1 .. TargetEnd : segs'[Target][i] = Writable[Target][i]
      /\ \A f \in DOMAIN segs' : f # Target => segs'[f] = Writable[f]
  BY <1>1, <1>2, AppendShape DEF AppendRecord
<1>4. /\ Target \in DOMAIN Writable /\ DOMAIN segs \subseteq DOMAIN Writable
      /\ DOMAIN Writable \subseteq Nat \ {0} /\ Target \in Nat \ {0}
      /\ \A f \in DOMAIN Writable : Writable[f] \in Seq(Record) /\ f <= Target
      /\ Len(Writable[Target]) = TargetEnd /\ TargetEnd \in Nat
      /\ nextLsn = Target + TargetEnd /\ nextLsn = Len(hist) + 1
      /\ \A j \in 1 .. TargetEnd : Writable[Target][j].ok
      /\ \A f \in DOMAIN Writable :
           \/ f \in DOMAIN segs /\ Writable[f] = segs[f]
           \/ f = nextLsn /\ Writable[f] = <<>>
  BY <1>1, WritableShape
<1>5. /\ hist' = Append(hist, op) /\ hist' \in Seq(Ops)
      /\ Len(hist') = Len(hist) + 1 /\ Len(hist) \in Nat
      /\ hist'[nextLsn] = op
      /\ \A k \in 1 .. Len(hist) : hist'[k] = hist[k]
  BY <1>1, <1>4 DEF AppendRecord
<1>6. TypeOK'
  <2>1. nextLsn' \in Nat \ {0} /\ cur' \in Nat /\ offset' \in Nat
    BY <1>1, <1>4 DEF AppendRecord
  <2>2. QED
    BY <1>1, <1>3, <1>4, <1>5, <2>1 DEF AppendRecord, TypeOK
<1>7. SegmentsTrue'
  <2>1. SUFFICES ASSUME NEW f \in DOMAIN segs', NEW i \in DOMAIN segs'[f],
                        \A j \in 1 .. i : segs'[f][j].ok
                 PROVE  /\ segs'[f][i].lsn = f + i - 1
                        /\ f + i - 1 <= Len(hist')
                        /\ segs'[f][i].op = hist'[f + i - 1]
                        /\ \A g \in DOMAIN segs' : g > f => f + i - 1 < g
    BY DEF SegmentsTrue, Reachable
  <2>2. i \in 1 .. Len(segs'[f]) /\ i \in Nat \ {0} /\ f \in Nat \ {0}
    BY <1>3, <1>4
  <2>3. CASE f = Target /\ i = TargetEnd + 1
    BY <1>2, <1>3, <1>4, <1>5, <2>3
  <2>4. CASE ~(f = Target /\ i = TargetEnd + 1)
    <3>1. i \in DOMAIN Writable[f] /\ \A j \in 1 .. i : segs'[f][j] = Writable[f][j]
      <4>1. CASE f = Target
        BY <1>3, <1>4, <2>2, <2>4, <4>1
      <4>2. CASE f # Target
        BY <1>3, <2>2, <4>2
      <4>3. QED
        BY <4>1, <4>2
    <3>2. f \in DOMAIN segs /\ Writable[f] = segs[f]
      BY <1>3, <1>4, <3>1, EmptySeq
    <3>3. /\ i \in DOMAIN segs[f] /\ \A j \in 1 .. i : segs[f][j].ok
          /\ segs'[f][i] = segs[f][i]
      BY <2>1, <2>2, <3>1, <3>2
    <3>4. /\ segs[f][i].lsn = f + i - 1
          /\ f + i - 1 <= Len(hist)
          /\ segs[f][i].op = hist[f + i - 1]
          /\ \A g \in DOMAIN segs : g > f => f + i - 1 < g
      BY <3>2, <3>3 DEF IInv, SegmentsTrue, Reachable
    <3>5. ASSUME NEW g \in DOMAIN segs', g > f PROVE f + i - 1 < g
      <4>1. g \in DOMAIN segs \/ g = nextLsn
        BY <1>3, <1>4
      <4>2. QED
        BY <1>4, <1>5, <2>2, <3>4, <3>5, <4>1
    <3>6. f + i - 1 \in 1 .. Len(hist)
      BY <1>5, <2>2, <3>4
    <3>7. QED
      BY <1>5, <3>3, <3>4, <3>5, <3>6
  <2>5. QED
    BY <2>3, <2>4
<1>8. WriterAtEnd'
  <2>1. nextLsn' = nextLsn + 1 /\ cur' = Target /\ offset' = TargetEnd + 1 /\ mainLsn' = mainLsn
    BY DEF AppendRecord
  <2>2. \A j \in 1 .. TargetEnd + 1 : segs'[Target][j].ok
    BY <1>2, <1>3, <1>4
  <2>3. mainLsn <= Len(hist) /\ mainLsn \in Nat
    BY <1>1 DEF WriterAtEnd, TypeOK
  <2>4. QED
    BY <1>3, <1>4, <1>5, <2>1, <2>2, <2>3 DEF WriterAtEnd, Reachable
<1>9. CheckpointsTrue'
  <2>1. phase' = "open" /\ main' = main /\ prev' = prev /\ mainLsn' = mainLsn
    BY <1>1 DEF AppendRecord
  <2>2. QED
    BY <1>1, <1>5, <2>1 DEF IInv, CheckpointsTrue, TypeOK, Recovering
<1>10. QED
  BY <1>1, <1>6, <1>7, <1>8, <1>9, NoScan DEF IInv, AppendRecord

LEMMA InvAppendFails ==
  ASSUME IInv, NEW op \in Ops, AppendFails(op)
  PROVE  IInv'
<1> USE DEF scanner
<1>1. /\ CanAppend /\ phase = "open" /\ ~broken /\ nextLsn \in Nat \ {0}
      /\ TypeOK /\ WriterAtEnd /\ SegmentsTrue /\ CheckpointsTrue
  BY DEF AppendFails, CanAppend, IInv, TypeOK
<1>2. /\ Target \in DOMAIN Writable /\ DOMAIN Writable \subseteq Nat \ {0}
      /\ Target \in Nat
      /\ \A f \in DOMAIN Writable : Writable[f] \in Seq(Record) /\ f <= Target
      /\ Len(Writable[Target]) = TargetEnd /\ TargetEnd \in Nat
      /\ nextLsn = Target + TargetEnd /\ nextLsn = Len(hist) + 1
      /\ \A j \in 1 .. TargetEnd : Writable[Target][j].ok
      /\ \A f \in DOMAIN Writable :
           \/ f \in DOMAIN segs /\ Writable[f] = segs[f]
           \/ f = nextLsn /\ Writable[f] = <<>>
  BY <1>1, WritableShape
<1>3. /\ cur' = Target /\ offset' = TargetEnd /\ nextLsn' = nextLsn /\ phase' = "open"
      /\ hist' = hist /\ main' = main /\ prev' = prev /\ mainLsn' = mainLsn
      /\ accepted' = accepted /\ damage' = damage
      /\ from' = from /\ seg' = seg /\ pos' = pos /\ expected' = expected
  BY <1>1 DEF AppendFails
<1>4. CheckpointsTrue'
  BY <1>1, <1>3 DEF CheckpointsTrue, Recovering
<1>5. CASE segs' = Writable /\ UNCHANGED broken
  <2>1. TypeOK'
    BY <1>1, <1>2, <1>3, <1>5 DEF TypeOK
  <2>2. NoNewRecords
    <3>1. ASSUME NEW f \in DOMAIN segs' PROVE f \in DOMAIN segs \/ f > Len(hist)
      BY <1>1, <1>2, <1>5 DEF TypeOK
    <3>2. ASSUME NEW f \in DOMAIN segs', NEW i \in DOMAIN segs'[f]
          PROVE  f \in DOMAIN segs /\ segs'[f] = segs[f]
      BY <1>2, <1>5, <3>2, EmptySeq
    <3>3. QED
      BY <3>1, <3>2 DEF NoNewRecords
  <2>3. SegmentsTrue'
    BY <1>1, <1>2, <1>3, <1>5, <2>2, SegmentsShrink
  <2>4. WriterAtEnd'
    <3>1. mainLsn <= Len(hist)
      BY <1>1 DEF WriterAtEnd
    <3>2. \A f \in DOMAIN segs' : f <= nextLsn
      BY <1>2, <1>5
    <3>3. QED
      BY <1>2, <1>3, <1>5, <3>1, <3>2 DEF WriterAtEnd, Reachable
  <2>5. QED
    BY <1>3, <1>4, <2>1, <2>3, <2>4, NoScan DEF IInv
<1>6. CASE /\ segs' = [Writable EXCEPT ![Target] = Append(@, Torn(nextLsn, op))]
           /\ broken' = TRUE
  <2>1. /\ DOMAIN segs' = DOMAIN Writable
        /\ \A f \in DOMAIN segs' : segs'[f] \in Seq(Record)
    BY <1>1, <1>6, RecordType, AppendShape
  <2>2. TypeOK'
    BY <1>1, <1>2, <1>3, <1>6, <2>1 DEF TypeOK
  <2>3. NoNewRecords
    BY <1>1, <1>6, TornShrinks
  <2>4. SegmentsTrue'
    BY <1>1, <1>2, <1>3, <2>1, <2>3, SegmentsShrink
  <2>5. WriterAtEnd'
    <3>1. mainLsn <= Len(hist)
      BY <1>1 DEF WriterAtEnd
    <3>2. \A f \in DOMAIN segs' : f <= nextLsn
      BY <1>2, <2>1
    <3>3. QED
      BY <1>2, <1>3, <1>6, <3>1, <3>2 DEF WriterAtEnd
  <2>6. QED
    BY <1>3, <1>4, <2>2, <2>4, <2>5, NoScan DEF IInv
<1>7. QED
  BY <1>5, <1>6 DEF AppendFails

LEMMA InvRotateFails ==
  ASSUME IInv, RotateFails
  PROVE  IInv'
<1> USE DEF scanner
<1>1. /\ CanAppend /\ phase = "open" /\ ~broken /\ nextLsn \in Nat \ {0}
      /\ TypeOK /\ WriterAtEnd /\ SegmentsTrue /\ CheckpointsTrue
      /\ nextLsn = Len(hist) + 1 /\ Len(hist) \in Nat
  BY DEF RotateFails, CanAppend, IInv, TypeOK, WriterAtEnd
<1>2. /\ broken' = TRUE /\ nextLsn' = nextLsn /\ phase' = "open"
      /\ hist' = hist /\ main' = main /\ prev' = prev /\ mainLsn' = mainLsn
      /\ accepted' = accepted /\ damage' = damage
      /\ from' = from /\ seg' = seg /\ pos' = pos /\ expected' = expected
  BY <1>1 DEF RotateFails
<1>3. /\ DOMAIN segs' \subseteq Nat \ {0}
      /\ \A f \in DOMAIN segs' : segs'[f] \in Seq(Record) /\ f <= nextLsn
      /\ NoNewRecords /\ cur' \in Nat /\ offset' \in Nat
  <2>1. CASE UNCHANGED <<segs, cur, offset>>
    <3>1. segs' = segs /\ cur' = cur /\ offset' = offset
      BY <2>1
    <3>2. NoNewRecords
      BY <3>1 DEF NoNewRecords
    <3>3. QED
      BY <1>1, <3>1, <3>2 DEF TypeOK, WriterAtEnd
  <2>2. CASE segs' = WithEmptySegment(segs, nextLsn) /\ cur' = nextLsn /\ offset' = 0
    <3>1. NoNewRecords
      BY <1>1, <2>2, EmptyShrinks
    <3>2. /\ DOMAIN segs' = DOMAIN segs \cup {nextLsn}
          /\ \A f \in DOMAIN segs' : segs'[f] \in Seq(Record)
      BY <1>1, <2>2, EmptySegmentType
    <3>3. QED
      BY <1>1, <2>2, <3>1, <3>2 DEF TypeOK, WriterAtEnd
  <2>3. QED
    BY <2>1, <2>2 DEF RotateFails
<1>4. TypeOK'
  BY <1>1, <1>2, <1>3 DEF TypeOK
<1>5. SegmentsTrue'
  BY <1>1, <1>2, <1>3, SegmentsShrink
<1>6. WriterAtEnd'
  BY <1>1, <1>2, <1>3 DEF WriterAtEnd
<1>7. CheckpointsTrue'
  BY <1>1, <1>2 DEF CheckpointsTrue, Recovering
<1>8. QED
  BY <1>2, <1>4, <1>5, <1>6, <1>7, NoScan DEF IInv

LEMMA InvCheckpoint ==
  ASSUME IInv, Checkpoint
  PROVE  IInv'
<1> USE DEF scanner, writer
<1>1. /\ phase = "open" /\ TypeOK /\ WriterAtEnd /\ SegmentsTrue /\ CheckpointsTrue
      /\ nextLsn = Len(hist) + 1 /\ Len(hist) \in Nat
  BY DEF Checkpoint, IInv, TypeOK, WriterAtEnd
<1>2. /\ broken' = broken /\ nextLsn' = nextLsn /\ phase' = "open" /\ cur' = cur
      /\ offset' = offset /\ hist' = hist
      /\ main' = Len(hist) /\ prev' = LinkedPrev /\ mainLsn' = Len(hist)
      /\ accepted' = accepted /\ damage' = damage
      /\ from' = from /\ seg' = seg /\ pos' = pos /\ expected' = expected
  BY <1>1 DEF Checkpoint
<1>3. /\ DOMAIN segs' \subseteq DOMAIN segs
      /\ \A f \in DOMAIN segs' : segs'[f] = segs[f]
      /\ \A f \in DOMAIN segs : (\A g \in DOMAIN segs : g <= f) => f \in DOMAIN segs'
  <2>1. PICK f \in DOMAIN segs :
          segs' = [g \in {g \in DOMAIN segs : g >= f} \cup DOMAIN Truncated(TruncationPoint)
                     |-> segs[g]]
    BY DEF Checkpoint
  <2>2. DOMAIN Truncated(TruncationPoint) \subseteq DOMAIN segs
    BY DEF Truncated
  <2>3. QED
    BY <2>1, <2>2
<1>4. LinkedPrev \in Nat \cup {NoFile} /\ (LinkedPrev # NoFile => LinkedPrev <= Len(hist))
  BY <1>1 DEF LinkedPrev, TypeOK, CheckpointsTrue
<1>5. TypeOK'
  BY <1>1, <1>2, <1>3, <1>4 DEF TypeOK
<1>6. SegmentsTrue'
  <2>1. NoNewRecords
    BY <1>3, SubsetShrinks
  <2>2. QED
    BY <1>1, <1>2, <1>3, <2>1, SegmentsShrink DEF TypeOK
<1>7. WriterAtEnd'
  BY <1>1, <1>2, <1>3 DEF WriterAtEnd, Reachable
<1>8. CheckpointsTrue'
  BY <1>1, <1>2, <1>4, NoFileAssumption DEF CheckpointsTrue, Recovering
<1>9. QED
  BY <1>2, <1>5, <1>6, <1>7, <1>8, NoScan DEF IInv

LEMMA InvCheckpointFails ==
  ASSUME IInv, CheckpointFails
  PROVE  IInv'
<1> USE DEF scanner, writer
<1>1. /\ phase = "open" /\ TypeOK /\ WriterAtEnd /\ SegmentsTrue /\ CheckpointsTrue
      /\ nextLsn = Len(hist) + 1 /\ Len(hist) \in Nat
      /\ main \in Nat \cup {NoFile} /\ prev \in Nat \cup {NoFile} /\ mainLsn \in Nat
  BY DEF CheckpointFails, IInv, TypeOK, WriterAtEnd
<1>2. /\ broken' = broken /\ nextLsn' = nextLsn /\ phase' = "open" /\ cur' = cur
      /\ offset' = offset /\ hist' = hist /\ segs' = segs /\ mainLsn' = mainLsn
      /\ accepted' = accepted /\ damage' = damage
      /\ from' = from /\ seg' = seg /\ pos' = pos /\ expected' = expected
  BY <1>1 DEF CheckpointFails
<1>3. /\ main' \in {main, Len(hist)} /\ prev' \in {NoFile, LinkedPrev}
      /\ prev' = NoFile => main # NoFile
      /\ LinkedPrev \in Nat \cup {NoFile}
  BY <1>1 DEF CheckpointFails, LinkedPrev, CheckpointsTrue
<1>4. TypeOK' /\ SegmentsTrue' /\ WriterAtEnd'
  BY <1>1, <1>2, <1>3 DEF TypeOK, SegmentsTrue, WriterAtEnd, Reachable
<1>5. CheckpointsTrue'
  BY <1>1, <1>2, <1>3, NoFileAssumption DEF CheckpointsTrue, LinkedPrev, Recovering, WriterAtEnd
<1>6. QED
  BY <1>2, <1>4, <1>5, NoScan DEF IInv

LEMMA InvCrash ==
  ASSUME IInv, Crash
  PROVE  IInv'
<1> USE DEF ForgetScan
<1>1. TypeOK /\ WriterAtEnd /\ SegmentsTrue /\ CheckpointsTrue
  BY DEF IInv
<1>2. /\ phase' = "down" /\ nextLsn' = 1 /\ cur' = 0 /\ offset' = 0 /\ broken' = FALSE
      /\ mainLsn' = 0 /\ from' = 1 /\ seg' = 0 /\ pos' = 1 /\ expected' = 1
      /\ accepted' = <<>> /\ main' = main /\ prev' = prev /\ hist' = hist /\ damage' = damage
  BY DEF Crash
<1>3. /\ NoNewRecords /\ DOMAIN segs' \subseteq Nat \ {0}
      /\ \A f \in DOMAIN segs' : segs'[f] \in Seq(Record)
  <2>1. CASE UNCHANGED segs
    BY <1>1, <2>1, SubsetShrinks DEF TypeOK
  <2>2. ASSUME CanAppend, NEW op \in Ops,
               segs' = [Writable EXCEPT ![Target] = Append(@, Torn(nextLsn, op))]
        PROVE  /\ NoNewRecords /\ DOMAIN segs' \subseteq Nat \ {0}
               /\ \A f \in DOMAIN segs' : segs'[f] \in Seq(Record)
    <3>1. Torn(nextLsn, op) \in Record
      BY <1>1, RecordType DEF TypeOK
    <3>2. QED
      BY <1>1, <2>2, <3>1, TornShrinks, AppendShape, WritableShape
  <2>3. QED
    BY <2>1, <2>2 DEF Crash
<1>4. accepted' \in Seq(Ops)
  BY <1>2, EmptySeq
<1>5. TypeOK'
  <2>1. broken' \in BOOLEAN
    BY <1>2, Zenon
  <2>2. QED
    BY <1>1, <1>2, <1>3, <1>4, <2>1 DEF TypeOK
<1>6. SegmentsTrue'
  BY <1>1, <1>2, <1>3, SegmentsShrink
<1>7. WriterAtEnd' /\ CheckpointsTrue'
  BY <1>1, <1>2 DEF WriterAtEnd, CheckpointsTrue, Recovering
<1>8. QED
  BY <1>2, <1>5, <1>6, <1>7, NoScan DEF IInv

LEMMA InvPowerLoss ==
  ASSUME IInv, PowerLoss
  PROVE  IInv'
<1> USE DEF scanner, writer
<1>1. TypeOK /\ WriterAtEnd /\ SegmentsTrue /\ CheckpointsTrue
  BY DEF IInv
<1>2. phase' = "down" /\ phase = "down" /\ hist' = hist /\ main' = main /\ prev' = prev
  BY DEF PowerLoss
<1>3. /\ NoNewRecords /\ DOMAIN segs' = DOMAIN segs
      /\ \A f \in DOMAIN segs' : segs'[f] \in Seq(Record)
  BY <1>1, LossShrinks
<1>4. TypeOK'
  <2>1. /\ UNCHANGED <<nextLsn, cur, offset, broken, from, seg, pos, expected,
                     accepted, mainLsn>>
        /\ damage' = damage + 1
    BY DEF PowerLoss
  <2>2. broken' \in BOOLEAN
    BY <1>1, <2>1, Zenon DEF TypeOK
  <2>3. QED
    BY <1>1, <1>2, <1>3, <2>1, <2>2 DEF TypeOK
<1>5. SegmentsTrue'
  BY <1>1, <1>2, <1>3, SegmentsShrink DEF TypeOK
<1>6. WriterAtEnd' /\ CheckpointsTrue'
  BY <1>1, <1>2 DEF WriterAtEnd, CheckpointsTrue, Recovering
<1>7. QED
  BY <1>2, <1>4, <1>5, <1>6, NoScan DEF IInv

LEMMA InvBeginScan ==
  ASSUME IInv, NEW lsn \in Nat, lsn <= Len(hist), BeginScan(lsn), phase = "down",
         main' \in {main, NoFile}, main' # NoFile => main' = lsn,
         prev # NoFile => prev <= lsn, main' = NoFile => prev = lsn /\ prev # NoFile
  PROVE  IInv'
<1> USE DEF writer
<1>1. TypeOK /\ SegmentsTrue /\ CheckpointsTrue /\ Len(hist) \in Nat
  BY DEF IInv, TypeOK
<1>2. /\ phase' = "scanning" /\ mainLsn' = lsn /\ from' = lsn + 1 /\ expected' = lsn + 1
      /\ seg' = 0 /\ pos' = 1 /\ accepted' = <<>> /\ segs' = segs /\ prev' = prev
      /\ hist' = hist /\ damage' = damage
  BY DEF BeginScan
<1>3. accepted' \in Seq(Ops) /\ Len(accepted') = 0
  BY <1>2, EmptySeq
<1>4. TypeOK'
  BY <1>1, <1>2, <1>3 DEF TypeOK, BeginScan
<1>5. SegmentsTrue' /\ WriterAtEnd'
  BY <1>1, <1>2 DEF SegmentsTrue, WriterAtEnd, Reachable
<1>6. ScanProgress'
  <2>1. \A f \in DOMAIN segs' : ~(f < 0) /\ f # 0
    BY <1>1, <1>2 DEF TypeOK
  <2>2. QED
    BY <1>1, <1>2, <2>1 DEF ScanProgress, Recovering, Passed
<1>7. CheckpointsTrue'
  BY <1>1, <1>2, NoFileAssumption DEF CheckpointsTrue, Recovering
<1>8. AcceptedTrue'
  BY <1>2, <1>3 DEF AcceptedTrue
<1>9. QED
  BY <1>4, <1>5, <1>6, <1>7, <1>8 DEF IInv

LEMMA InvLoad ==
  ASSUME IInv, LoadMain \/ LoadPrev
  PROVE  IInv'
<1>1. TypeOK /\ CheckpointsTrue
  BY DEF IInv
<1>2. CASE LoadMain
  <2>1. main \in Nat /\ main <= Len(hist) /\ main' = main /\ (prev # NoFile => prev <= main)
    BY <1>1, <1>2 DEF LoadMain, TypeOK, CheckpointsTrue
  <2>2. QED
    BY <1>2, <2>1, InvBeginScan, NoFileAssumption DEF LoadMain
<1>3. CASE LoadPrev
  <2>1. prev \in Nat /\ prev <= Len(hist) /\ main' = NoFile
    BY <1>1, <1>3 DEF LoadPrev, TypeOK, CheckpointsTrue
  <2>2. prev <= prev
    BY <2>1
  <2>3. QED
    BY <1>3, <2>1, <2>2, InvBeginScan, NoFileAssumption DEF LoadPrev
<1>4. QED
  BY <1>2, <1>3

-----------------------------------------------------------------------------
(* The scan.  Its steps leave the files and the history alone.             *)

LEMMA ScanFrame ==
  ASSUME ScanStep
  PROVE  /\ phase = "scanning" /\ segs' = segs /\ hist' = hist /\ main' = main
         /\ prev' = prev /\ mainLsn' = mainLsn /\ nextLsn' = nextLsn /\ cur' = cur
         /\ offset' = offset /\ broken' = broken /\ damage' = damage /\ from' = from
         /\ phase' \in {"scanning", "scanned"}
  BY DEF ScanStep, ScanSegment, SkipRecord, StopAtGap, AcceptRecord, ScanEnd,
         files, writer, scanner

\* What a scanning state of the invariant says, unfolded.
LEMMA ScanningFacts ==
  ASSUME IInv, phase = "scanning"
  PROVE  /\ TypeOK /\ Len(hist) \in Nat
         /\ from \in Nat \ {0} /\ expected \in Nat \ {0} /\ pos \in Nat \ {0} /\ seg \in Nat
         /\ from <= expected /\ expected <= Len(hist) + 1 /\ mainLsn = from - 1
         /\ seg = 0 \/ seg \in DOMAIN segs
         /\ seg # 0 => pos <= Len(segs[seg]) + 1
         /\ seg # 0 => expected = from \/ expected <= seg + pos - 1
         /\ \A g \in DOMAIN segs : g > seg => expected = from \/ expected <= g
         /\ seg # 0 /\ pos <= Len(segs[seg]) => \A j \in 1 .. pos - 1 : segs[seg][j].ok
         /\ \A f \in DOMAIN segs : \A i \in DOMAIN segs[f] :
              Reachable(f, i) /\ Passed(f, i) => f + i - 1 < expected
         /\ \A f \in DOMAIN segs : f \in Nat \ {0} /\ segs[f] \in Seq(Record)
                                   /\ Len(segs[f]) \in Nat /\ DOMAIN segs[f] = 1 .. Len(segs[f])
         /\ Len(accepted) = expected - from
         /\ \A k \in 1 .. Len(accepted) : accepted[k] = hist[from + k - 1]
  BY DEF IInv, TypeOK, ScanProgress, AcceptedTrue, Recovering

\* The record the scan reads next is the true one for its place.
LEMMA NextRecord ==
  ASSUME IInv, phase = "scanning", ~SegmentDone
  PROVE  /\ seg \in DOMAIN segs /\ seg \in Nat \ {0} /\ pos \in DOMAIN segs[seg]
         /\ pos <= Len(segs[seg])
         /\ Reachable(seg, pos)
         /\ segs[seg][pos].lsn = seg + pos - 1
         /\ seg + pos - 1 <= Len(hist)
         /\ segs[seg][pos].op = hist[seg + pos - 1]
         /\ segs[seg][pos].op \in Ops
         /\ \A g \in DOMAIN segs : g > seg => seg + pos - 1 < g
<1>1. seg # 0 /\ seg \in DOMAIN segs /\ seg \in Nat \ {0}
  BY ScanningFacts DEF SegmentDone
<1>2. pos <= Len(segs[seg]) /\ pos \in DOMAIN segs[seg] /\ segs[seg][pos].ok
  BY <1>1, ScanningFacts DEF SegmentDone
<1>3. \A j \in 1 .. pos : segs[seg][j].ok
  <2>1. pos \in Nat /\ \A j \in 1 .. pos - 1 : segs[seg][j].ok
    BY <1>1, <1>2, ScanningFacts
  <2>2. \A j \in 1 .. pos : j = pos \/ j \in 1 .. pos - 1
    BY <2>1
  <2>3. QED
    BY <1>2, <2>1, <2>2
<1>4. segs[seg][pos].op \in Ops
  <2>1. segs[seg] \in Seq(Record) /\ pos \in 1 .. Len(segs[seg])
    BY <1>1, <1>2, ScanningFacts
  <2>2. segs[seg][pos] \in Record
    BY <2>1, ElementOfSeq
  <2>3. QED
    BY <2>2 DEF Record
<1>5. QED
  BY <1>1, <1>2, <1>3, <1>4 DEF IInv, SegmentsTrue, Reachable

LEMMA ScanTypes ==
  ASSUME IInv, ScanStep,
         seg' \in Nat, pos' \in Nat \ {0}, expected' \in Nat \ {0}, accepted' \in Seq(Ops)
  PROVE  /\ TypeOK' /\ SegmentsTrue' /\ WriterAtEnd' /\ CheckpointsTrue'
<1>1. TypeOK /\ SegmentsTrue /\ CheckpointsTrue
  BY DEF IInv
<1>2. TypeOK'
  BY <1>1, ScanFrame DEF TypeOK
<1>3. SegmentsTrue' /\ WriterAtEnd' /\ CheckpointsTrue'
  BY <1>1, ScanFrame DEF SegmentsTrue, WriterAtEnd, CheckpointsTrue, Reachable, Recovering
<1>4. QED
  BY <1>2, <1>3

LEMMA InvScanSegment ==
  ASSUME IInv, ScanSegment
  PROVE  IInv'
<1>1. phase = "scanning" /\ SegmentDone /\ ScanStep
  BY DEF ScanSegment, ScanStep
<1>2. PICK g \in DOMAIN segs :
        /\ Follows(seg, g) /\ seg' = g
        /\ pos' = IF Skipped(g) THEN Len(segs[g]) + 1 ELSE 1
  BY DEF ScanSegment
<1>0. Len(segs[g]) \in Nat /\ g \in Nat \ {0} /\ g > seg
  BY <1>1, <1>2, ScanningFacts DEF Follows
<1>3. /\ g > seg /\ g \in Nat \ {0} /\ \A h \in DOMAIN segs : h > seg => h >= g
      /\ pos' \in Nat \ {0} /\ pos' <= Len(segs[g]) + 1 /\ seg' \in Nat
  BY <1>0, <1>2 DEF Follows, Skipped
<1>4. expected' = expected /\ accepted' = accepted /\ segs' = segs /\ from' = from /\ hist' = hist
      /\ phase' = "scanning" /\ mainLsn' = mainLsn
  BY <1>1, ScanFrame DEF ScanSegment
<1>5. TypeOK' /\ SegmentsTrue' /\ WriterAtEnd' /\ CheckpointsTrue'
  BY <1>1, <1>3, <1>4, ScanTypes DEF IInv, TypeOK
<1>6. ASSUME NEW f \in DOMAIN segs, NEW i \in DOMAIN segs[f], Reachable(f, i),
             f < g \/ (f = g /\ i < pos')
      PROVE  f + i - 1 < expected
  <2>1. /\ f \in Nat /\ i \in 1 .. Len(segs[f]) /\ seg \in Nat /\ pos \in Nat
        /\ expected \in Nat /\ from \in Nat /\ from <= expected
    BY <1>1, ScanningFacts
  <2>2. CASE f < seg
    BY <1>1, <1>6, <2>2, ScanningFacts DEF Passed
  <2>3. CASE f = seg
    <3>1. i < pos
      <4>1. CASE pos > Len(segs[seg])
        BY <2>1, <2>3, <4>1
      <4>2. CASE pos \in DOMAIN segs[seg] /\ ~segs[seg][pos].ok
        BY <1>6, <2>1, <2>3, <4>2 DEF Reachable
      <4>3. QED
        BY <1>1, <1>3, <2>1, <2>3, <4>1, <4>2, ScanningFacts DEF SegmentDone
    <3>2. QED
      BY <1>1, <1>6, <2>3, <3>1, ScanningFacts DEF Passed
  <2>4. CASE f > seg
    <3>1. f = g /\ i < pos'
      BY <1>3, <1>6, <2>1, <2>4
    <3>2. Skipped(g)
      BY <1>2, <2>1, <3>1
    <3>3. PICK h \in DOMAIN segs : h > g /\ h <= from
      BY <3>2 DEF Skipped
    <3>4. f + i - 1 < h /\ h \in Nat
      BY <1>1, <1>6, <3>1, <3>3, ScanningFacts DEF IInv, SegmentsTrue
    <3>5. QED
      BY <2>1, <3>3, <3>4
  <2>5. QED
    BY <2>1, <2>2, <2>3, <2>4
<1>7. ScanProgress'
  <2>1. expected = from \/ expected <= g
    BY <1>1, <1>3, ScanningFacts
  <2>0. g \in Nat /\ expected \in Nat /\ Len(segs[g]) \in Nat
    BY <1>1, ScanningFacts
  <2>2. pos' <= Len(segs[g]) => pos' = 1
    BY <1>2, <2>0
  <2>3. expected = from \/ expected <= g + pos' - 1
    BY <1>3, <2>0, <2>1
  <2>4. \A h \in DOMAIN segs : h > g => expected = from \/ expected <= h
    <3>1. \A h \in DOMAIN segs : h \in Nat
      BY <1>1, ScanningFacts
    <3>2. QED
      BY <2>0, <2>1, <3>1
  <2>5. \A f \in DOMAIN segs' : \A i \in DOMAIN segs'[f] :
          Reachable(f, i)' /\ Passed(f, i)' => f + i - 1 < expected'
    BY <1>2, <1>4, <1>6 DEF Reachable, Passed
  <2>6. from <= expected /\ expected <= Len(hist) + 1 /\ mainLsn = from - 1
    BY <1>1, ScanningFacts
  <2>7. QED
    BY <1>2, <1>3, <1>4, <2>2, <2>3, <2>4, <2>5, <2>6 DEF ScanProgress, Recovering
<1>8. AcceptedTrue'
  BY <1>1, <1>4, ScanningFacts DEF AcceptedTrue
<1>9. QED
  BY <1>5, <1>7, <1>8 DEF IInv

LEMMA InvSkipRecord ==
  ASSUME IInv, SkipRecord
  PROVE  IInv'
<1>1. phase = "scanning" /\ ~SegmentDone /\ ScanStep
  BY DEF SkipRecord, ScanStep
<1>2. /\ seg' = seg /\ pos' = pos + 1 /\ expected' = expected /\ accepted' = accepted
      /\ segs' = segs /\ from' = from /\ hist' = hist /\ phase' = "scanning"
      /\ mainLsn' = mainLsn /\ segs[seg][pos].lsn < from
  BY <1>1, ScanFrame DEF SkipRecord
<1>3. /\ seg \in DOMAIN segs /\ seg \in Nat \ {0} /\ pos \in Nat \ {0}
      /\ pos <= Len(segs[seg]) /\ Len(segs[seg]) \in Nat
      /\ Reachable(seg, pos) /\ seg + pos - 1 < from
      /\ from \in Nat /\ expected \in Nat /\ from <= expected
  BY <1>1, <1>2, NextRecord, ScanningFacts
<1>4. TypeOK' /\ SegmentsTrue' /\ WriterAtEnd' /\ CheckpointsTrue'
  BY <1>1, <1>2, <1>3, ScanTypes DEF IInv, TypeOK
<1>5. ASSUME NEW f \in DOMAIN segs, NEW i \in DOMAIN segs[f], Reachable(f, i),
             f < seg \/ (f = seg /\ i < pos + 1)
      PROVE  f + i - 1 < expected
  <2>1. f \in Nat /\ i \in Nat
    BY <1>1, ScanningFacts
  <2>2. CASE f = seg /\ i = pos
    BY <1>3, <2>1, <2>2
  <2>3. CASE Passed(f, i)
    BY <1>1, <1>5, <2>3, ScanningFacts
  <2>4. QED
    BY <1>3, <1>5, <2>1, <2>2, <2>3 DEF Passed
<1>6. ScanProgress'
  <2>1. expected = from \/ expected <= seg + (pos + 1) - 1
    BY <1>1, <1>3, ScanningFacts
  <2>2. \A j \in 1 .. (pos + 1) - 1 : segs[seg][j].ok
    BY <1>3 DEF Reachable
  <2>3. \A f \in DOMAIN segs' : \A i \in DOMAIN segs'[f] :
          Reachable(f, i)' /\ Passed(f, i)' => f + i - 1 < expected'
    BY <1>2, <1>5 DEF Reachable, Passed
  <2>4. /\ from <= expected /\ expected <= Len(hist) + 1 /\ mainLsn = from - 1
        /\ \A g \in DOMAIN segs : g > seg => expected = from \/ expected <= g
    BY <1>1, ScanningFacts
  <2>5. QED
    BY <1>2, <1>3, <2>1, <2>2, <2>3, <2>4, SMTT(30) DEF ScanProgress, Recovering
<1>7. AcceptedTrue'
  BY <1>1, <1>2, ScanningFacts DEF AcceptedTrue
<1>8. QED
  BY <1>4, <1>6, <1>7 DEF IInv

LEMMA InvAcceptRecord ==
  ASSUME IInv, AcceptRecord
  PROVE  IInv'
<1>1. phase = "scanning" /\ ~SegmentDone /\ ScanStep
  BY DEF AcceptRecord, ScanStep
<1>2. /\ seg' = seg /\ pos' = pos + 1 /\ expected' = expected + 1
      /\ accepted' = Append(accepted, segs[seg][pos].op)
      /\ segs' = segs /\ from' = from /\ hist' = hist /\ phase' = "scanning"
      /\ mainLsn' = mainLsn /\ segs[seg][pos].lsn = expected
  BY <1>1, ScanFrame DEF AcceptRecord
<1>3. /\ seg \in DOMAIN segs /\ seg \in Nat \ {0} /\ pos \in Nat \ {0}
      /\ pos <= Len(segs[seg]) /\ Len(segs[seg]) \in Nat
      /\ Reachable(seg, pos) /\ seg + pos - 1 = expected
      /\ from \in Nat /\ expected \in Nat \ {0} /\ from <= expected
      /\ expected <= Len(hist) /\ Len(hist) \in Nat
      /\ segs[seg][pos].op = hist[expected] /\ segs[seg][pos].op \in Ops
      /\ \A g \in DOMAIN segs : g > seg => expected < g
  BY <1>1, <1>2, NextRecord, ScanningFacts
<1>4. accepted \in Seq(Ops) /\ accepted' \in Seq(Ops) /\ Len(accepted') = Len(accepted) + 1
      /\ accepted'[Len(accepted) + 1] = hist[expected] /\ Len(accepted) \in Nat
      /\ \A k \in 1 .. Len(accepted) : accepted'[k] = accepted[k]
  <2>1. accepted \in Seq(Ops)
    BY DEF IInv, TypeOK
  <2> DEFINE op == segs[seg][pos].op
  <2>2. op \in Ops /\ op = hist[expected] /\ accepted' = Append(accepted, op)
    BY <1>2, <1>3
  <2> HIDE DEF op
  <2>3. /\ Append(accepted, op) \in Seq(Ops) /\ Len(accepted) \in Nat
        /\ Len(Append(accepted, op)) = Len(accepted) + 1
        /\ Append(accepted, op)[Len(accepted) + 1] = op
        /\ \A k \in 1 .. Len(accepted) : Append(accepted, op)[k] = accepted[k]
    BY <2>1, <2>2
  <2>4. QED
    BY <2>1, <2>2, <2>3
<1>5. TypeOK' /\ SegmentsTrue' /\ WriterAtEnd' /\ CheckpointsTrue'
  BY <1>1, <1>2, <1>3, <1>4, ScanTypes
<1>6. ASSUME NEW f \in DOMAIN segs, NEW i \in DOMAIN segs[f], Reachable(f, i),
             f < seg \/ (f = seg /\ i < pos + 1)
      PROVE  f + i - 1 < expected + 1
  <2>1. f \in Nat /\ i \in Nat
    BY <1>1, ScanningFacts
  <2>2. CASE f = seg /\ i = pos
    BY <1>3, <2>1, <2>2
  <2>3. CASE Passed(f, i)
    <3>1. f + i - 1 < expected
      BY <1>1, <1>6, <2>3, ScanningFacts
    <3>2. QED
      BY <1>3, <2>1, <3>1
  <2>4. QED
    BY <1>3, <1>6, <2>1, <2>2, <2>3 DEF Passed
<1>7. ScanProgress'
  <2>1. expected + 1 <= seg + (pos + 1) - 1
    BY <1>3
  <2>2. \A j \in 1 .. (pos + 1) - 1 : segs[seg][j].ok
    BY <1>3 DEF Reachable
  <2>3. \A f \in DOMAIN segs' : \A i \in DOMAIN segs'[f] :
          Reachable(f, i)' /\ Passed(f, i)' => f + i - 1 < expected'
    BY <1>2, <1>6 DEF Reachable, Passed
  <2>4. \A g \in DOMAIN segs : g > seg => expected + 1 <= g
    <3>1. \A g \in DOMAIN segs : g \in Nat
      BY <1>1, ScanningFacts
    <3>2. QED
      BY <1>3, <3>1
  <2>5. mainLsn = from - 1
    BY <1>1, ScanningFacts
  <2>6. QED
    BY <1>2, <1>3, <2>1, <2>2, <2>3, <2>4, <2>5, SMTT(30) DEF ScanProgress, Recovering
<1>8. AcceptedTrue'
  <2>1. Len(accepted) = expected - from /\ \A k \in 1 .. Len(accepted) : accepted[k] = hist[from + k - 1]
    BY <1>1, ScanningFacts
  <2>2. ASSUME NEW k \in 1 .. Len(accepted) + 1
        PROVE  accepted'[k] = hist[from + k - 1]
    <3>1. CASE k = Len(accepted) + 1
      BY <1>3, <1>4, <2>1, <3>1
    <3>2. CASE k \in 1 .. Len(accepted)
      BY <1>4, <2>1, <3>2
    <3>3. Len(accepted) \in Nat
      BY <1>4
    <3>4. QED
      BY <3>1, <3>2, <3>3
  <2>3. Len(accepted') = expected' - from' /\ from' = from /\ hist' = hist
    BY <1>2, <1>3, <1>4, <2>1
  <2>4. QED
    BY <1>4, <2>2, <2>3, SMTT(30) DEF AcceptedTrue
<1>9. QED
  BY <1>5, <1>7, <1>8 DEF IInv

\* A gap is only ever found at the first record of a segment that starts
\* beyond expected.
LEMMA GapAtSegmentStart ==
  ASSUME IInv, phase = "scanning", ~SegmentDone,
         segs[seg][pos].lsn >= from, segs[seg][pos].lsn # expected
  PROVE  expected < seg
<1>1. /\ seg \in DOMAIN segs /\ seg \in Nat \ {0} /\ pos \in Nat \ {0}
      /\ pos \in DOMAIN segs[seg] /\ Reachable(seg, pos)
      /\ seg + pos - 1 >= from /\ seg + pos - 1 # expected
      /\ from \in Nat /\ expected \in Nat
      /\ expected = from \/ expected <= seg + pos - 1
  BY NextRecord, ScanningFacts
<1>2. seg + pos - 1 > expected
  BY <1>1
<1>3. CASE pos = 1
  BY <1>1, <1>2, <1>3
<1>4. CASE pos > 1
  <2>1. pos - 1 \in DOMAIN segs[seg] /\ Reachable(seg, pos - 1) /\ Passed(seg, pos - 1)
    BY <1>1, <1>4, ScanningFacts, SMTT(30) DEF Reachable, Passed
  <2>2. seg + (pos - 1) - 1 < expected
    BY <1>1, <2>1, ScanningFacts
  <2>3. QED
    BY <1>1, <1>2, <2>2
<1>5. QED
  BY <1>1, <1>3, <1>4

LEMMA InvStopAtGap ==
  ASSUME IInv, StopAtGap
  PROVE  IInv'
<1>1. phase = "scanning" /\ ~SegmentDone /\ ScanStep
  BY DEF StopAtGap, ScanStep
<1>2. /\ seg' = seg /\ pos' = pos /\ expected' = expected /\ accepted' = accepted
      /\ segs' = segs /\ from' = from /\ hist' = hist /\ phase' = "scanned" /\ mainLsn' = mainLsn
  BY <1>1, ScanFrame DEF StopAtGap, scanner
<1>3. expected < seg
  BY <1>1, GapAtSegmentStart DEF StopAtGap
<1>4. TypeOK' /\ SegmentsTrue' /\ WriterAtEnd' /\ CheckpointsTrue'
  BY <1>1, <1>2, ScanTypes DEF IInv, TypeOK
<1>5. ASSUME NEW f \in DOMAIN segs, NEW i \in DOMAIN segs[f], Reachable(f, i), f < expected
      PROVE  f + i - 1 < expected
  <2>1. f \in Nat /\ expected \in Nat /\ seg \in Nat
    BY <1>1, ScanningFacts
  <2>2. Passed(f, i)
    BY <1>3, <1>5, <2>1 DEF Passed
  <2>3. QED
    BY <1>1, <1>5, <2>2, ScanningFacts
<1>6. ScanProgress'
  BY <1>1, <1>2, <1>5, ScanningFacts DEF ScanProgress, Recovering, Reachable
<1>7. AcceptedTrue'
  BY <1>1, <1>2, ScanningFacts DEF AcceptedTrue
<1>8. QED
  BY <1>4, <1>6, <1>7 DEF IInv

\* When no segment is left, the scan has passed every record it could reach.
LEMMA AllPassed ==
  ASSUME IInv, phase = "scanning", SegmentDone, ~\E g \in DOMAIN segs : g > seg,
         NEW f \in DOMAIN segs, NEW i \in DOMAIN segs[f], Reachable(f, i)
  PROVE  Passed(f, i)
<1>1. /\ f \in Nat \ {0} /\ i \in 1 .. Len(segs[f]) /\ Len(segs[f]) \in Nat
      /\ seg \in Nat /\ pos \in Nat /\ f <= seg
  <2>1. f \in Nat \ {0} /\ i \in 1 .. Len(segs[f]) /\ Len(segs[f]) \in Nat /\ seg \in Nat /\ pos \in Nat
    BY ScanningFacts
  <2>2. ~(f > seg)
    OBVIOUS
  <2>3. QED
    BY <2>1, <2>2
<1>2. CASE f < seg
  BY <1>2 DEF Passed
<1>3. CASE f = seg
  <2>1. CASE pos > Len(segs[seg])
    BY <1>1, <1>3, <2>1 DEF Passed
  <2>2. CASE pos \in DOMAIN segs[seg] /\ ~segs[seg][pos].ok
    <3>1. ~(pos <= i)
      BY <1>1, <1>3, <2>2, ScanningFacts DEF Reachable
    <3>2. QED
      BY <1>1, <1>3, <3>1 DEF Passed
  <2>3. QED
    BY <1>1, <1>3, <2>1, <2>2 DEF SegmentDone
<1>4. QED
  BY <1>1, <1>2, <1>3

LEMMA InvScanEnd ==
  ASSUME IInv, ScanEnd
  PROVE  IInv'
<1>1. phase = "scanning" /\ SegmentDone /\ ScanStep /\ ~\E g \in DOMAIN segs : g > seg
  BY DEF ScanEnd, ScanStep
<1>2. /\ seg' = seg /\ pos' = pos /\ expected' = expected /\ accepted' = accepted
      /\ segs' = segs /\ from' = from /\ hist' = hist /\ phase' = "scanned" /\ mainLsn' = mainLsn
  BY <1>1, ScanFrame DEF ScanEnd, scanner
<1>3. TypeOK' /\ SegmentsTrue' /\ WriterAtEnd' /\ CheckpointsTrue'
  BY <1>1, <1>2, ScanTypes DEF IInv, TypeOK
<1>4. ASSUME NEW f \in DOMAIN segs, NEW i \in DOMAIN segs[f], Reachable(f, i)
      PROVE  f + i - 1 < expected
  BY <1>1, <1>4, AllPassed, ScanningFacts
<1>5. ScanProgress'
  BY <1>1, <1>2, <1>4, ScanningFacts DEF ScanProgress, Recovering, Reachable
<1>6. AcceptedTrue'
  BY <1>1, <1>2, ScanningFacts DEF AcceptedTrue
<1>7. QED
  BY <1>3, <1>5, <1>6 DEF IInv

-----------------------------------------------------------------------------
(* Reopening the log.                                                      *)

LEMMA InvOpenRemove ==
  ASSUME IInv, OpenRemove
  PROVE  IInv'
<1> USE DEF scanner, writer
<1>1. TypeOK /\ SegmentsTrue /\ ScanProgress /\ CheckpointsTrue /\ AcceptedTrue
  BY DEF IInv
<1>2. /\ phase \in {"scanned", "removing"} /\ phase' = "removing"
      /\ seg' = seg /\ pos' = pos /\ expected' = expected /\ accepted' = accepted
      /\ from' = from /\ hist' = hist /\ mainLsn' = mainLsn /\ main' = main /\ prev' = prev
      /\ nextLsn' = nextLsn /\ cur' = cur /\ offset' = offset /\ broken' = broken /\ damage' = damage
  BY DEF OpenRemove
<1>3. DOMAIN segs' \subseteq DOMAIN segs /\ \A f \in DOMAIN segs' : segs'[f] = segs[f]
  BY DEF OpenRemove
<1>4. TypeOK'
  BY <1>1, <1>2, <1>3 DEF TypeOK
<1>5. SegmentsTrue'
  <2>1. NoNewRecords
    BY <1>3, SubsetShrinks
  <2>2. QED
    BY <1>1, <1>2, <1>3, <2>1, SegmentsShrink DEF TypeOK
<1>6. WriterAtEnd' /\ CheckpointsTrue' /\ AcceptedTrue'
  BY <1>1, <1>2 DEF WriterAtEnd, CheckpointsTrue, AcceptedTrue, Recovering
<1>7. ScanProgress'
  BY <1>1, <1>2, <1>3 DEF ScanProgress, Recovering, Reachable
<1>8. QED
  BY <1>4, <1>5, <1>6, <1>7 DEF IInv

LEMMA InvOpenCreate ==
  ASSUME IInv, OpenCreate
  PROVE  IInv'
<1> USE DEF ForgetScan, NextLsnAfterScan
<1>1. /\ TypeOK /\ SegmentsTrue /\ CheckpointsTrue /\ phase \in {"scanned", "removing"}
      /\ expected \in Nat \ {0} /\ from \in Nat \ {0} /\ hist \in Seq(Ops) /\ Len(hist) \in Nat
      /\ from <= expected /\ expected <= Len(hist) + 1 /\ mainLsn = from - 1
      /\ \A f \in DOMAIN segs : f \in Nat \ {0} /\ f < expected
      /\ \A f \in DOMAIN segs : \A i \in DOMAIN segs[f] :
           Reachable(f, i) => f + i - 1 < expected
  BY DEF OpenCreate, IInv, TypeOK, ScanProgress, Recovering, Stale
<1>2. /\ phase' = "open" /\ nextLsn' = expected /\ cur' = expected /\ offset' = 0
      /\ broken' = FALSE /\ hist' = SubSeq(hist, 1, expected - 1) /\ from' = 1 /\ seg' = 0
      /\ pos' = 1 /\ expected' = 1 /\ accepted' = <<>> /\ main' = main /\ prev' = prev
      /\ mainLsn' = mainLsn /\ damage' = damage /\ segs' = WithEmptySegment(segs, expected)
  BY DEF OpenCreate
<1>3. /\ hist' \in Seq(Ops) /\ Len(hist') = expected - 1
      /\ \A k \in 1 .. expected - 1 : hist'[k] = hist[k]
  <2>1. \A k \in 1 .. expected - 1 : hist[k] \in Ops
    BY <1>1, ElementOfSeq
  <2>2. QED
    BY <1>1, <1>2, <2>1, SubSeqProperties
<1>4. /\ DOMAIN segs' = DOMAIN segs \cup {expected}
      /\ segs'[expected] = <<>>
      /\ \A f \in DOMAIN segs : segs'[f] = segs[f]
      /\ \A f \in DOMAIN segs' : segs'[f] \in Seq(Record)
  <2>1. expected \notin DOMAIN segs
    BY <1>1
  <2>2. QED
    BY <1>1, <1>2, <2>1, EmptySegmentType
<1>5. TypeOK'
  <2>1. broken' \in BOOLEAN
    BY <1>2, Zenon
  <2>2. accepted' \in Seq(Ops)
    BY <1>2, EmptySeq
  <2>3. QED
    BY <1>1, <1>2, <1>3, <1>4, <2>1, <2>2 DEF TypeOK
<1>6. SegmentsTrue'
  <2>1. SUFFICES ASSUME NEW f \in DOMAIN segs', NEW i \in DOMAIN segs'[f],
                        \A j \in 1 .. i : segs'[f][j].ok
                 PROVE  /\ segs'[f][i].lsn = f + i - 1
                        /\ f + i - 1 <= Len(hist')
                        /\ segs'[f][i].op = hist'[f + i - 1]
                        /\ \A g \in DOMAIN segs' : g > f => f + i - 1 < g
    BY DEF SegmentsTrue, Reachable
  <2>2. f \in DOMAIN segs /\ segs'[f] = segs[f]
    BY <1>4, <2>1, EmptySeq
  <2>3. /\ Reachable(f, i) /\ i \in DOMAIN segs[f] /\ i \in Nat \ {0} /\ f \in Nat \ {0}
    BY <1>1, <2>1, <2>2 DEF Reachable, TypeOK
  <2>4. /\ segs[f][i].lsn = f + i - 1 /\ segs[f][i].op = hist[f + i - 1]
        /\ f + i - 1 < expected
        /\ \A g \in DOMAIN segs : g > f => f + i - 1 < g
    BY <1>1, <2>2, <2>3 DEF SegmentsTrue
  <2>5. f + i - 1 \in 1 .. expected - 1
    BY <1>1, <2>3, <2>4
  <2>6. \A g \in DOMAIN segs' : g > f => f + i - 1 < g
    BY <1>4, <2>4
  <2>7. f + i - 1 <= Len(hist') /\ hist'[f + i - 1] = hist[f + i - 1]
    BY <1>1, <1>3, <2>5
  <2>8. QED
    BY <2>2, <2>4, <2>6, <2>7
<1>7. WriterAtEnd'
  <2>1. Len(segs'[expected]) = 0
    BY <1>4, EmptySeq
  <2>2. QED
    BY <1>1, <1>2, <1>3, <1>4, <2>1 DEF WriterAtEnd, Reachable
<1>8. CheckpointsTrue'
  BY <1>1, <1>2, <1>3 DEF CheckpointsTrue, Recovering, TypeOK
<1>9. QED
  BY <1>2, <1>5, <1>6, <1>7, <1>8, NoScan DEF IInv

LEMMA InvNext ==
  ASSUME IInv, [Next]_vars
  PROVE  IInv'
<1>1. CASE UNCHANGED vars
  BY <1>1 DEF vars, IInv, TypeOK, SegmentsTrue, WriterAtEnd, ScanProgress, Passed,
              CheckpointsTrue, AcceptedTrue, Recovering, Reachable
<1>2. CASE Next
  BY <1>2, InvAppendRecord, InvAppendFails, InvRotateFails, InvCheckpoint,
     InvCheckpointFails, InvCrash, InvPowerLoss, InvLoad, InvScanSegment, InvSkipRecord,
     InvAcceptRecord, InvStopAtGap, InvScanEnd, InvOpenRemove, InvOpenCreate
     DEF Next, ScanStep
<1>3. QED
  BY <1>1, <1>2

\* Every variable of the log keeps its type (OpLog's members are what the
\* declarations in oplog.h say they are, in particular next_lsn_ >= 1).
THEOREM TypeCorrect == Spec => []TypeOK
<1>1. IInv => TypeOK
  BY DEF IInv
<1>2. QED
  BY <1>1, InvInit, InvNext, PTL DEF Spec

\* No scan, whatever crashes and power failures did to the files before it,
\* ever replays a record of a history that was given up (oplog.h, Open).
THEOREM ReplayIsFaithful == Spec => []NoStaleReplay
<1>1. IInv => NoStaleReplay
  <2> SUFFICES ASSUME IInv, Recovering PROVE NoStaleReplay
    BY DEF NoStaleReplay
  <2>1. /\ expected \in Nat /\ from \in Nat /\ Len(accepted) = expected - from
        /\ expected <= Len(hist) + 1
        /\ \A k \in 1 .. Len(accepted) : accepted[k] = hist[from + k - 1]
    BY DEF IInv, TypeOK, ScanProgress, AcceptedTrue
  <2>2. QED
    BY <2>1 DEF NoStaleReplay
<1>2. QED
  BY <1>1, InvInit, InvNext, PTL DEF Spec

-----------------------------------------------------------------------------
(* What the log still covers, as long as no power failure has struck.      *)
(*                                                                         *)
(* No step but a power failure takes away a record a scan could reach and  *)
(* either checkpoint needs: a failed append only adds a torn record, the   *)
(* truncation stops at the checkpoint that becomes .prev, and the segments *)
(* OpLog::Open removes start after the last lsn.  A scan, in turn, passes  *)
(* every record it could reach, and can only stop where the next one is    *)
(* missing: given the coverage, past the end of the history.               *)


Covered == LogCoversCheckpoints /\ ScanComplete

\* The step loses no record a scan could reach and a checkpoint file needs.
Kept(low) ==
  \A f \in DOMAIN segs : \A i \in DOMAIN segs[f] :
    Reachable(f, i) /\ f + i - 1 > low =>
      f \in DOMAIN segs' /\ i \in DOMAIN segs'[f] /\ Reachable(f, i)'

LEMMA CoverageKept ==
  ASSUME TypeOK, LogCoversCheckpoints, hist' = hist, damage' = damage,
         NEW low \in Nat, Kept(low),
         \A base \in {main', prev'} \ {NoFile} :
           \/ base \in Nat /\ base >= Len(hist)
           \/ base >= low /\ base \in {main, prev}
  PROVE  LogCoversCheckpoints'
<1> SUFFICES ASSUME damage = 0, NEW base \in {main', prev'} \ {NoFile},
                    NEW l \in base + 1 .. Len(hist)
             PROVE  \E f \in DOMAIN segs' :
                      /\ f <= l
                      /\ l - f + 1 \in DOMAIN segs'[f]
                      /\ \A j \in 1 .. l - f + 1 : segs'[f][j].ok
  BY DEF LogCoversCheckpoints, Reachable
<1>1. base \in {main, prev} \ {NoFile} /\ base >= low /\ base \in Nat /\ Len(hist) \in Nat
  <2>1. Len(hist) \in Nat /\ hist' = hist
    BY DEF TypeOK
  <2>2. l \in base + 1 .. Len(hist)
    BY <2>1
  <2>3. ~(base \in Nat /\ base >= Len(hist))
    BY <2>1, <2>2
  <2>4. base >= low /\ base \in {main, prev}
    BY <2>3
  <2>5. QED
    BY <2>1, <2>4 DEF TypeOK
<1>2. PICK f \in DOMAIN segs :
        f <= l /\ l - f + 1 \in DOMAIN segs[f] /\ Reachable(f, l - f + 1)
  BY <1>1 DEF LogCoversCheckpoints
<1>3. f \in Nat \ {0} /\ l \in Nat /\ f + (l - f + 1) - 1 > low
  BY <1>1 DEF TypeOK
<1>4. f \in DOMAIN segs' /\ l - f + 1 \in DOMAIN segs'[f] /\ Reachable(f, l - f + 1)'
  BY <1>2, <1>3 DEF Kept
<1>5. QED
  BY <1>2, <1>4 DEF Reachable

LEMMA SameFilesKept ==
  ASSUME UNCHANGED segs
  PROVE  Kept(0)
  BY DEF Kept, Reachable

\* The files an append prepares hold everything the log held.
LEMMA WritableKeeps ==
  ASSUME TypeOK, WriterAtEnd, CanAppend,
         NEW f \in DOMAIN segs, NEW i \in DOMAIN segs[f]
  PROVE  f \in DOMAIN Writable /\ Writable[f] = segs[f]
<1>1. i \in 1 .. Len(segs[f]) /\ segs[f] \in Seq(Record) /\ f \in Nat \ {0}
  BY DEF TypeOK
<1>2. CASE Rotates
  <2>1. /\ nextLsn \in Nat \ {0} /\ cur \in Nat /\ offset \in Nat
        /\ nextLsn = cur + offset /\ f <= cur
    BY DEF WriterAtEnd, CanAppend, TypeOK
  <2>2. f # nextLsn
    BY <1>1, <1>2, <2>1, SegmentBytesAssumption DEF Rotates
  <2>3. QED
    BY <1>2, <2>1, <2>2, EmptySegmentType DEF Writable
<1>3. CASE ~Rotates
  BY <1>3 DEF Writable
<1>4. QED
  BY <1>2, <1>3

LEMMA AppendKeeps ==
  ASSUME TypeOK, WriterAtEnd, CanAppend, NEW r \in Record,
         segs' = [Writable EXCEPT ![Target] = Append(@, r)]
  PROVE  Kept(0)
<1> SUFFICES ASSUME NEW f \in DOMAIN segs, NEW i \in DOMAIN segs[f], Reachable(f, i)
             PROVE  f \in DOMAIN segs' /\ i \in DOMAIN segs'[f] /\ Reachable(f, i)'
  BY DEF Kept
<1>1. f \in DOMAIN Writable /\ Writable[f] = segs[f]
  BY WritableKeeps
<1>2. i \in 1 .. Len(segs[f]) /\ segs[f] \in Seq(Record) /\ Len(segs[f]) \in Nat
  BY DEF TypeOK
<1>3. CASE f = Target
  <2>1. /\ f \in DOMAIN segs' /\ segs'[f] \in Seq(Record)
        /\ Len(segs'[f]) = Len(segs[f]) + 1
        /\ \A j \in 1 .. Len(segs[f]) : segs'[f][j] = segs[f][j]
    BY <1>1, <1>3, AppendShape, WritableShape
  <2>2. i \in DOMAIN segs'[f] /\ \A j \in 1 .. i : segs'[f][j] = segs[f][j]
    BY <1>2, <2>1
  <2>3. QED
    BY <2>1, <2>2 DEF Reachable
<1>4. CASE f # Target
  <2>1. f \in DOMAIN segs' /\ segs'[f] = segs[f]
    BY <1>1, <1>4, AppendShape
  <2>2. QED
    BY <2>1 DEF Reachable
<1>5. QED
  BY <1>3, <1>4

LEMMA WritableKept ==
  ASSUME TypeOK, WriterAtEnd, CanAppend, segs' = Writable
  PROVE  Kept(0)
  BY WritableKeeps DEF Kept, Reachable

\* The step leaves both checkpoint files as they are.
LEMMA CoverSameBases ==
  ASSUME TypeOK, LogCoversCheckpoints, hist' = hist, damage' = damage, Kept(0),
         main' \in {main, NoFile}, prev' \in {prev, NoFile}
  PROVE  LogCoversCheckpoints'
<1>1. \A base \in {main', prev'} \ {NoFile} : base >= 0 /\ base \in {main, prev}
  BY DEF TypeOK
<1>2. QED
  BY <1>1, CoverageKept

LEMMA CoverAppendRecord ==
  ASSUME IInv, Covered, NEW op \in Ops, AppendRecord(op)
  PROVE  LogCoversCheckpoints'
<1>1. /\ CanAppend /\ TypeOK /\ WriterAtEnd /\ nextLsn \in Nat \ {0} /\ hist \in Seq(Ops)
      /\ LogCoversCheckpoints
  BY DEF AppendRecord, IInv, TypeOK, Covered
<1>2. Good(nextLsn, op) \in Record /\ Good(nextLsn, op).ok = TRUE
  BY <1>1, RecordType DEF Good
<1>3. Kept(0)
  BY <1>1, <1>2, AppendKeeps DEF AppendRecord
<1>4. /\ main' = main /\ prev' = prev /\ damage' = damage
      /\ Len(hist') = Len(hist) + 1 /\ Len(hist) \in Nat
  BY <1>1 DEF AppendRecord
<1>5. /\ Target \in DOMAIN segs' /\ Target \in Nat \ {0} /\ TargetEnd \in Nat
      /\ Target + TargetEnd = Len(hist) + 1
      /\ TargetEnd + 1 \in DOMAIN segs'[Target]
      /\ \A j \in 1 .. TargetEnd + 1 : segs'[Target][j].ok
  <2>1. /\ DOMAIN segs' = DOMAIN Writable
        /\ segs'[Target] \in Seq(Record)
        /\ Len(segs'[Target]) = TargetEnd + 1
        /\ segs'[Target][TargetEnd + 1] = Good(nextLsn, op)
        /\ \A i \in 1 .. TargetEnd : segs'[Target][i] = Writable[Target][i]
        /\ Target \in DOMAIN Writable
    BY <1>1, <1>2, AppendShape, WritableShape DEF AppendRecord
  <2>2. /\ Target \in Nat \ {0} /\ TargetEnd \in Nat /\ Target + TargetEnd = Len(hist) + 1
        /\ \A j \in 1 .. TargetEnd : Writable[Target][j].ok
    BY <1>1, WritableShape
  <2>3. QED
    BY <1>2, <2>1, <2>2
<1>6. SUFFICES ASSUME damage = 0, NEW base \in {main, prev} \ {NoFile},
                      NEW l \in base + 1 .. Len(hist) + 1
               PROVE  \E f \in DOMAIN segs' :
                        /\ f <= l
                        /\ l - f + 1 \in DOMAIN segs'[f]
                        /\ \A j \in 1 .. l - f + 1 : segs'[f][j].ok
  BY <1>4 DEF LogCoversCheckpoints, Reachable
<1>7. base \in Nat /\ l \in Nat
  BY <1>1, <1>4 DEF TypeOK
<1>8. CASE l = Len(hist) + 1
  <2>1. l - Target + 1 = TargetEnd + 1 /\ Target <= l
    BY <1>4, <1>5, <1>8
  <2>2. QED
    BY <1>5, <2>1
<1>9. CASE l \in base + 1 .. Len(hist)
  <2>1. PICK f \in DOMAIN segs :
          f <= l /\ l - f + 1 \in DOMAIN segs[f] /\ Reachable(f, l - f + 1)
    BY <1>1, <1>6, <1>9 DEF LogCoversCheckpoints
  <2>2. f \in Nat /\ f + (l - f + 1) - 1 > 0
    BY <1>1, <1>7, <1>9 DEF TypeOK
  <2>3. f \in DOMAIN segs' /\ l - f + 1 \in DOMAIN segs'[f] /\ Reachable(f, l - f + 1)'
    BY <1>3, <2>1, <2>2 DEF Kept
  <2>4. QED
    BY <2>1, <2>3 DEF Reachable
<1>10. QED
  BY <1>4, <1>6, <1>7, <1>8, <1>9

LEMMA CoverAppendFails ==
  ASSUME IInv, Covered, NEW op \in Ops, AppendFails(op)
  PROVE  LogCoversCheckpoints'
<1>1. /\ CanAppend /\ TypeOK /\ WriterAtEnd /\ LogCoversCheckpoints
      /\ main' = main /\ prev' = prev /\ hist' = hist /\ damage' = damage
  BY DEF AppendFails, IInv, Covered
<1>2. Torn(nextLsn, op) \in Record
  BY <1>1, RecordType DEF TypeOK
<1>3. Kept(0)
  BY <1>1, <1>2, AppendKeeps, WritableKept DEF AppendFails
<1>4. QED
  BY <1>1, <1>3, CoverSameBases

\* An empty segment made under a new name, or under that of an empty one.
LEMMA NewSegmentKeeps ==
  ASSUME TypeOK, NEW l \in Nat \ {0}, segs' = WithEmptySegment(segs, l),
         l \in DOMAIN segs => segs[l] = <<>>
  PROVE  Kept(0)
<1> SUFFICES ASSUME NEW f \in DOMAIN segs, NEW i \in DOMAIN segs[f]
             PROVE  f \in DOMAIN segs' /\ segs'[f] = segs[f]
  BY DEF Kept, Reachable
<1>1. QED
  BY EmptySegmentType

LEMMA CoverRotateFails ==
  ASSUME IInv, Covered, RotateFails
  PROVE  LogCoversCheckpoints'
<1>1. /\ CanAppend /\ Rotates /\ TypeOK /\ WriterAtEnd /\ LogCoversCheckpoints
      /\ main' = main /\ prev' = prev /\ hist' = hist /\ damage' = damage
  BY DEF RotateFails, IInv, Covered
<1>2. CASE UNCHANGED segs
  BY <1>1, <1>2, SameFilesKept, CoverSameBases
<1>3. CASE segs' = WithEmptySegment(segs, nextLsn)
  <2>1. segs' = Writable
    BY <1>1, <1>3 DEF Writable
  <2>2. QED
    BY <1>1, <2>1, WritableKept, CoverSameBases
<1>4. QED
  BY <1>2, <1>3 DEF RotateFails

\* A truncation at lsn drops no reachable record from lsn on.
LEMMA TruncationKeeps ==
  ASSUME TypeOK, SegmentsTrue, mainLsn \in Nat, NEW g \in DOMAIN segs,
         segs' = [f \in {f \in DOMAIN segs : f >= g} \cup DOMAIN Truncated(TruncationPoint)
                    |-> segs[f]]
  PROVE  Kept(mainLsn)
<1> SUFFICES ASSUME NEW f \in DOMAIN segs, NEW i \in DOMAIN segs[f], Reachable(f, i),
                    f + i - 1 > mainLsn
             PROVE  f \in DOMAIN segs' /\ segs'[f] = segs[f]
  BY DEF Kept, Reachable
<1>1. f \in Nat /\ i \in Nat /\ \A h \in DOMAIN segs : h > f => f + i - 1 < h /\ h \in Nat
  BY DEF SegmentsTrue, TypeOK
<1>2. \A h \in DOMAIN segs : h > f => h > TruncationPoint
  BY <1>1 DEF TruncationPoint
<1>3. f \in DOMAIN Truncated(TruncationPoint)
  BY <1>2 DEF Truncated
<1>4. QED
  BY <1>3

LEMMA CoverCheckpoint ==
  ASSUME IInv, Covered, Checkpoint
  PROVE  LogCoversCheckpoints'
<1>1. /\ phase = "open" /\ TypeOK /\ WriterAtEnd /\ SegmentsTrue /\ CheckpointsTrue
      /\ LogCoversCheckpoints /\ nextLsn = Len(hist) + 1 /\ Len(hist) \in Nat
      /\ mainLsn \in Nat
  BY DEF Checkpoint, IInv, Covered, TypeOK, WriterAtEnd
<1>2. hist' = hist /\ damage' = damage /\ main' = Len(hist) /\ prev' = LinkedPrev
  BY <1>1 DEF Checkpoint
<1>3. Kept(mainLsn)
  BY <1>1, TruncationKeeps DEF Checkpoint
<1>4. LinkedPrev \in {main, prev} /\ (LinkedPrev # NoFile => LinkedPrev >= mainLsn)
  BY <1>1 DEF LinkedPrev, CheckpointsTrue, TypeOK
<1>5. \A base \in {main', prev'} \ {NoFile} :
        \/ base \in Nat /\ base >= Len(hist)
        \/ base >= mainLsn /\ base \in {main, prev}
  BY <1>1, <1>2, <1>4
<1>6. QED
  BY <1>1, <1>2, <1>3, <1>5, CoverageKept

LEMMA CoverCheckpointFails ==
  ASSUME IInv, Covered, CheckpointFails
  PROVE  LogCoversCheckpoints'
<1>1. /\ phase = "open" /\ TypeOK /\ LogCoversCheckpoints /\ nextLsn = Len(hist) + 1
      /\ Len(hist) \in Nat
      /\ hist' = hist /\ damage' = damage /\ segs' = segs
  BY DEF CheckpointFails, IInv, Covered, TypeOK, WriterAtEnd
<1>2. main' \in {main, Len(hist)} /\ prev' \in {main, prev, NoFile}
  BY <1>1 DEF CheckpointFails, LinkedPrev
<1>3. \A base \in {main', prev'} \ {NoFile} :
        \/ base \in Nat /\ base >= Len(hist)
        \/ base >= 0 /\ base \in {main, prev}
  BY <1>1, <1>2 DEF TypeOK
<1>4. QED
  BY <1>1, <1>3, SameFilesKept, CoverageKept

LEMMA CoverCrash ==
  ASSUME IInv, Covered, Crash
  PROVE  LogCoversCheckpoints'
<1>1. /\ TypeOK /\ WriterAtEnd /\ LogCoversCheckpoints
      /\ main' = main /\ prev' = prev /\ hist' = hist /\ damage' = damage
  BY DEF Crash, IInv, Covered
<1>2. Kept(0)
  <2>1. CASE UNCHANGED segs
    BY <2>1, SameFilesKept
  <2>2. ASSUME CanAppend, NEW op \in Ops,
               segs' = [Writable EXCEPT ![Target] = Append(@, Torn(nextLsn, op))]
        PROVE  Kept(0)
    <3>1. Torn(nextLsn, op) \in Record
      BY <1>1, RecordType DEF TypeOK
    <3>2. QED
      BY <1>1, <2>2, <3>1, AppendKeeps
  <2>3. QED
    BY <2>1, <2>2 DEF Crash
<1>3. QED
  BY <1>1, <1>2, CoverSameBases

LEMMA CoverSameFiles ==
  ASSUME IInv, Covered, LoadMain \/ LoadPrev \/ ScanStep
  PROVE  LogCoversCheckpoints'
<1>1. /\ TypeOK /\ LogCoversCheckpoints
      /\ segs' = segs /\ hist' = hist /\ damage' = damage
      /\ main' \in {main, NoFile} /\ prev' = prev
  BY ScanFrame DEF LoadMain, LoadPrev, BeginScan, IInv, Covered
<1>2. QED
  BY <1>1, SameFilesKept, CoverSameBases

\* The segments OpLog::Open removes hold no reachable record.
LEMMA CoverOpenRemove ==
  ASSUME IInv, Covered, OpenRemove
  PROVE  LogCoversCheckpoints'
<1>1. /\ TypeOK /\ SegmentsTrue /\ LogCoversCheckpoints /\ ScanComplete
      /\ phase \in {"scanned", "removing"}
      /\ main' = main /\ prev' = prev /\ hist' = hist /\ damage' = damage
  BY DEF OpenRemove, IInv, Covered
<1>2. CASE damage = 0
  <2>1. expected = Len(hist) + 1 /\ Len(hist) \in Nat
    BY <1>1, <1>2 DEF ScanComplete, TypeOK
  <2>2. PICK g \in DOMAIN segs : Stale(g) /\ segs' = [f \in DOMAIN segs \ {g} |-> segs[f]]
    BY DEF OpenRemove
  <2>3. ASSUME NEW i \in DOMAIN segs[g], Reachable(g, i) PROVE FALSE
    <3>1. g + i - 1 <= Len(hist) /\ g \in Nat /\ i \in Nat \ {0}
      BY <1>1, <2>3 DEF SegmentsTrue, TypeOK
    <3>2. g >= Len(hist) + 1
      BY <2>1, <2>2 DEF Stale, NextLsnAfterScan
    <3>3. QED
      BY <2>1, <3>1, <3>2
  <2>4. Kept(0)
    BY <2>2, <2>3 DEF Kept, Reachable
  <2>5. QED
    BY <1>1, <2>4, CoverSameBases
<1>3. CASE damage # 0
  BY <1>1, <1>3 DEF LogCoversCheckpoints
<1>4. QED
  BY <1>2, <1>3

LEMMA CoverOpenCreate ==
  ASSUME IInv, Covered, OpenCreate
  PROVE  LogCoversCheckpoints'
<1>1. /\ TypeOK /\ LogCoversCheckpoints /\ ScanComplete
      /\ phase \in {"scanned", "removing"}
      /\ main' = main /\ prev' = prev /\ damage' = damage
      /\ hist \in Seq(Ops) /\ expected \in Nat \ {0}
      /\ segs' = WithEmptySegment(segs, expected) /\ hist' = SubSeq(hist, 1, expected - 1)
  BY DEF OpenCreate, IInv, Covered, NextLsnAfterScan, TypeOK
<1>2. CASE damage = 0
  <2>1. expected = Len(hist) + 1 /\ Len(hist) \in Nat
    BY <1>1, <1>2 DEF ScanComplete
  <2>2. hist' = hist
    BY <1>1, <2>1, SubSeqFull
  <2>3. expected \notin DOMAIN segs
    BY <1>1 DEF OpenCreate, Stale, NextLsnAfterScan
  <2>4. QED
    BY <1>1, <2>2, <2>3, NewSegmentKeeps, CoverSameBases
<1>3. CASE damage # 0
  BY <1>1, <1>3 DEF LogCoversCheckpoints
<1>4. QED
  BY <1>2, <1>3

\* A power failure ends the promise for good.
LEMMA CoverPowerLoss ==
  ASSUME IInv, PowerLoss
  PROVE  LogCoversCheckpoints'
<1>1. damage' \in Nat \ {0}
  BY DEF PowerLoss, IInv, TypeOK
<1>2. QED
  BY <1>1 DEF LogCoversCheckpoints

\* The record the scan waits for is on disk, unless it waits for the one
\* after the last.
LEMMA NextIsOnDisk ==
  ASSUME IInv, LogCoversCheckpoints, phase = "scanning", damage = 0, expected <= Len(hist)
  PROVE  \E f \in DOMAIN segs : \E i \in DOMAIN segs[f] :
           Reachable(f, i) /\ f <= expected /\ f + i - 1 = expected
<1>1. /\ from \in Nat \ {0} /\ expected \in Nat /\ from <= expected /\ Len(hist) \in Nat
      /\ \A f \in DOMAIN segs : f \in Nat
  BY ScanningFacts
<1>2. PICK base \in {main, prev} \ {NoFile} : base = from - 1
  BY <1>1 DEF IInv, CheckpointsTrue, Recovering
<1>3. expected \in base + 1 .. Len(hist)
  BY <1>1, <1>2
<1>4. PICK f \in DOMAIN segs :
        f <= expected /\ expected - f + 1 \in DOMAIN segs[f] /\ Reachable(f, expected - f + 1)
  BY <1>2, <1>3 DEF LogCoversCheckpoints
<1>5. f + (expected - f + 1) - 1 = expected
  BY <1>1
<1>6. QED
  BY <1>4, <1>5

LEMMA CompleteScan ==
  ASSUME IInv, Covered, [Next]_vars
  PROVE  ScanComplete'
<1> SUFFICES ASSUME phase' \in {"scanned", "removing"}, damage' = 0
             PROVE  expected' = Len(hist') + 1
  BY DEF ScanComplete
<1> USE DEF scanner, writer
<1>1. CASE StopAtGap \/ ScanEnd
  <2>1. /\ phase = "scanning" /\ expected' = expected /\ hist' = hist /\ damage = 0 /\ ScanStep
    BY <1>1 DEF StopAtGap, ScanEnd, ScanStep
  <2>2. /\ expected \in Nat /\ Len(hist) \in Nat /\ expected <= Len(hist) + 1 /\ seg \in Nat
        /\ LogCoversCheckpoints
    BY <2>1, ScanningFacts DEF Covered
  <2>3. ASSUME NEW f \in DOMAIN segs, NEW i \in DOMAIN segs[f], Reachable(f, i), f <= expected
        PROVE  Passed(f, i)
    <3>1. CASE ScanEnd
      BY <2>3, <3>1, AllPassed DEF ScanEnd
    <3>2. CASE StopAtGap
      <4>1. expected < seg /\ f \in Nat
        BY <2>1, <3>2, GapAtSegmentStart, ScanningFacts DEF StopAtGap
      <4>2. QED
        BY <2>2, <2>3, <4>1 DEF Passed
    <3>3. QED
      BY <1>1, <3>1, <3>2
  <2>4. ~(expected <= Len(hist))
    <3>1. SUFFICES ASSUME expected <= Len(hist) PROVE FALSE
      OBVIOUS
    <3>2. PICK f \in DOMAIN segs : \E i \in DOMAIN segs[f] :
            Reachable(f, i) /\ f <= expected /\ f + i - 1 = expected
      BY <2>1, <2>2, <3>1, NextIsOnDisk
    <3>3. PICK i \in DOMAIN segs[f] : Reachable(f, i) /\ f <= expected /\ f + i - 1 = expected
      BY <3>2
    <3>4. f + i - 1 < expected
      BY <2>1, <2>3, <3>3, ScanningFacts
    <3>5. QED
      BY <2>2, <3>3, <3>4
  <2>5. QED
    BY <2>1, <2>2, <2>4
<1>2. CASE OpenRemove
  BY <1>2 DEF OpenRemove, Covered, ScanComplete
<1>3. CASE UNCHANGED vars
  BY <1>3 DEF vars, Covered, ScanComplete
<1>4. CASE \/ \E op \in Ops : AppendRecord(op) \/ AppendFails(op)
           \/ RotateFails \/ Checkpoint \/ CheckpointFails \/ Crash \/ PowerLoss
           \/ LoadMain \/ LoadPrev \/ ScanSegment \/ SkipRecord \/ AcceptRecord \/ OpenCreate
  BY <1>4 DEF AppendRecord, AppendFails, RotateFails, CanAppend, Checkpoint, CheckpointFails,
              Crash, PowerLoss, LoadMain, LoadPrev, BeginScan, ScanSegment, SkipRecord,
              AcceptRecord, OpenCreate
<1>5. QED
  BY <1>1, <1>2, <1>3, <1>4 DEF Next, ScanStep

LEMMA CoverInit == Init => Covered
<1> SUFFICES ASSUME Init PROVE Covered
  OBVIOUS
<1>1. Len(hist) = 0 /\ main = 0 /\ prev = NoFile
  BY EmptySeq DEF Init
<1>2. LogCoversCheckpoints
  BY <1>1 DEF LogCoversCheckpoints
<1>3. ScanComplete
  BY DEF Init, ScanComplete
<1>4. QED
  BY <1>2, <1>3 DEF Covered

LEMMA CoverNext ==
  ASSUME IInv, Covered, [Next]_vars
  PROVE  Covered'
<1>1. CASE UNCHANGED vars
  BY <1>1 DEF vars, Covered, LogCoversCheckpoints, ScanComplete, Reachable
<1>2. CASE Next
  <2>1. LogCoversCheckpoints'
    BY <1>2, CoverAppendRecord, CoverAppendFails, CoverRotateFails, CoverCheckpoint,
       CoverCheckpointFails, CoverCrash, CoverPowerLoss, CoverSameFiles, CoverOpenRemove,
       CoverOpenCreate DEF Next
  <2>2. QED
    BY <2>1, CompleteScan DEF Covered
<1>3. QED
  BY <1>1, <1>2

\* The truncation and the removals of start-up never take a record that one
\* of the checkpoint files still needs (checkpointLocked: "The log must
\* still cover the previous checkpoint").
THEOREM LogKeepsWhatCheckpointsNeed == Spec => []LogCoversCheckpoints
<1>1. IInv /\ Covered /\ [Next]_vars => Covered'
  BY CoverNext
<1>2. Covered => LogCoversCheckpoints
  BY DEF Covered
<1>3. QED
  BY <1>1, <1>2, InvInit, InvNext, CoverInit, PTL DEF Spec

\* Until a power failure strikes, a scan returns every operation appended
\* after the checkpoint it starts from (recoverFromOpLog).
THEOREM ScanReturnsEverything == Spec => []ScanComplete
<1>1. IInv /\ Covered /\ [Next]_vars => Covered'
  BY CoverNext
<1>2. Covered => ScanComplete
  BY DEF Covered
<1>3. QED
  BY <1>1, <1>2, InvInit, InvNext, CoverInit, PTL DEF Spec

=============================================================================
