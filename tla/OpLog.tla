------------------------------- MODULE OpLog -------------------------------
(***************************************************************************)
(* The operation log of an AsterVec store (oplog.h, oplog.cc) together     *)
(* with the only part of AsterVecDB that decides how the log is used: the  *)
(* lsn recorded by the checkpoint files and the scan done at start-up.     *)
(*                                                                         *)
(* A segment file is a sequence of records; a record that is torn or fails *)
(* its checksum has ok = FALSE.  The files live in segs, a function from   *)
(* the first lsn (the file's name) to its records.  Every record counts    *)
(* one unit of offset_, so SegmentBytes is the number of records after     *)
(* which a segment is rotated.                                             *)
(*                                                                         *)
(* Scan is a state machine of its own: one step per segment opened or      *)
(* skipped and one per record, so that a crash may fall between any two.   *)
(***************************************************************************)
EXTENDS Naturals, Sequences, FiniteSets

CONSTANTS
  Ops,           \* what a record says; two values tell a stale record from a live one
  SegmentBytes,  \* segment_bytes_: rotate once offset_ has reached it
  MaxLsn,        \* bound: the highest lsn handed out
  MaxDamage,     \* bound: records or checkpoint files lost to power failures
  NoFile         \* the value of a checkpoint file that does not exist

ASSUME OpsAssumption == Ops # {}
ASSUME SegmentBytesAssumption == SegmentBytes \in Nat \ {0}
ASSUME MaxLsnAssumption == MaxLsn \in Nat
ASSUME MaxDamageAssumption == MaxDamage \in Nat
ASSUME NoFileAssumption == NoFile \notin Nat

VARIABLES
  segs,      \* first lsn -> records: the files of oplog/
  phase,     \* "down", "scanning", "scanned", "removing" or "open"
  nextLsn,   \* next_lsn_
  cur,       \* first lsn of the segment fd_ appends to
  offset,    \* offset_
  broken,    \* broken_
  from,      \* from_lsn of the running scan
  seg,       \* the segment the scan is in (0: before the first)
  pos,       \* the next record of that segment
  expected,  \* the lsn the scan accepts next
  accepted,  \* the operations handed to the callback so far
  main,      \* checkpoint lsn in lsm_vec_db.meta
  prev,      \* checkpoint lsn in lsm_vec_db.meta.prev
  mainLsn,   \* main_checkpoint_lsn_
  hist,      \* history: the operation appended under each lsn
  damage     \* history: records and files lost so far

files    == <<segs, main, prev>>
writer   == <<nextLsn, cur, offset, broken>>
scanner  == <<from, seg, pos, expected, accepted>>
vars     == <<segs, phase, nextLsn, cur, offset, broken, from, seg, pos,
              expected, accepted, main, prev, mainLsn, hist, damage>>

Record == [lsn : Nat \ {0}, op : Ops, ok : BOOLEAN]
Good(l, op) == [lsn |-> l, op |-> op, ok |-> TRUE]
Torn(l, op) == [lsn |-> l, op |-> op, ok |-> FALSE]

\* openSegmentLocked: the file named after next_lsn_, created or truncated.
WithEmptySegment(files_, l) ==
  [f \in DOMAIN files_ \cup {l} |-> IF f = l THEN <<>> ELSE files_[f]]

\* listSegments: the segment that follows f in lsn order (f = 0: the first).
Follows(f, g) ==
  /\ g \in DOMAIN segs
  /\ g > f
  /\ \A h \in DOMAIN segs : h > f => h >= g

TypeOK ==
  /\ DOMAIN segs \subseteq Nat \ {0}
  /\ \A f \in DOMAIN segs : segs[f] \in Seq(Record)
  /\ phase \in {"down", "scanning", "scanned", "removing", "open"}
  /\ nextLsn \in Nat \ {0}
  /\ cur \in Nat
  /\ offset \in Nat
  /\ broken \in BOOLEAN
  /\ from \in Nat \ {0}
  /\ seg \in Nat
  /\ pos \in Nat \ {0}
  /\ expected \in Nat \ {0}
  /\ accepted \in Seq(Ops)
  /\ main \in Nat \cup {NoFile}
  /\ prev \in Nat \cup {NoFile}
  /\ mainLsn \in Nat
  /\ hist \in Seq(Ops)
  /\ damage \in Nat

\* A store whose first checkpoint (lsn 0) has just been written, before its
\* log directory exists.
Init ==
  /\ segs = [f \in {} |-> <<>>]
  /\ phase = "down"
  /\ nextLsn = 1 /\ cur = 0 /\ offset = 0 /\ broken = FALSE
  /\ from = 1 /\ seg = 0 /\ pos = 1 /\ expected = 1 /\ accepted = <<>>
  /\ main = 0 /\ prev = NoFile /\ mainLsn = 0
  /\ hist = <<>>
  /\ damage = 0

-----------------------------------------------------------------------------
(* Appending.                                                              *)

\* Append rotates a full segment before it writes.
Rotates   == offset >= SegmentBytes
Writable  == IF Rotates THEN WithEmptySegment(segs, nextLsn) ELSE segs
Target    == IF Rotates THEN nextLsn ELSE cur
TargetEnd == IF Rotates THEN 0 ELSE offset

CanAppend == phase = "open" /\ ~broken /\ nextLsn <= MaxLsn

\* Append: the record goes to the end of the current segment.
AppendRecord(op) ==
  /\ CanAppend
  /\ segs' = [Writable EXCEPT ![Target] = Append(@, Good(nextLsn, op))]
  /\ cur' = Target
  /\ offset' = TargetEnd + 1
  /\ nextLsn' = nextLsn + 1
  /\ hist' = Append(hist, op)
  /\ UNCHANGED <<phase, broken, scanner, main, prev, mainLsn, damage>>

\* Append whose write fails part way: the partial record is cut off again,
\* or the log refuses every later append because even that failed.  The
\* lsn is not consumed in either case.
AppendFails(op) ==
  /\ CanAppend
  /\ cur' = Target
  /\ offset' = TargetEnd
  /\ \/ segs' = Writable /\ UNCHANGED broken
     \/ /\ segs' = [Writable EXCEPT ![Target] = Append(@, Torn(nextLsn, op))]
        /\ broken' = TRUE
  /\ UNCHANGED <<phase, nextLsn, scanner, main, prev, mainLsn, hist, damage>>

\* Append whose rotation fails: the new file could not be created, or its
\* directory entry could not be synced.
RotateFails ==
  /\ CanAppend
  /\ Rotates
  /\ \/ UNCHANGED <<segs, cur, offset>>
     \/ /\ segs' = WithEmptySegment(segs, nextLsn)
        /\ cur' = nextLsn /\ offset' = 0
  /\ broken' = TRUE
  /\ UNCHANGED <<phase, nextLsn, scanner, main, prev, mainLsn, hist, damage>>

-----------------------------------------------------------------------------
(* Checkpoints and truncation.                                             *)

\* TruncateBelow: segment f goes once the segment after it starts at or
\* below lsn; the newest segment always stays.
Truncated(lsn) ==
  [f \in {g \in DOMAIN segs : \A h \in DOMAIN segs : h > g => h > lsn} |-> segs[f]]

\* writeMetadataFile's hard link: .prev names the checkpoint that
\* lsm_vec_db.meta names now, if that file exists.
LinkedPrev == IF main # NoFile THEN main ELSE prev

\* Mutant of TruncationPoint: up to the new checkpoint.
TruncationPointOfNewest == nextLsn

\* The log must still cover .prev, the checkpoint that was the main one.
TruncationPoint == mainLsn + 1

\* checkpointLocked with an operation log.  A file of the log that cannot
\* be removed ends the truncation early; that is only warned about.
Checkpoint ==
  /\ phase = "open"
  /\ main' = nextLsn - 1
  /\ prev' = LinkedPrev
  /\ mainLsn' = nextLsn - 1
  /\ \E f \in DOMAIN segs :
       LET kept == {g \in DOMAIN segs : g >= f} \cup DOMAIN Truncated(TruncationPoint)
       IN  segs' = [g \in kept |-> segs[g]]
  /\ UNCHANGED <<phase, writer, scanner, hist, damage>>

\* checkpointLocked that stops inside writeMetadataFile, by an error or by
\* a crash right after: .prev removed, .prev linked, or the new file
\* installed and its directory entry not known to be durable.
CheckpointFails ==
  /\ phase = "open"
  /\ \/ main # NoFile /\ prev' = NoFile /\ UNCHANGED main
     \/ prev' = LinkedPrev /\ UNCHANGED main
     \/ prev' = LinkedPrev /\ main' = nextLsn - 1
  /\ UNCHANGED <<segs, phase, writer, scanner, mainLsn, hist, damage>>

-----------------------------------------------------------------------------
(* Crashes.                                                                *)

\* The scan's variables are gone once Scan has returned.
ForgetScan ==
  from' = 1 /\ seg' = 0 /\ pos' = 1 /\ expected' = 1 /\ accepted' = <<>>

\* The process dies, at any point; an append under way may leave a torn
\* record behind.
Crash ==
  /\ phase # "down"
  /\ phase' = "down"
  /\ \/ UNCHANGED segs
     \/ /\ CanAppend
        /\ \E op \in Ops :
             segs' = [Writable EXCEPT ![Target] = Append(@, Torn(nextLsn, op))]
  /\ nextLsn' = 1 /\ cur' = 0 /\ offset' = 0 /\ broken' = FALSE /\ mainLsn' = 0
  /\ ForgetScan
  /\ UNCHANGED <<main, prev, hist, damage>>

\* Appends are never synced, so a power failure may lose any record of any
\* segment: it reads back corrupt, or the file ends before it.
PowerLoss ==
  /\ phase = "down"
  /\ damage < MaxDamage
  /\ damage' = damage + 1
  /\ \E f \in DOMAIN segs : \E i \in DOMAIN segs[f] :
       \/ segs' = [segs EXCEPT ![f][i].ok = FALSE]
       \/ segs' = [segs EXCEPT ![f] = SubSeq(@, 1, i - 1)]
  /\ UNCHANGED <<phase, writer, scanner, main, prev, mainLsn, hist>>

-----------------------------------------------------------------------------
(* Start-up: load a checkpoint, scan from its lsn, reopen the log.         *)

BeginScan(lsn) ==
  /\ phase' = "scanning"
  /\ mainLsn' = lsn
  /\ from' = lsn + 1 /\ expected' = lsn + 1
  /\ seg' = 0 /\ pos' = 1 /\ accepted' = <<>>
  /\ UNCHANGED <<segs, writer, prev, hist, damage>>

\* Open loads lsm_vec_db.meta ...
LoadMain ==
  /\ phase = "down"
  /\ main # NoFile
  /\ BeginScan(main)
  /\ UNCHANGED main

\* ... or, when that file is missing or damaged, removes it and falls back
\* to lsm_vec_db.meta.prev.
LoadPrev ==
  /\ phase = "down"
  /\ prev # NoFile
  /\ main' = NoFile
  /\ BeginScan(prev)

\* The scan of the current segment is over: nothing left, or a bad record.
SegmentDone ==
  \/ seg = 0
  \/ seg # 0 /\ pos > Len(segs[seg])
  \/ seg # 0 /\ pos \in DOMAIN segs[seg] /\ ~segs[seg][pos].ok

\* Mutant of Skipped: one lsn too many.
SkippedUpToNext(g) == \E h \in DOMAIN segs : h > g /\ h <= from + 1

\* A segment is skipped when the one after it starts at or below from_lsn.
Skipped(g) == \E h \in DOMAIN segs : h > g /\ h <= from

ScanSegment ==
  /\ phase = "scanning"
  /\ SegmentDone
  /\ \E g \in DOMAIN segs :
       /\ Follows(seg, g)
       /\ seg' = g
       /\ pos' = IF Skipped(g) THEN Len(segs[g]) + 1 ELSE 1
  /\ UNCHANGED <<files, phase, writer, from, expected, accepted, mainLsn, hist, damage>>

\* A record below from_lsn is read and dropped.
SkipRecord ==
  /\ phase = "scanning" /\ ~SegmentDone
  /\ segs[seg][pos].lsn < from
  /\ pos' = pos + 1
  /\ UNCHANGED <<files, phase, writer, from, seg, expected, accepted, mainLsn, hist, damage>>

\* A record whose lsn is not the expected one ends the scan for good.
StopAtGap ==
  /\ phase = "scanning" /\ ~SegmentDone
  /\ segs[seg][pos].lsn >= from /\ segs[seg][pos].lsn # expected
  /\ phase' = "scanned"
  /\ UNCHANGED <<files, writer, scanner, mainLsn, hist, damage>>

AcceptRecord ==
  /\ phase = "scanning" /\ ~SegmentDone
  /\ segs[seg][pos].lsn >= from /\ segs[seg][pos].lsn = expected
  /\ pos' = pos + 1
  /\ accepted' = Append(accepted, segs[seg][pos].op)
  /\ expected' = expected + 1
  /\ UNCHANGED <<files, phase, writer, from, seg, mainLsn, hist, damage>>

ScanEnd ==
  /\ phase = "scanning"
  /\ SegmentDone
  /\ ~\E g \in DOMAIN segs : g > seg
  /\ phase' = "scanned"
  /\ UNCHANGED <<files, writer, scanner, mainLsn, hist, damage>>

\* recoverFromOpLog reopens the log one past the last record accepted.
NextLsnAfterScan == expected

\* Mutant of Stale: no segment is removed.
NeverStale(f) == FALSE

\* The segments OpLog::Open removes: those that start at or after next_lsn.
Stale(f) == f >= NextLsnAfterScan

\* OpLog::Open removes the stale segments in lsn order ...
OpenRemove ==
  /\ phase \in {"scanned", "removing"}
  /\ phase' = "removing"
  /\ \E f \in DOMAIN segs :
       /\ Stale(f)
       /\ \A g \in DOMAIN segs : Stale(g) => g >= f
       /\ segs' = [g \in DOMAIN segs \ {f} |-> segs[g]]
  /\ UNCHANGED <<writer, scanner, main, prev, mainLsn, hist, damage>>

\* ... and creates a fresh segment.  What the scan did not accept is no
\* longer part of the history.
OpenCreate ==
  /\ phase \in {"scanned", "removing"}
  /\ \A f \in DOMAIN segs : ~Stale(f)
  /\ phase' = "open"
  /\ segs' = WithEmptySegment(segs, NextLsnAfterScan)
  /\ nextLsn' = NextLsnAfterScan /\ cur' = NextLsnAfterScan
  /\ offset' = 0 /\ broken' = FALSE
  /\ hist' = SubSeq(hist, 1, expected - 1)
  /\ ForgetScan
  /\ UNCHANGED <<main, prev, mainLsn, damage>>

-----------------------------------------------------------------------------

ScanStep == ScanSegment \/ SkipRecord \/ StopAtGap \/ AcceptRecord \/ ScanEnd

Next ==
  \/ \E op \in Ops : AppendRecord(op) \/ AppendFails(op)
  \/ RotateFails
  \/ Checkpoint \/ CheckpointFails
  \/ Crash \/ PowerLoss
  \/ LoadMain \/ LoadPrev
  \/ ScanStep
  \/ OpenRemove \/ OpenCreate

Spec == Init /\ [][Next]_vars

-----------------------------------------------------------------------------
(* Properties.                                                             *)

\* Record i of segment f is behind no bad record, so a scan can reach it.
Reachable(f, i) == \A j \in 1 .. i : segs[f][j].ok

Recovering == phase \in {"scanning", "scanned", "removing"}

\* A scan hands its callback exactly the operations appended under the lsns
\* from_lsn, from_lsn + 1, ... : never a record left over from a history
\* that an earlier recovery gave up, whatever a power failure did to the
\* files (oplog.h: "Scan never reaches them").
NoStaleReplay ==
  Recovering =>
    /\ expected = from + Len(accepted)
    /\ expected <= Len(hist) + 1
    /\ \A k \in 1 .. Len(accepted) : accepted[k] = hist[from + k - 1]

\* As long as only processes die, the scan of either checkpoint file's
\* suffix returns every operation ever appended: rotation, failed appends,
\* torn tails, failed checkpoints and truncation lose nothing, also when
\* the newer checkpoint file turns out damaged.
ScanComplete ==
  phase \in {"scanned", "removing"} /\ damage = 0 => expected = Len(hist) + 1

\* The log on disk covers both checkpoint files at all times: every lsn
\* after either one is in a segment, reachable (checkpointLocked: "The log
\* must still cover the previous checkpoint").
LogCoversCheckpoints ==
  damage = 0 =>
    \A base \in {main, prev} \ {NoFile} : \A l \in base + 1 .. Len(hist) :
      \E f \in DOMAIN segs :
        /\ f <= l
        /\ l - f + 1 \in DOMAIN segs[f]
        /\ Reachable(f, l - f + 1)

=============================================================================
