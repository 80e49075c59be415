--------------------------- MODULE StoreLifecycle ---------------------------
(***************************************************************************)
(* The files of a store from creation to reopening: AsterVecDB::Open step  *)
(* by step (src/src/astervec_db.cc), the checkpoint file lsm_vec_db.meta   *)
(* with its .prev and .reinit_bak copies, the creating marker, and the     *)
(* graph, vector file, payload rows and operation log next to them.        *)
(*                                                                         *)
(* A store that is created or reinitialised begins a new life; every data  *)
(* file belongs to the life that made it.  A checkpoint is abstracted to   *)
(* its life, how many writes it covers, the adjacency encoding, the id     *)
(* mode and whether its header and body read back.  A crash may fall       *)
(* between any two steps; directory operations that were done survive it.  *)
(* An I/O error of Open other than of a checkpoint leaves what a crash     *)
(* at that step leaves, and is not a case of its own.                      *)
(***************************************************************************)
EXTENDS Integers, FiniteSets

CONSTANTS Encodings,   \* ENCODING_TYPE_VARINT and _NONE, chosen by the environment
          Modes,       \* id modes: "dense", "keyed"
          NoFile,
          None,
          MaxLives,    \* bound: lives begun
          MaxWrites,   \* bound: writes in one life
          MaxCrashes,  \* bound: crashes
          MaxDamage,   \* bound: times the main checkpoint file is damaged
          MaxFailures  \* bound: checkpoints that fail with an I/O error

VARIABLES pc,       \* step of Open or of a checkpoint; "closed", "failed", "open"
          opt,      \* the options of this Open: reinit, id mode, log, encoding
          enc,      \* graph_encoding_internal
          fresh,    \* fresh_meta
          opening,  \* Open has not returned
          cur,      \* the loaded index: its checkpoint plus the writes since
          main, prev, bak,  \* lsm_vec_db.meta, .prev, .reinit_bak
          linked,   \* .prev is a second name of main (or of main renamed to bak)
          marker,   \* the creating marker: an encoding, or NoFile
          data,     \* the life each data file belongs to
          graphEnc, \* the encoding of the adjacency lists in the graph
          dirty,    \* writes_since_checkpoint_ # 0
          logged,   \* the operation log holds writes after the checkpoint
          life,     \* ghost: lives begun so far
          cutShort, \* ghost: a reinit was interrupted and none finished since; "lost"
                    \* if it also removed a .prev that was the only checkpoint
          stale,    \* ghost: a backup whose reinit had completed is "left" or "restored"
          harm,     \* ghost: the worst damage to main so far, see Damage
          budget    \* what is left of the bounds

metas == <<main, prev, linked, bak, marker>>
ghosts == <<life, cutShort, stale, harm>>
vars == <<pc, opt, enc, fresh, opening, cur, metas, data, graphEnc, dirty, logged, ghosts, budget>>

DataFiles == {"graph", "vectors", "rows", "log"}
Meta == [life : 1..MaxLives, n : 0..MaxWrites, enc : Encodings, mode : Modes,
         ok : {"ok", "body", "header"}]
Options == [reinit : BOOLEAN, mode : Modes \cup {"auto"}, log : BOOLEAN, env : Encodings]
Index == [life : 1..MaxLives, n : 0..MaxWrites, mode : Modes]

ASSUME BoundsAssumption ==
  /\ MaxLives \in Nat /\ MaxWrites \in Nat
  /\ MaxCrashes \in Nat /\ MaxDamage \in Nat /\ MaxFailures \in Nat
ASSUME ModesAssumption == Modes = {"dense", "keyed"}
ASSUME NothingAssumption ==
  /\ NoFile \notin Meta \cup Encodings \cup (1..MaxLives)
  /\ None \notin Options \cup Encodings \cup Index

Spend(what) == budget[what] > 0 /\ budget' = [budget EXCEPT ![what] = @ - 1]
Goto(p) == pc' = p

(***************************************************************************)
(* The checkpoint file                                                     *)
(***************************************************************************)

\* SerializeMetadata: header with its own CRC, body, CRC of the whole.
SerializeMetadata == [life |-> cur.life, n |-> cur.n, enc |-> enc, mode |-> cur.mode,
                      ok |-> "ok"]

\* PeekGraphEncoding reads the header only.
PeekGraphEncoding(f) == IF f = NoFile THEN "NotFound"
                        ELSE IF f.ok = "header" THEN "Corruption" ELSE "OK"

\* The header's encoding must be the one the graph was opened with.
DeserializeMetadataImpl(f) == f.enc = enc

\* DeserializeMetadata checks the CRC of the whole file, then reads it.
DeserializeMetadata(f) == f # NoFile /\ f.ok = "ok" /\ DeserializeMetadataImpl(f)

(***************************************************************************)
(* Open, until the index is constructed                                    *)
(***************************************************************************)

Init == /\ pc = "closed" /\ opt = None /\ enc = None /\ fresh = FALSE /\ opening = FALSE
        /\ cur = None /\ main = NoFile /\ prev = NoFile /\ bak = NoFile
        /\ linked = FALSE /\ marker = NoFile /\ data = [f \in DataFiles |-> NoFile]
        /\ graphEnc = None /\ dirty = FALSE /\ logged = FALSE
        /\ life = 0 /\ cutShort = "no" /\ stale = "no" /\ harm = "none"
        /\ budget = [crashes |-> MaxCrashes, damage |-> MaxDamage, failures |-> MaxFailures]

CutShort == IF cutShort = "no" THEN "kept" ELSE cutShort

\* reinit sets the main file aside, over an older backup, which goes first;
\* otherwise a backup whose main file is gone is put back.
StageMetadata ==
  /\ pc \in {"closed", "failed"}
  /\ \E o \in Options :
       /\ o.reinit => life < MaxLives
       /\ opt' = o
       /\ cutShort' = IF ~o.reinit \/ main # NoFile THEN cutShort
                      ELSE IF bak = NoFile /\ prev # NoFile THEN "lost" ELSE CutShort
       /\ \/ /\ o.reinit /\ main # NoFile
             /\ bak' = NoFile
             /\ stale' = IF stale = "restored" THEN stale ELSE "no"
             /\ Goto("stage") /\ UNCHANGED main
          \/ /\ ~o.reinit /\ main = NoFile /\ bak # NoFile
             /\ main' = bak /\ bak' = NoFile
             /\ stale' = IF stale = "left" THEN "restored" ELSE stale
             /\ Goto("peek")
          \/ /\ IF o.reinit THEN main = NoFile ELSE main # NoFile \/ bak = NoFile
             /\ Goto("peek") /\ UNCHANGED <<main, bak, stale>>
  /\ opening' = TRUE
  /\ UNCHANGED <<enc, fresh, cur, prev, linked, marker, data, graphEnc, dirty, logged, life,
                 harm, budget>>

StageRename ==
  /\ pc = "stage"
  /\ bak' = main /\ main' = NoFile
  /\ Goto("peek")
  /\ UNCHANGED <<opt, enc, fresh, opening, cur, prev, linked, marker, data, graphEnc, dirty,
                 logged, ghosts, budget>>

\* Resolve the encoding: from the main file, else from .prev, else from the
\* marker of an interrupted create, else (a new store) from the environment.
PeekStatus == LET m == PeekGraphEncoding(main) IN
              IF m # "OK" /\ ~opt.reinit /\ PeekGraphEncoding(prev) = "OK" THEN "prev" ELSE m
\* Mutant of InterruptedCreate: the marker is not looked at.
MarkerIgnored == FALSE

InterruptedCreate == ~opt.reinit /\ marker # NoFile

ResolveEncoding ==
  /\ pc = "peek"
  /\ prev' = IF opt.reinit THEN NoFile ELSE prev
  /\ linked' = (linked /\ ~opt.reinit)
  /\ harm' = IF opt.reinit /\ harm = "spare" THEN "only" ELSE harm
  /\ LET st == PeekStatus IN
     \/ /\ st \in {"OK", "prev"}
        /\ enc' = (IF st = "OK" THEN main ELSE prev).enc /\ fresh' = FALSE
        /\ Goto("graph")
     \/ /\ st = "NotFound" /\ (opt.reinit \/ InterruptedCreate \/ data["graph"] = NoFile)
        /\ data["graph"] = NoFile => life < MaxLives
        /\ enc' = IF InterruptedCreate THEN marker ELSE opt.env
        /\ fresh' = TRUE
        /\ Goto(IF opt.reinit \/ InterruptedCreate THEN "graph" ELSE "marker")
     \/ /\ \/ st = "NotFound" /\ ~opt.reinit /\ ~InterruptedCreate /\ data["graph"] # NoFile
           \/ st = "Corruption"
        /\ UNCHANGED <<enc, fresh>>
        /\ Goto("failed")                              \* Corruption
  /\ UNCHANGED <<opt, opening, cur, main, bak, marker, data, graphEnc, dirty, logged, life,
                 cutShort, stale, budget>>

\* The marker is written and fsynced before the first file of a new store.
WriteCreateMarker ==
  /\ pc = "marker"
  /\ marker' = enc
  /\ Goto("graph")
  /\ UNCHANGED <<opt, enc, fresh, opening, cur, main, prev, linked, bak, data, graphEnc, dirty,
                 logged, ghosts, budget>>

\* Mutant of OpenGraph: reinit keeps the adjacency lists it finds.
OpenGraphKept ==
  /\ pc = "graph"
  /\ IF opt.reinit \/ data["graph"] = NoFile
     THEN /\ life' = life + 1
          /\ data' = [data EXCEPT !["graph"] = life'] /\ UNCHANGED graphEnc
     ELSE UNCHANGED <<life, data, graphEnc>>
  /\ cutShort' = IF opt.reinit THEN CutShort ELSE cutShort
  /\ Goto("vectors")
  /\ UNCHANGED <<opt, enc, fresh, opening, cur, metas, dirty, logged, stale, harm, budget>>

\* The AsterVec constructor: RocksGraph, which reinit empties, ...
OpenGraph ==
  /\ pc = "graph"
  /\ IF opt.reinit \/ data["graph"] = NoFile
     THEN /\ life' = life + 1
          /\ data' = [data EXCEPT !["graph"] = life'] /\ graphEnc' = None
     ELSE UNCHANGED <<life, data, graphEnc>>
  /\ cutShort' = IF opt.reinit THEN CutShort ELSE cutShort
  /\ Goto("vectors")
  /\ UNCHANGED <<opt, enc, fresh, opening, cur, metas, dirty, logged, stale, harm, budget>>

\* ... and the vector file, which reinit removes first.
OpenVectors ==
  /\ pc = "vectors"
  /\ data' = IF opt.reinit \/ data["vectors"] = NoFile
             THEN [data EXCEPT !["vectors"] = life] ELSE data
  /\ Goto(IF opt.reinit THEN "unrow" ELSE IF fresh THEN "unlog" ELSE "load")
  /\ UNCHANGED <<opt, enc, fresh, opening, cur, metas, graphEnc, dirty, logged, ghosts, budget>>

(***************************************************************************)
(* Open, until it returns                                                  *)
(***************************************************************************)

\* Mutant of RemoveOldRows: the rows stay.
OldRowsKept ==
  /\ pc = "unrow"
  /\ Goto("unlog")
  /\ UNCHANGED <<opt, enc, fresh, opening, cur, metas, data, graphEnc, dirty, logged, ghosts, budget>>

\* Payload rows (reinit) and logged operations of the old store go with it.
RemoveOldRows ==
  /\ pc = "unrow"
  /\ data' = [data EXCEPT !["rows"] = NoFile]
  /\ Goto("unlog")
  /\ UNCHANGED <<opt, enc, fresh, opening, cur, metas, graphEnc, dirty, logged, ghosts, budget>>

NewIndex == [life |-> life, n |-> 0,
             mode |-> IF opt.mode = "keyed" THEN "keyed" ELSE "dense"]

RemoveOldLog ==
  /\ pc = "unlog"
  /\ data' = [data EXCEPT !["log"] = NoFile] /\ logged' = FALSE
  /\ IF ~opt.reinit /\ prev # NoFile        \* no main file, and .prev was not usable
     THEN Goto("failed") /\ UNCHANGED cur
     ELSE Goto("tmp") /\ cur' = NewIndex
  /\ UNCHANGED <<opt, enc, fresh, opening, metas, graphEnc, dirty, ghosts, budget>>

\* What the index takes from a checkpoint.
Loaded(f) == [life |-> f.life, n |-> f.n, mode |-> f.mode]

\* Mutant of LoadMetadata: an unusable main file stays.
LoadKeepsDamaged ==
  /\ pc = "load"
  /\ LET f == IF DeserializeMetadata(main) THEN main
              ELSE IF DeserializeMetadata(prev) THEN prev ELSE NoFile IN
     IF f = NoFile \/ opt.mode \notin {"auto", f.mode}
     THEN Goto("failed") /\ UNCHANGED cur
     ELSE Goto("rows") /\ cur' = Loaded(f)
  /\ UNCHANGED <<opt, enc, fresh, opening, metas, data, graphEnc, dirty, logged, ghosts,
                 budget>>

\* The main file, or .prev if the main file is missing or unusable; then the
\* unusable one is removed.  A store of another id mode is refused.
LoadMetadata ==
  /\ pc = "load"
  /\ LET f == IF DeserializeMetadata(main) THEN main
              ELSE IF DeserializeMetadata(prev) THEN prev ELSE NoFile IN
     /\ main' = IF f # main /\ f # NoFile THEN NoFile ELSE main
     /\ linked' = (linked /\ main' = main)
     /\ IF f = NoFile \/ opt.mode \notin {"auto", f.mode}
        THEN Goto("failed") /\ UNCHANGED cur
        ELSE Goto("rows") /\ cur' = Loaded(f)
  /\ UNCHANGED <<opt, enc, fresh, opening, prev, bak, marker, data, graphEnc, dirty, logged,
                 ghosts, budget>>

\* After the first checkpoint of a new life: the backup and the marker go.
RemoveBackup ==
  /\ pc = "unbak"
  /\ bak' = NoFile
  /\ stale' = IF stale = "left" THEN "no" ELSE stale
  /\ Goto("unmark")
  /\ UNCHANGED <<opt, enc, fresh, opening, cur, main, prev, linked, marker, data, graphEnc,
                 dirty, logged, life, cutShort, harm, budget>>

RemoveMarker ==
  /\ pc = "unmark"
  /\ marker' = NoFile
  /\ cutShort' = IF opt.reinit THEN "no" ELSE cutShort
  /\ stale' = IF opt.reinit THEN "no" ELSE stale
  /\ Goto("rows")
  /\ UNCHANGED <<opt, enc, fresh, opening, cur, main, prev, linked, bak, data, graphEnc, dirty,
                 logged, life, harm, budget>>

OpenMetadataStore ==
  /\ pc = "rows"
  /\ data' = IF data["rows"] = NoFile THEN [data EXCEPT !["rows"] = cur.life] ELSE data
  /\ Goto("replay")
  /\ UNCHANGED <<opt, enc, fresh, opening, cur, metas, graphEnc, dirty, logged, ghosts, budget>>

\* recoverFromOpLog: replay what was logged after the checkpoint, start the log
\* if it is on, checkpoint if anything was replayed, remove the log if it is off.
RecoverFromOpLog ==
  /\ pc = "replay"
  /\ LET some == data["log"] # NoFile /\ logged /\ cur.n < MaxWrites IN
     /\ cur' = IF some THEN [cur EXCEPT !.n = @ + 1] ELSE cur
     /\ graphEnc' = IF some THEN enc ELSE graphEnc
     /\ dirty' = some
     /\ Goto(IF opt.log THEN "startlog" ELSE IF some THEN "tmp" ELSE "droplog")
  /\ fresh' = FALSE
  /\ UNCHANGED <<opt, enc, opening, metas, data, logged, ghosts, budget>>

StartLog ==
  /\ pc = "startlog"
  /\ data' = [data EXCEPT !["log"] = IF @ = NoFile THEN cur.life ELSE @]
  /\ logged' = dirty /\ opening' = dirty
  /\ Goto(IF dirty THEN "tmp" ELSE "open")
  /\ UNCHANGED <<opt, enc, fresh, cur, metas, graphEnc, dirty, ghosts, budget>>

DropLog ==
  /\ pc = "droplog"
  /\ data' = [data EXCEPT !["log"] = NoFile]
  /\ logged' = FALSE /\ opening' = FALSE
  /\ Goto("open")
  /\ UNCHANGED <<opt, enc, fresh, cur, metas, graphEnc, dirty, ghosts, budget>>

(***************************************************************************)
(* An open store                                                           *)
(***************************************************************************)

Write ==
  /\ pc = "open" /\ cur.n < MaxWrites
  /\ cur' = [cur EXCEPT !.n = @ + 1]
  /\ graphEnc' = enc
  /\ dirty' = TRUE /\ logged' = opt.log
  /\ UNCHANGED <<pc, opt, enc, fresh, opening, metas, data, ghosts, budget>>

\* checkpointLocked (Checkpoint, Close, BulkBuild, flushVectorWrites, the
\* automatic one): nothing to do, or write the file.
CheckpointLocked ==
  /\ pc = "open" /\ (dirty \/ main = NoFile)
  /\ Goto("tmp")
  /\ UNCHANGED <<opt, enc, fresh, opening, cur, metas, data, graphEnc, dirty, logged, ghosts, budget>>

\* writeMetadataFile: the temporary file is complete and fsynced; make room
\* for the old main file, ...
WriteTmp ==
  /\ pc = "tmp"
  /\ prev' = IF main # NoFile THEN NoFile ELSE prev
  /\ linked' = (linked /\ main = NoFile)
  /\ Goto(IF main # NoFile THEN "link" ELSE "rename")
  /\ UNCHANGED <<opt, enc, fresh, opening, cur, main, bak, marker, data, graphEnc, dirty,
                 logged, ghosts, budget>>

\* ... keep it as .prev, by a hard link: until the rename the two names are one
\* file ...
LinkPrev ==
  /\ pc = "link"
  /\ prev' = main /\ linked' = TRUE
  /\ Goto("rename")
  /\ UNCHANGED <<opt, enc, fresh, opening, cur, main, bak, marker, data, graphEnc, dirty,
                 logged, ghosts, budget>>

\* ... and rename.  The checkpoint is then complete; a new store goes on to drop
\* its backup and marker, a recovery to return from Open.
RenameTmp ==
  /\ pc = "rename"
  /\ main' = SerializeMetadata /\ linked' = FALSE
  /\ dirty' = FALSE /\ logged' = FALSE
  /\ stale' = IF fresh /\ bak # NoFile /\ stale = "no" THEN "left" ELSE stale
  /\ IF fresh THEN Goto("unbak") /\ UNCHANGED opening
     ELSE IF opening /\ ~opt.log THEN Goto("droplog") /\ UNCHANGED opening
     ELSE Goto("open") /\ opening' = FALSE
  /\ UNCHANGED <<opt, enc, fresh, cur, prev, bak, marker, data, graphEnc, life, cutShort,
                 harm, budget>>

\* What the process held is gone.
Gone == /\ Goto("closed") /\ opt' = None /\ enc' = None /\ fresh' = FALSE
        /\ opening' = FALSE /\ cur' = None /\ dirty' = FALSE

\* An I/O error ends a checkpoint where it stands: one of a running store, or,
\* with the error, the Open that creates or recovers the store.
CheckpointFails ==
  /\ pc \in {"tmp", "link", "rename"}
  /\ Spend("failures")
  /\ IF opening THEN Gone
     ELSE Goto("open") /\ UNCHANGED <<opt, enc, fresh, opening, cur, dirty>>
  /\ UNCHANGED <<metas, data, graphEnc, logged, ghosts>>

\* Close: the checkpoint has been tried; everything is torn down regardless.
Close ==
  /\ pc = "open"
  /\ Gone
  /\ UNCHANGED <<metas, data, graphEnc, logged, ghosts, budget>>

(***************************************************************************)
(* Faults                                                                  *)
(***************************************************************************)

\* A crash at any step, and the exit(1) of RocksGraph when the directory is
\* locked by another process.
Crash ==
  /\ pc \notin {"closed", "failed"}
  /\ Spend("crashes")
  /\ Gone
  /\ UNCHANGED <<metas, data, graphEnc, logged, ghosts>>

\* The main checkpoint file is damaged on disk, in its header or in its body, at
\* any time; with it .prev while that is another name of it.  `harm' tells where
\* that met the file:
\*   "spare"   not loaded yet, with .prev a file of its own;
\*   "only"    not loaded yet, without a .prev, or a reinit has removed .prev since;
\*   "spread"  while .prev was the same file, or once it was loaded: nothing looks
\*             at it again before the next checkpoint makes it .prev.
Damage ==
  /\ main # NoFile
  /\ Spend("damage")
  /\ \E how \in {"body", "header"} :
       LET bad == [main EXCEPT !.ok = how] IN
       main' = bad /\ prev' = IF linked THEN bad ELSE prev
  /\ harm' = IF linked \/ cur # None THEN "spread"
             ELSE IF harm = "spread" THEN harm
             ELSE IF prev = NoFile \/ harm = "only" THEN "only" ELSE "spare"
  /\ UNCHANGED <<pc, opt, enc, fresh, opening, cur, linked, bak, marker, data, graphEnc, dirty,
                 logged, life, cutShort, stale>>

Open == \/ StageMetadata \/ StageRename \/ ResolveEncoding \/ WriteCreateMarker \/ OpenGraph \/ OpenVectors
        \/ RemoveOldRows \/ RemoveOldLog \/ LoadMetadata \/ RemoveBackup \/ RemoveMarker
        \/ OpenMetadataStore \/ RecoverFromOpLog \/ StartLog \/ DropLog

Next == \/ Open \/ Write \/ CheckpointLocked \/ WriteTmp \/ LinkPrev \/ RenameTmp
        \/ CheckpointFails \/ Close \/ Crash \/ Damage

Spec == Init /\ [][Next]_vars

(***************************************************************************)
(* Properties                                                              *)
(***************************************************************************)

\* Every variable keeps its type, and a store past its load has an index.
TypeOK ==
  /\ opt \in Options \cup {None} /\ enc \in Encodings \cup {None} /\ fresh \in BOOLEAN
  /\ opening \in BOOLEAN /\ cur \in Index \cup {None}
  /\ pc \in {"rows", "replay", "startlog", "droplog", "open", "tmp", "link", "rename",
             "unbak", "unmark"} => cur # None
  /\ {main, prev, bak} \subseteq Meta \cup {NoFile} /\ linked \in BOOLEAN
  /\ marker \in Encodings \cup {NoFile}
  /\ data \in [DataFiles -> {NoFile} \cup 1..MaxLives]
  /\ graphEnc \in Encodings \cup {None}
  /\ dirty \in BOOLEAN /\ logged \in BOOLEAN /\ life \in 0..MaxLives
  /\ cutShort \in {"no", "kept", "lost"} /\ stale \in {"no", "left", "restored"}
  /\ harm \in {"none", "spare", "only", "spread"}
  /\ budget \in [crashes : 0..MaxCrashes, damage : 0..MaxDamage, failures : 0..MaxFailures]

\* The graph is only ever opened with the encoding its adjacency lists were
\* written with, whatever the environment says by then: after a crash inside
\* the Open that created the store, a fallback to .prev, a reinit.  (Not once
\* the backup of a completed reinit was put back, see RestoresOnlyUnfinished,
\* and not where a reinit over a store that lives on .prev alone was cut short:
\* it removes .prev first, and a marker of an older create may remain.)
EncodingFits ==
  pc \in {"replay", "open"} /\ stale # "restored" /\ cutShort # "lost" =>
    graphEnc \in {None, enc}

\* The checkpoint an Open loads and every data file beside it belong to the
\* same life: no payload row, logged operation, vector or edge of a store that
\* was reinitialised appears in the new one.  (Not after a reinit that was cut
\* short: its backup then stands beside files that are gone.)
OneLife == pc \in {"replay", "open"} /\ cutShort = "no" =>
             \A f \in DataFiles : data[f] \in {NoFile, cur.life}

\* No crash, failed checkpoint or damaged main file makes a store unopenable
\* while it has a second copy: an Open is refused only after damage that met the
\* only copy, or both (see Damage), for another id mode, or where a reinit was cut
\* short.
CrashNeverBricks ==
  pc = "failed" => \/ harm \in {"only", "spread"}
                   \/ opt.mode # "auto"
                   \/ cutShort # "no"

Good(f) == f # NoFile /\ f.ok = "ok"

\* The copy Open falls back to is fit for it: it reads back, unless damage met the
\* main file when .prev was the same file or once it was loaded ("spread"); it has
\* the encoding that the main file's header names, with which the graph is already
\* open when the body turns out to be damaged (but for the backup of a completed
\* reinit that was put back); and, unless a reinit was cut short, it is of the
\* store's life.
GoodCopyKept ==
  prev # NoFile => /\ harm # "spread" => Good(prev)
                   /\ main # NoFile /\ stale # "restored" => prev.enc = main.enc
                   /\ cutShort = "no" => prev.life = data["graph"]

\* "let the next Open restore the backup if the reinit never completed": the
\* backup of a reinit that did complete is never put back.
RestoresOnlyUnfinished == stale # "restored"

\* "if it is damaged, fall back to the previous one": Open, of the latest
\* checkpoint.
FallsBackToPrev ==
  pc = "failed" /\ prev # NoFile => opt.mode # "auto" \/ cutShort # "no"

\* "a failed reinit must leave the store's metadata recoverable": the next Open
\* is not refused, and what it loads is of the same life as the files beside it.
ReinitRecoverable ==
  harm = "none" => /\ pc = "failed" => opt.mode # "auto"
                   /\ pc = "open" => \A f \in DataFiles : data[f] \in {NoFile, cur.life}

=============================================================================
