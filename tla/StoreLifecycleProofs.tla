------------------------ MODULE StoreLifecycleProofs ------------------------
(***************************************************************************)
(* Proofs about StoreLifecycle, for every value of its constants.          *)
(***************************************************************************)
EXTENDS StoreLifecycle, TLAPS

(***************************************************************************)
(* The inductive invariant                                                 *)
(***************************************************************************)

\* Steps of Open that come after the encoding is resolved and before the
\* index exists; steps with an index.
Early == {"marker", "graph", "vectors", "unrow", "unlog", "load"}
Saving == {"tmp", "link", "rename"}
Finishing == {"unbak", "unmark"}
Running == {"rows", "replay", "startlog", "droplog", "open"}
WithIndex == Saving \cup Finishing \cup Running

Exists(m) == m # NoFile

\* The first checkpoint of a new life is still to come, or has just been
\* renamed and its backup and marker are still to go.
Creating == fresh /\ pc \in {"marker", "graph", "vectors", "unrow", "unlog"} \cup Saving
Ending == fresh /\ pc \in Finishing

\* What the process holds at each step.
Control ==
  /\ pc \in {"closed", "failed", "stage", "peek"} \cup Early \cup WithIndex
  /\ pc \in {"closed", "open"} => ~opening
  /\ pc \notin {"closed", "open", "failed"} \cup Saving \/ (fresh /\ pc \in Saving) => opening
  /\ pc = "stage" => opt.reinit /\ Exists(main) /\ ~Exists(bak)
  /\ pc # "closed" => opt # None
  /\ pc \in Early \cup WithIndex => enc # None
  /\ pc \notin WithIndex => cur = None
  /\ pc \in {"marker", "unrow", "unlog"} \cup Finishing => fresh
  /\ pc = "load" => ~fresh
  /\ pc = "link" => ~fresh /\ Exists(main)
  /\ pc = "unrow" => opt.reinit
  /\ pc = "marker" => ~opt.reinit
  /\ pc \in {"open", "startlog", "droplog"} => ~fresh

\* Lives are numbered in order, the graph is of the last one, and there is a
\* number left for an Open that will begin another.
Lives ==
  /\ data["graph"] = IF life = 0 THEN NoFile ELSE life
  /\ Exists(main) \/ Exists(prev) \/ Exists(bak) => life > 0
  /\ pc \in {"vectors", "unrow", "unlog", "load"} \cup WithIndex => life > 0
  /\ pc \in {"stage", "peek", "marker", "graph"} /\ opt.reinit => life < MaxLives
  /\ pc \in {"marker", "graph"} /\ data["graph"] = NoFile => life < MaxLives

\* A reinit works on a store whose main file is set aside and whose .prev is
\* gone; past the graph there is nothing of the old life but the backup, the
\* rows and the log, which go next.
Reinit ==
  (pc # "closed" /\ opt.reinit) =>
    /\ pc = "peek" => /\ ~Exists(main)
                      /\ Exists(prev) /\ ~Exists(bak) => cutShort = "lost"
    /\ pc \notin {"failed", "stage", "peek"} \cup Running => fresh \/ pc \in Saving
    /\ Creating => ~Exists(main)
    /\ Creating \/ Ending => ~Exists(prev)
    /\ (Creating \/ Ending) /\ pc # "graph" => graphEnc = None
    /\ (Creating \/ Ending) /\ pc \notin {"graph", "vectors"} => data["vectors"] = life
    /\ (Creating \/ Ending) /\ pc \notin {"graph", "vectors", "unrow"} => data["rows"] = NoFile
    /\ (Creating /\ pc \in Saving) \/ Ending => data["log"] = NoFile /\ cur.life = life
    /\ Ending => main.life = life
    /\ pc = "unmark" => ~Exists(bak) /\ stale # "left"

\* A create works where there is no checkpoint, under its marker.
Create ==
  (pc # "closed" /\ ~opt.reinit) =>
    /\ pc = "peek" => Exists(main) \/ ~Exists(bak)
    /\ Creating => ~Exists(main) /\ ~Exists(prev) /\ ~Exists(bak)
    /\ Creating /\ pc # "marker" => Exists(marker)
    /\ Ending => ~Exists(prev) /\ ~Exists(bak)

\* An Open that will load has something to load, of the encoding it resolved.
Loading ==
  pc \in {"graph", "vectors", "load"} /\ ~fresh =>
    /\ ~opt.reinit
    /\ Exists(main) \/ Exists(prev)
    /\ stale # "restored" => \A m \in {main, prev} : Exists(m) => m.enc = enc

\* A store with an index has a checkpoint on disk, which has the encoding the
\* graph was opened with and reads back unless it was damaged since.
Saved ==
  pc \in Running \cup Finishing \/ (pc \in Saving /\ ~fresh) =>
    /\ Exists(main) \/ Exists(prev)
    /\ Exists(main) => main.enc = enc /\ (harm # "spread" => main.ok = "ok")
    /\ Exists(prev) /\ stale # "restored" => prev.enc = enc
    /\ Exists(bak) => stale # "no"

\* .prev agrees with the main file.
Copies ==
  /\ Exists(prev) /\ Exists(main) /\ stale # "restored" => prev.enc = main.enc
  /\ Exists(prev) /\ Exists(bak) /\ stale = "no" => prev.enc = bak.enc
  /\ linked => Exists(prev) /\ (IF Exists(main) THEN main ELSE bak) = prev

\* What harm says of the files: without it all are good; while there is a spare,
\* .prev is good and is there if the main file, or the backup a reinit has just
\* made of it, is not; .prev is bad only beside the file it was linked to.
Harm ==
  /\ harm = "none" => \A m \in {main, prev, bak} : Exists(m) => m.ok = "ok"
  /\ Exists(prev) /\ harm # "spread" => prev.ok = "ok"
  /\ Exists(prev) /\ prev.ok # "ok" => Exists(main) \/ Exists(bak)
  /\ harm = "spare" /\ Exists(main) /\ main.ok # "ok" => Exists(prev)
  /\ harm = "spare" /\ Exists(bak) /\ bak.ok # "ok" =>
       Exists(prev) /\ ~Exists(main) /\ pc \in {"closed", "failed", "peek"}

\* A backup that is not stale belongs to a reinit that has not been completed.
Backup ==
  Exists(bak) /\ stale = "no" =>
    /\ ~Exists(main)
    /\ pc \in {"closed", "failed"} \/ (opt.reinit /\ (pc = "peek" \/ Creating))

\* Unless a reinit was cut short, everything is of the last life, and a life
\* that has begun has a checkpoint or a marker.
SameLife ==
  cutShort = "no" =>
    /\ \A f \in DataFiles : data[f] \in {NoFile, life}
    /\ \A m \in {main, prev, bak} : Exists(m) => m.life = life
    /\ cur # None => cur.life = life
    /\ life > 0 => Exists(main) \/ Exists(prev) \/ Exists(bak) \/ Exists(marker)
    /\ stale = "no"
    /\ pc # "closed" /\ opt.reinit /\ Creating => pc = "graph"
    /\ pc # "closed" /\ opt.reinit => ~Ending

\* The adjacency lists have the encoding of every checkpoint beside them, and
\* where there is none they are empty.
Fits ==
  stale # "restored" /\ cutShort # "lost" =>
    /\ \A m \in {main, prev} : Exists(m) => graphEnc \in {None, m.enc}
    /\ Exists(bak) /\ stale = "no" => graphEnc \in {None, bak.enc}
    /\ ~Exists(main) /\ ~Exists(prev) /\ ~Exists(bak) => graphEnc = None
    /\ pc \in WithIndex => graphEnc \in {None, enc}

Refused ==
  pc = "failed" => \/ harm \in {"only", "spread"}
                   \/ opt.mode # "auto"
                   \/ cutShort # "no"

IInv == /\ TypeOK /\ Control /\ Lives /\ Reinit /\ Create /\ Loading /\ Saved
        /\ Copies /\ Harm /\ Backup /\ SameLife /\ Fits /\ Refused

(***************************************************************************)
(* Every step keeps it                                                     *)
(***************************************************************************)

USE DEF Early, Saving, Finishing, Running, WithIndex, Exists, Creating, Ending

LEMMA StageMetadataInv == IInv /\ StageMetadata => IInv'
<1> SUFFICES ASSUME IInv, StageMetadata PROVE IInv' OBVIOUS
<1>1. TypeOK'
  BY DEF IInv, TypeOK, StageMetadata, Goto, CutShort
<1>2. Control'
  BY NothingAssumption DEF IInv, Control, StageMetadata, Goto
<1>3. Lives'
  BY DEF IInv, Lives, StageMetadata, Goto
<1>4. Reinit'
  BY DEF Reinit, StageMetadata, Goto
<1>5. Create'
  BY DEF Create, StageMetadata, Goto
<1>6. Loading'
  BY DEF Loading, StageMetadata, Goto
<1>7. Saved'
  BY DEF Saved, StageMetadata, Goto
<1>8. Copies'
  BY DEF IInv, TypeOK, Copies, StageMetadata
<1>9. Backup'
  BY DEF IInv, Backup, StageMetadata, Goto
<1>10. SameLife'
  BY DEF IInv, SameLife, StageMetadata, Goto, CutShort
<1>11. Fits'
  BY DEF IInv, TypeOK, Fits, StageMetadata, Goto, CutShort
<1>12. Harm'
  BY DEF IInv, Harm, TypeOK, StageMetadata, Goto
<1>13. Refused'
  BY DEF Refused, StageMetadata, Goto
<1> QED
  BY <1>1, <1>2, <1>3, <1>4, <1>5, <1>6, <1>7, <1>8, <1>9, <1>10, <1>11, <1>12,
     <1>13
  DEF IInv

LEMMA StageRenameInv == IInv /\ StageRename => IInv'
<1> SUFFICES ASSUME IInv, StageRename PROVE IInv' OBVIOUS
<1>1. TypeOK'
  BY DEF IInv, TypeOK, Control, StageRename, Goto, ghosts
<1>2. Control'
  BY DEF IInv, Control, StageRename, Goto
<1>3. Lives'
  BY DEF IInv, Lives, StageRename, Goto, ghosts
<1>4. Reinit'
  BY DEF IInv, Control, Reinit, StageRename, Goto
<1>5. Create'
  BY NothingAssumption DEF IInv, TypeOK, Control, Create, StageRename
<1>6. Loading'
  BY DEF Loading, StageRename, Goto
<1>7. Saved'
  BY DEF Saved, StageRename, Goto
<1>8. Copies'
  BY DEF IInv, Control, Copies, StageRename, ghosts
<1>9. Backup'
  BY DEF IInv, Control, Backup, StageRename, Goto
<1>10. SameLife'
  BY DEF IInv, Control, SameLife, StageRename, Goto, ghosts
<1>11. Fits'
  BY DEF IInv, Control, Fits, StageRename, Goto, ghosts
<1>12. Harm'
  BY DEF IInv, Control, Harm, StageRename, ghosts, Goto
<1>13. Refused'
  BY DEF Refused, StageRename, Goto
<1> QED
  BY <1>1, <1>2, <1>3, <1>4, <1>5, <1>6, <1>7, <1>8, <1>9, <1>10, <1>11, <1>12,
     <1>13
  DEF IInv

LEMMA ResolveEncodingInv == IInv /\ ResolveEncoding => IInv'
<1> SUFFICES ASSUME IInv, ResolveEncoding PROVE IInv' OBVIOUS
<1>1. TypeOK'
  <2>1. main \in Meta \cup {NoFile} /\ prev \in Meta \cup {NoFile} /\ marker \in Encodings \cup {NoFile}
    BY DEF IInv, TypeOK
  <2>2. opt.env \in Encodings
    BY DEF IInv, TypeOK, Control, ResolveEncoding, Options
  <2>3. prev' \in Meta \cup {NoFile}
    BY <2>1 DEF ResolveEncoding
  <2>4. enc' \in Encodings \cup {None}
    <3>1. CASE PeekStatus \in {"OK", "prev"} /\ enc' = (IF PeekStatus = "OK" THEN main ELSE prev).enc
      BY <2>1, <3>1 DEF PeekStatus, PeekGraphEncoding, Meta
    <3>2. CASE enc' = IF InterruptedCreate THEN marker ELSE opt.env
      BY <2>1, <2>2, <3>2 DEF InterruptedCreate
    <3>3. CASE enc' = enc
      BY <3>3 DEF IInv, TypeOK
    <3> QED BY <3>1, <3>2, <3>3 DEF ResolveEncoding
  <2>5. fresh' \in BOOLEAN
    BY DEF ResolveEncoding, IInv, TypeOK
  <2>6. pc' \in {"graph", "marker", "failed"}
    BY DEF ResolveEncoding, Goto
  <2> QED BY <2>3, <2>4, <2>5, <2>6 DEF IInv, TypeOK, ResolveEncoding, ghosts
<1>2. Control'
  BY NothingAssumption
     DEF IInv, TypeOK, Control, ResolveEncoding, Goto, PeekStatus, PeekGraphEncoding,
         InterruptedCreate, Options, Meta
<1>3. Lives'
  BY NothingAssumption
     DEF IInv, TypeOK, Lives, ResolveEncoding, Goto, PeekStatus, PeekGraphEncoding, ghosts
<1>4. Reinit'
  BY DEF IInv, Reinit, ResolveEncoding, Goto, PeekStatus, PeekGraphEncoding
<1>5. Create'
  BY DEF IInv, Create, Copies, Harm, ResolveEncoding, Goto, PeekStatus, PeekGraphEncoding,
         InterruptedCreate
<1>6. Loading'
  BY DEF IInv, Reinit, Copies, Loading, ResolveEncoding, Goto, PeekStatus, PeekGraphEncoding
<1>7. Saved'
  BY DEF Saved, ResolveEncoding, Goto
<1>8. Copies'
  BY DEF IInv, Copies, ResolveEncoding, ghosts
<1>9. Backup'
  BY DEF IInv, Backup, ResolveEncoding, Goto, PeekStatus, PeekGraphEncoding, ghosts
<1>10. SameLife'
  <2>1. pc = "peek" /\ opt \in Options /\ main \in Meta \cup {NoFile}
    BY DEF IInv, TypeOK, Control, ResolveEncoding
  <2>2. CASE opt.reinit
    BY <2>1, <2>2 DEF IInv, Reinit, SameLife, ResolveEncoding, Goto, ghosts
  <2>3. CASE ~opt.reinit
    BY <2>1, <2>3 DEF IInv, SameLife, ResolveEncoding, ghosts
  <2> QED BY <2>2, <2>3
<1>11. Fits'
  <2>1. pc = "peek" /\ opt \in Options
    BY DEF IInv, TypeOK, Control, ResolveEncoding
  <2>2. pc' \notin WithIndex
    BY DEF ResolveEncoding, Goto
  <2>3. prev' = prev \/ prev' = NoFile
    BY DEF ResolveEncoding
  <2>4. CASE prev' = prev
    BY <2>2, <2>4 DEF IInv, Fits, ResolveEncoding, ghosts
  <2>5. CASE prev # NoFile /\ prev' = NoFile
    <3>1. opt.reinit
      BY <2>5 DEF ResolveEncoding
    <3>2. cutShort # "lost" => Exists(bak)
      BY <2>1, <2>5, <3>1 DEF IInv, Reinit
    <3> QED BY <2>2, <2>5, <3>2 DEF IInv, Fits, ResolveEncoding, ghosts
  <2> QED BY <2>3, <2>4, <2>5
<1>12. Harm'
  BY DEF IInv, Reinit, Create, Harm, ResolveEncoding, Goto
<1>13. Refused'
  <2>1. pc = "peek" /\ opt \in Options /\ opt # None /\ pc # "closed"
    BY DEF IInv, TypeOK, Control, ResolveEncoding
  <2> SUFFICES ASSUME pc' = "failed", harm' \notin {"only", "spread"}, cutShort' = "no"
               PROVE FALSE
    BY DEF Refused
  <2>2. opt' = opt /\ cutShort = "no" /\ fresh' = fresh /\ PeekStatus \in {"NotFound", "Corruption"}
    BY DEF ResolveEncoding, Goto
  <2>3. ~opt.reinit
    BY <2>1, <2>2 DEF IInv, Reinit, ResolveEncoding, Goto, PeekStatus, PeekGraphEncoding
  <2>4. harm \in {"none", "spare"}
    BY <2>3 DEF IInv, TypeOK, ResolveEncoding
  <2>5. Exists(prev) => PeekGraphEncoding(prev) = "OK"
    BY <2>4 DEF IInv, Harm, PeekGraphEncoding
  <2>6. ~Exists(prev)
    BY <2>2, <2>3, <2>5 DEF PeekStatus, PeekGraphEncoding
  <2>7. ~Exists(main)
    BY <2>2, <2>3, <2>4, <2>6 DEF IInv, Harm, PeekStatus, PeekGraphEncoding
  <2>8. ~Exists(bak) /\ ~Exists(marker) /\ data["graph"] # NoFile
    BY <2>1, <2>3, <2>7
       DEF IInv, Create, ResolveEncoding, Goto, InterruptedCreate, PeekStatus,
           PeekGraphEncoding
  <2>9. life > 0
    BY <2>8 DEF IInv, TypeOK, Lives
  <2> QED BY <2>2, <2>6, <2>7, <2>8, <2>9 DEF IInv, SameLife
<1> QED
  BY <1>1, <1>2, <1>3, <1>4, <1>5, <1>6, <1>7, <1>8, <1>9, <1>10, <1>11, <1>12,
     <1>13
  DEF IInv

LEMMA WriteCreateMarkerInv == IInv /\ WriteCreateMarker => IInv'
<1> SUFFICES ASSUME IInv, WriteCreateMarker PROVE IInv' OBVIOUS
<1>1. TypeOK'
  BY DEF IInv, TypeOK, Control, WriteCreateMarker, Goto, ghosts
<1>2. Control'
  BY DEF IInv, Control, WriteCreateMarker, Goto
<1>3. Lives'
  BY DEF IInv, Lives, WriteCreateMarker, Goto, ghosts
<1>4. Reinit'
  BY DEF IInv, Reinit, WriteCreateMarker, Goto
<1>5. Create'
  BY NothingAssumption DEF IInv, TypeOK, Control, Create, WriteCreateMarker
<1>6. Loading'
  BY DEF IInv, Control, Loading, WriteCreateMarker
<1>7. Saved'
  BY DEF Saved, WriteCreateMarker, Goto
<1>8. Copies'
  BY DEF IInv, Copies, WriteCreateMarker, ghosts
<1>9. Backup'
  BY DEF IInv, Backup, WriteCreateMarker, Goto, ghosts
<1>10. SameLife'
  BY NothingAssumption DEF IInv, TypeOK, Control, SameLife, WriteCreateMarker, ghosts
<1>11. Fits'
  BY DEF IInv, Fits, WriteCreateMarker, Goto, ghosts
<1>12. Harm'
  BY DEF IInv, Harm, WriteCreateMarker, ghosts, Goto
<1>13. Refused'
  BY DEF Refused, WriteCreateMarker, Goto
<1> QED
  BY <1>1, <1>2, <1>3, <1>4, <1>5, <1>6, <1>7, <1>8, <1>9, <1>10, <1>11, <1>12,
     <1>13
  DEF IInv

LEMMA OpenGraphInv == IInv /\ OpenGraph => IInv'
<1> SUFFICES ASSUME IInv, OpenGraph PROVE IInv' OBVIOUS
<1>1. TypeOK'
  BY BoundsAssumption DEF IInv, TypeOK, Lives, OpenGraph, Goto, CutShort, metas
<1>2. Control'
  BY DEF IInv, Control, OpenGraph, Goto
<1>3. Lives'
  BY DEF IInv, TypeOK, Lives, OpenGraph, Goto, DataFiles
<1>4. Reinit'
  BY DEF IInv, Reinit, OpenGraph, Goto, metas
<1>5. Create'
  BY DEF IInv, Create, OpenGraph, Goto, metas
<1>6. Loading'
  BY DEF IInv, Loading, OpenGraph, metas
<1>7. Saved'
  BY DEF Saved, OpenGraph, Goto
<1>8. Copies'
  BY DEF IInv, Copies, OpenGraph, metas
<1>9. Backup'
  BY DEF IInv, Backup, OpenGraph, Goto, metas
<1>10. SameLife'
  BY NothingAssumption
     DEF IInv, TypeOK, Lives, Create, Loading, SameLife, OpenGraph, CutShort, metas, Index
<1>11. Fits'
  BY DEF IInv, Fits, OpenGraph, Goto, metas
<1>12. Harm'
  BY DEF IInv, Harm, OpenGraph, metas, Goto
<1>13. Refused'
  BY DEF Refused, OpenGraph, Goto
<1> QED
  BY <1>1, <1>2, <1>3, <1>4, <1>5, <1>6, <1>7, <1>8, <1>9, <1>10, <1>11, <1>12,
     <1>13
  DEF IInv

LEMMA OpenVectorsInv == IInv /\ OpenVectors => IInv'
<1> SUFFICES ASSUME IInv, OpenVectors PROVE IInv' OBVIOUS
<1>1. TypeOK'
  BY DEF IInv, TypeOK, Lives, OpenVectors, Goto, metas, ghosts, DataFiles
<1>2. Control'
  BY DEF IInv, Control, Loading, OpenVectors, Goto
<1>3. Lives'
  BY DEF IInv, Lives, OpenVectors, Goto, ghosts
<1>4. Reinit'
  BY DEF IInv, TypeOK, Reinit, OpenVectors, Goto, metas, ghosts, DataFiles
<1>5. Create'
  BY DEF IInv, Create, OpenVectors, Goto, metas
<1>6. Loading'
  BY DEF IInv, Loading, OpenVectors, Goto, metas, ghosts
<1>7. Saved'
  BY DEF Saved, OpenVectors, Goto
<1>8. Copies'
  BY DEF IInv, Copies, OpenVectors, metas, ghosts
<1>9. Backup'
  BY DEF IInv, Backup, OpenVectors, Goto, metas, ghosts
<1>10. SameLife'
  BY DEF IInv, SameLife, OpenVectors, metas, ghosts
<1>11. Fits'
  BY DEF IInv, Fits, OpenVectors, Goto, metas, ghosts
<1>12. Harm'
  BY DEF IInv, Harm, OpenVectors, metas, ghosts, Goto
<1>13. Refused'
  BY DEF Refused, OpenVectors, Goto
<1> QED
  BY <1>1, <1>2, <1>3, <1>4, <1>5, <1>6, <1>7, <1>8, <1>9, <1>10, <1>11, <1>12,
     <1>13
  DEF IInv

LEMMA RemoveOldRowsInv == IInv /\ RemoveOldRows => IInv'
<1> SUFFICES ASSUME IInv, RemoveOldRows PROVE IInv' OBVIOUS
<1>1. TypeOK'
  BY DEF IInv, TypeOK, RemoveOldRows, Goto, metas, ghosts, DataFiles
<1>2. Control'
  BY DEF IInv, Control, RemoveOldRows, Goto
<1>3. Lives'
  BY DEF IInv, Lives, RemoveOldRows, Goto, ghosts
<1>4. Reinit'
  BY DEF IInv, TypeOK, Reinit, RemoveOldRows, Goto, metas, ghosts, DataFiles
<1>5. Create'
  BY DEF IInv, Create, RemoveOldRows, Goto, metas
<1>6. Loading'
  BY DEF Loading, RemoveOldRows, Goto
<1>7. Saved'
  BY DEF Saved, RemoveOldRows, Goto
<1>8. Copies'
  BY DEF IInv, Copies, RemoveOldRows, metas, ghosts
<1>9. Backup'
  BY DEF IInv, Backup, RemoveOldRows, Goto, metas, ghosts
<1>10. SameLife'
  BY DEF IInv, SameLife, RemoveOldRows, metas, ghosts
<1>11. Fits'
  BY DEF IInv, Fits, RemoveOldRows, Goto, metas, ghosts
<1>12. Harm'
  BY DEF IInv, Harm, RemoveOldRows, metas, ghosts, Goto
<1>13. Refused'
  BY DEF Refused, RemoveOldRows, Goto
<1> QED
  BY <1>1, <1>2, <1>3, <1>4, <1>5, <1>6, <1>7, <1>8, <1>9, <1>10, <1>11, <1>12,
     <1>13
  DEF IInv

LEMMA RemoveOldLogInv == IInv /\ RemoveOldLog => IInv'
<1> SUFFICES ASSUME IInv, RemoveOldLog PROVE IInv' OBVIOUS
<1>1. TypeOK'
  <2>1. data' \in [DataFiles -> {NoFile} \cup 1..MaxLives]
    BY DEF IInv, TypeOK, RemoveOldLog
  <2>2. NewIndex \in Index
    BY BoundsAssumption, ModesAssumption
       DEF IInv, TypeOK, Lives, RemoveOldLog, NewIndex, Index
  <2>3. cur' \in Index \cup {None} /\ (pc' = "tmp" => cur' # None)
    BY <2>2, NothingAssumption DEF IInv, TypeOK, RemoveOldLog, Goto
  <2>4. pc' \in {"failed", "tmp"}
    BY DEF RemoveOldLog, Goto
  <2>5. logged' \in BOOLEAN /\ UNCHANGED <<opt, enc, fresh, opening, metas, graphEnc, dirty, ghosts, budget>>
    BY DEF RemoveOldLog
  <2> QED BY <2>1, <2>3, <2>4, <2>5 DEF IInv, TypeOK, metas, ghosts
<1>2. Control'
  BY DEF IInv, Control, RemoveOldLog, Goto
<1>3. Lives'
  BY DEF IInv, Lives, RemoveOldLog, Goto, ghosts
<1>4. Reinit'
  BY DEF IInv, TypeOK, Reinit, RemoveOldLog, Goto, NewIndex, metas, ghosts, DataFiles
<1>5. Create'
  BY DEF IInv, Create, RemoveOldLog, Goto, metas
<1>6. Loading'
  BY DEF Loading, RemoveOldLog, Goto
<1>7. Saved'
  BY DEF IInv, Control, Saved, RemoveOldLog, Goto
<1>8. Copies'
  BY DEF IInv, Copies, RemoveOldLog, metas, ghosts
<1>9. Backup'
  BY DEF IInv, Backup, RemoveOldLog, Goto, metas, ghosts
<1>10. SameLife'
  BY DEF IInv, SameLife, RemoveOldLog, NewIndex, metas, ghosts
<1>11. Fits'
  BY DEF IInv, Control, Reinit, Create, Fits, RemoveOldLog, ghosts
<1>12. Harm'
  BY DEF IInv, Harm, RemoveOldLog, metas, ghosts, Goto
<1>13. Refused'
  BY DEF IInv, Control, Create, Refused, RemoveOldLog, Goto
<1> QED
  BY <1>1, <1>2, <1>3, <1>4, <1>5, <1>6, <1>7, <1>8, <1>9, <1>10, <1>11, <1>12,
     <1>13
  DEF IInv

LEMMA LoadMetadataInv == IInv /\ LoadMetadata => IInv'
<1> SUFFICES ASSUME IInv, LoadMetadata PROVE IInv' OBVIOUS
<1>1. TypeOK'
  BY NothingAssumption DEF IInv, TypeOK, LoadMetadata, Goto, Loaded, ghosts, Index, Meta
<1>2. Control'
  BY DEF IInv, Control, LoadMetadata, Goto
<1>3. Lives'
  BY DEF IInv, Lives, LoadMetadata, Goto, ghosts
<1>4. Reinit'
  BY DEF Reinit, LoadMetadata, Goto
<1>5. Create'
  BY DEF Create, LoadMetadata, Goto
<1>6. Loading'
  BY DEF Loading, LoadMetadata, Goto
<1>7. Saved'
  BY DEF IInv, Saved, Copies, Backup, LoadMetadata, Goto, DeserializeMetadata,
         DeserializeMetadataImpl, ghosts
<1>8. Copies'
  BY DEF IInv, Copies, LoadMetadata, ghosts
<1>9. Backup'
  BY DEF IInv, Backup, LoadMetadata, ghosts
<1>10. SameLife'
  BY DEF IInv, SameLife, LoadMetadata, Goto, Loaded, ghosts
<1>11. Fits'
  BY DEF IInv, Fits, LoadMetadata, Goto, DeserializeMetadata, DeserializeMetadataImpl,
         ghosts
<1>12. Harm'
  BY DEF IInv, Harm, LoadMetadata, DeserializeMetadata, ghosts, Goto
<1>13. Refused'
  <2> SUFFICES ASSUME pc' = "failed", harm' \notin {"only", "spread"}, cutShort' = "no",
                      opt'.mode = "auto"
               PROVE FALSE
    BY DEF Refused
  <2>1. pc = "load" /\ opt.mode = "auto" /\ harm \in {"none", "spare"} /\ stale = "no" /\ ~fresh
    BY DEF IInv, TypeOK, Control, SameLife, LoadMetadata, ghosts
  <2>2. ~DeserializeMetadata(main) /\ ~DeserializeMetadata(prev)
    BY <2>1 DEF LoadMetadata, Goto, DeserializeMetadata
  <2>3. /\ Exists(main) \/ Exists(prev)
        /\ Exists(main) => main.enc = enc
        /\ Exists(prev) => prev.enc = enc
    BY <2>1 DEF IInv, Loading
  <2>4. ~Exists(prev)
    BY <2>1, <2>2, <2>3 DEF IInv, Harm, DeserializeMetadata, DeserializeMetadataImpl
  <2> QED
    BY <2>1, <2>2, <2>3, <2>4 DEF IInv, Harm, DeserializeMetadata, DeserializeMetadataImpl
<1> QED
  BY <1>1, <1>2, <1>3, <1>4, <1>5, <1>6, <1>7, <1>8, <1>9, <1>10, <1>11, <1>12,
     <1>13
  DEF IInv

LEMMA RemoveBackupInv == IInv /\ RemoveBackup => IInv'
<1> SUFFICES ASSUME IInv, RemoveBackup PROVE IInv' OBVIOUS
<1>1. TypeOK'
  BY DEF IInv, TypeOK, RemoveBackup
<1>2. Control'
  BY DEF IInv, Control, RemoveBackup, Goto
<1>3. Lives'
  BY DEF IInv, Lives, RemoveBackup, Goto
<1>4. Reinit'
  BY DEF IInv, Reinit, RemoveBackup, Goto
<1>5. Create'
  BY DEF IInv, Create, RemoveBackup, Goto
<1>6. Loading'
  BY DEF Loading, RemoveBackup, Goto
<1>7. Saved'
  BY DEF IInv, Saved, RemoveBackup
<1>8. Copies'
  BY DEF IInv, Control, Reinit, Create, Copies, RemoveBackup
<1>9. Backup'
  BY DEF Backup, RemoveBackup
<1>10. SameLife'
  BY DEF IInv, Saved, SameLife, RemoveBackup
<1>11. Fits'
  BY DEF IInv, Saved, Fits, RemoveBackup
<1>12. Harm'
  BY DEF IInv, Control, Reinit, Create, Harm, RemoveBackup, Goto
<1>13. Refused'
  BY DEF Refused, RemoveBackup, Goto
<1> QED
  BY <1>1, <1>2, <1>3, <1>4, <1>5, <1>6, <1>7, <1>8, <1>9, <1>10, <1>11, <1>12,
     <1>13
  DEF IInv

LEMMA RemoveMarkerInv == IInv /\ RemoveMarker => IInv'
<1> SUFFICES ASSUME IInv, RemoveMarker PROVE IInv' OBVIOUS
<1>1. TypeOK'
  BY DEF IInv, TypeOK, RemoveMarker
<1>2. Control'
  BY DEF IInv, Control, RemoveMarker, Goto
<1>3. Lives'
  BY DEF IInv, Lives, RemoveMarker, Goto
<1>4. Reinit'
  BY DEF Reinit, RemoveMarker, Goto
<1>5. Create'
  BY DEF Create, RemoveMarker, Goto
<1>6. Loading'
  BY DEF Loading, RemoveMarker, Goto
<1>7. Saved'
  <2>1. Exists(main) /\ ~Exists(prev) /\ (opt.reinit => ~Exists(bak))
    BY DEF IInv, Control, Reinit, Create, Saved, RemoveMarker
  <2> QED BY <2>1 DEF IInv, Saved, RemoveMarker, Goto
<1>8. Copies'
  BY DEF IInv, Control, Reinit, Create, Copies, RemoveMarker
<1>9. Backup'
  BY DEF IInv, Control, Reinit, Backup, RemoveMarker, Goto
<1>10. SameLife'
  <2>1. pc = "unmark" /\ fresh /\ opt \in Options /\ marker' = NoFile /\ pc' = "rows"
    BY DEF IInv, TypeOK, Control, RemoveMarker, Goto
  <2>2. Exists(main) /\ ~Exists(prev)
    BY <2>1 DEF IInv, Reinit, Create, Saved
  <2>3. CASE opt.reinit
    <3>1. /\ data["graph"] \in {NoFile, life} /\ data["vectors"] = life
          /\ data["rows"] = NoFile /\ data["log"] = NoFile
      BY <2>1, <2>3 DEF IInv, Lives, Reinit
    <3>2. cur.life = life /\ main.life = life /\ ~Exists(bak)
      BY <2>1, <2>3 DEF IInv, Reinit
    <3>3. stale' = "no" /\ UNCHANGED <<cur, main, prev, bak, data, life>>
      BY <2>3 DEF RemoveMarker
    <3> QED BY <2>1, <2>2, <3>1, <3>2, <3>3 DEF SameLife, DataFiles
  <2>4. CASE ~opt.reinit
    BY <2>1, <2>2, <2>4 DEF IInv, SameLife, RemoveMarker, Goto
  <2> QED BY <2>3, <2>4
<1>11. Fits'
  BY DEF IInv, Reinit, Fits, RemoveMarker
<1>12. Harm'
  BY DEF IInv, Harm, RemoveMarker, Goto
<1>13. Refused'
  BY DEF Refused, RemoveMarker, Goto
<1> QED
  BY <1>1, <1>2, <1>3, <1>4, <1>5, <1>6, <1>7, <1>8, <1>9, <1>10, <1>11, <1>12,
     <1>13
  DEF IInv

LEMMA OpenMetadataStoreInv == IInv /\ OpenMetadataStore => IInv'
<1> SUFFICES ASSUME IInv, OpenMetadataStore PROVE IInv' OBVIOUS
<1>1. TypeOK'
  BY DEF IInv, TypeOK, OpenMetadataStore, metas, ghosts, DataFiles, Index
<1>2. Control'
  BY DEF IInv, Control, OpenMetadataStore, Goto
<1>3. Lives'
  BY DEF IInv, Lives, OpenMetadataStore, Goto, ghosts
<1>4. Reinit'
  BY DEF Reinit, OpenMetadataStore, Goto
<1>5. Create'
  BY DEF Create, OpenMetadataStore, Goto
<1>6. Loading'
  BY DEF Loading, OpenMetadataStore, Goto
<1>7. Saved'
  BY DEF IInv, Saved, OpenMetadataStore, metas, ghosts
<1>8. Copies'
  BY DEF IInv, Copies, OpenMetadataStore, metas, ghosts
<1>9. Backup'
  BY DEF IInv, Backup, OpenMetadataStore, metas, ghosts
<1>10. SameLife'
  BY DEF IInv, TypeOK, SameLife, OpenMetadataStore, Goto, metas, ghosts
<1>11. Fits'
  BY DEF IInv, Fits, OpenMetadataStore, metas, ghosts
<1>12. Harm'
  BY DEF IInv, Harm, OpenMetadataStore, metas, ghosts, Goto
<1>13. Refused'
  BY DEF Refused, OpenMetadataStore, Goto
<1> QED
  BY <1>1, <1>2, <1>3, <1>4, <1>5, <1>6, <1>7, <1>8, <1>9, <1>10, <1>11, <1>12,
     <1>13
  DEF IInv

LEMMA RecoverFromOpLogInv == IInv /\ RecoverFromOpLog => IInv'
<1> SUFFICES ASSUME IInv, RecoverFromOpLog PROVE IInv' OBVIOUS
<1>1. TypeOK'
  <2>1. cur \in Index /\ enc \in Encodings
    BY DEF IInv, TypeOK, Control, RecoverFromOpLog
  <2>2. cur.n < MaxWrites => [cur EXCEPT !.n = @ + 1] \in Index
    BY <2>1, BoundsAssumption DEF Index
  <2>3. cur' \in Index
    BY <2>1, <2>2 DEF RecoverFromOpLog
  <2>4. dirty' \in BOOLEAN
    BY DEF RecoverFromOpLog
  <2>5. graphEnc' \in Encodings \cup {None}
    BY <2>1 DEF RecoverFromOpLog, IInv, TypeOK
  <2>6. cur' # None
    BY <2>3, NothingAssumption
  <2>7. fresh' \in BOOLEAN /\ UNCHANGED <<opt, enc, opening, metas, data, logged, ghosts, budget>>
    BY DEF RecoverFromOpLog
  <2> QED BY <2>3, <2>4, <2>5, <2>6, <2>7 DEF IInv, TypeOK, metas, ghosts
<1>2. Control'
  BY DEF IInv, Control, RecoverFromOpLog, Goto
<1>3. Lives'
  BY DEF IInv, Lives, RecoverFromOpLog, Goto, ghosts
<1>4. Reinit'
  BY DEF Reinit, RecoverFromOpLog, Goto
<1>5. Create'
  BY DEF Create, RecoverFromOpLog, Goto
<1>6. Loading'
  BY DEF Loading, RecoverFromOpLog, Goto
<1>7. Saved'
  BY DEF IInv, Saved, RecoverFromOpLog, metas, ghosts
<1>8. Copies'
  BY DEF IInv, Copies, RecoverFromOpLog, metas, ghosts
<1>9. Backup'
  BY DEF IInv, Backup, RecoverFromOpLog, metas, ghosts
<1>10. SameLife'
  BY DEF IInv, TypeOK, SameLife, RecoverFromOpLog, metas, ghosts
<1>11. Fits'
  BY DEF IInv, Saved, Fits, RecoverFromOpLog, metas, ghosts
<1>12. Harm'
  BY DEF IInv, Harm, RecoverFromOpLog, metas, ghosts, Goto
<1>13. Refused'
  BY DEF Refused, RecoverFromOpLog, Goto
<1> QED
  BY <1>1, <1>2, <1>3, <1>4, <1>5, <1>6, <1>7, <1>8, <1>9, <1>10, <1>11, <1>12,
     <1>13
  DEF IInv

LEMMA StartLogInv == IInv /\ StartLog => IInv'
<1> SUFFICES ASSUME IInv, StartLog PROVE IInv' OBVIOUS
<1>1. TypeOK'
  <2>1. cur \in Index /\ cur # None
    BY DEF IInv, TypeOK, StartLog
  <2>2. data' \in [DataFiles -> {NoFile} \cup 1..MaxLives]
    BY <2>1 DEF IInv, TypeOK, StartLog, Index
  <2>3. logged' \in BOOLEAN /\ opening' \in BOOLEAN
    BY DEF IInv, TypeOK, StartLog
  <2> QED BY <2>1, <2>2, <2>3 DEF IInv, TypeOK, StartLog, metas, ghosts
<1>2. Control'
  BY DEF IInv, Control, StartLog, Goto
<1>3. Lives'
  BY DEF IInv, Lives, StartLog, Goto, ghosts
<1>4. Reinit'
  BY DEF IInv, Control, Reinit, StartLog, Goto
<1>5. Create'
  BY DEF IInv, Control, Create, StartLog, Goto
<1>6. Loading'
  BY DEF Loading, StartLog, Goto
<1>7. Saved'
  BY DEF IInv, Saved, StartLog, metas, ghosts
<1>8. Copies'
  BY DEF IInv, Copies, StartLog, metas, ghosts
<1>9. Backup'
  BY DEF IInv, Backup, StartLog, metas, ghosts
<1>10. SameLife'
  BY DEF IInv, Control, TypeOK, SameLife, StartLog, Goto, metas, ghosts
<1>11. Fits'
  BY DEF IInv, Fits, StartLog, metas, ghosts
<1>12. Harm'
  BY DEF IInv, Harm, StartLog, metas, ghosts, Goto
<1>13. Refused'
  BY DEF Refused, StartLog, Goto
<1> QED
  BY <1>1, <1>2, <1>3, <1>4, <1>5, <1>6, <1>7, <1>8, <1>9, <1>10, <1>11, <1>12,
     <1>13
  DEF IInv

LEMMA DropLogInv == IInv /\ DropLog => IInv'
<1> SUFFICES ASSUME IInv, DropLog PROVE IInv' OBVIOUS
<1>1. TypeOK'
  <2>1. cur \in Index /\ cur # None
    BY DEF IInv, TypeOK, DropLog
  <2>2. data' \in [DataFiles -> {NoFile} \cup 1..MaxLives]
    BY <2>1 DEF IInv, TypeOK, DropLog, Index
  <2>3. logged' \in BOOLEAN /\ opening' \in BOOLEAN
    BY DEF IInv, TypeOK, DropLog
  <2> QED BY <2>1, <2>2, <2>3 DEF IInv, TypeOK, DropLog, metas, ghosts
<1>2. Control'
  BY DEF IInv, Control, DropLog, Goto
<1>3. Lives'
  BY DEF IInv, Lives, DropLog, Goto, ghosts
<1>4. Reinit'
  BY DEF Reinit, DropLog, Goto
<1>5. Create'
  BY DEF Create, DropLog, Goto
<1>6. Loading'
  BY DEF Loading, DropLog, Goto
<1>7. Saved'
  BY DEF IInv, Saved, DropLog, metas, ghosts
<1>8. Copies'
  BY DEF IInv, Copies, DropLog, metas, ghosts
<1>9. Backup'
  BY DEF IInv, Backup, DropLog, metas, ghosts
<1>10. SameLife'
  BY DEF IInv, TypeOK, SameLife, DropLog, Goto, metas, ghosts
<1>11. Fits'
  BY DEF IInv, Fits, DropLog, metas, ghosts
<1>12. Harm'
  BY DEF IInv, Harm, DropLog, metas, ghosts, Goto
<1>13. Refused'
  BY DEF Refused, DropLog, Goto
<1> QED
  BY <1>1, <1>2, <1>3, <1>4, <1>5, <1>6, <1>7, <1>8, <1>9, <1>10, <1>11, <1>12,
     <1>13
  DEF IInv

LEMMA WriteInv == IInv /\ Write => IInv'
<1> SUFFICES ASSUME IInv, Write PROVE IInv' OBVIOUS
<1>1. TypeOK'
  BY BoundsAssumption, NothingAssumption
     DEF IInv, TypeOK, Control, Write, metas, ghosts, Options, Index
<1>2. Control'
  BY DEF IInv, Control, Write
<1>3. Lives'
  BY DEF IInv, Lives, Write, ghosts
<1>4. Reinit'
  BY DEF Reinit, Write
<1>5. Create'
  BY DEF Create, Write
<1>6. Loading'
  BY DEF Loading, Write
<1>7. Saved'
  BY DEF IInv, Saved, Write, metas, ghosts
<1>8. Copies'
  BY DEF IInv, Copies, Write, metas, ghosts
<1>9. Backup'
  BY DEF IInv, Backup, Write, metas, ghosts
<1>10. SameLife'
  BY DEF IInv, TypeOK, SameLife, Write, metas, ghosts
<1>11. Fits'
  BY DEF IInv, Saved, Fits, Write, metas, ghosts
<1>12. Harm'
  BY DEF IInv, Harm, Write, metas, ghosts
<1>13. Refused'
  BY DEF Refused, Write
<1> QED
  BY <1>1, <1>2, <1>3, <1>4, <1>5, <1>6, <1>7, <1>8, <1>9, <1>10, <1>11, <1>12,
     <1>13
  DEF IInv

LEMMA CheckpointLockedInv == IInv /\ CheckpointLocked => IInv'
<1> SUFFICES ASSUME IInv, CheckpointLocked PROVE IInv' OBVIOUS
<1>1. TypeOK'
  BY DEF IInv, TypeOK, CheckpointLocked, metas, ghosts
<1>2. Control'
  BY DEF IInv, Control, CheckpointLocked, Goto
<1>3. Lives'
  BY DEF IInv, Lives, CheckpointLocked, Goto, ghosts
<1>4. Reinit'
  BY DEF IInv, Control, Reinit, CheckpointLocked, Goto
<1>5. Create'
  BY DEF IInv, Control, Create, CheckpointLocked, Goto
<1>6. Loading'
  BY DEF Loading, CheckpointLocked, Goto
<1>7. Saved'
  BY DEF IInv, Saved, CheckpointLocked, metas, ghosts
<1>8. Copies'
  BY DEF IInv, Copies, CheckpointLocked, metas, ghosts
<1>9. Backup'
  BY DEF IInv, Backup, CheckpointLocked, metas, ghosts
<1>10. SameLife'
  BY DEF IInv, Control, SameLife, CheckpointLocked, metas, ghosts
<1>11. Fits'
  BY DEF IInv, Fits, CheckpointLocked, metas, ghosts
<1>12. Harm'
  BY DEF IInv, Harm, CheckpointLocked, metas, ghosts, Goto
<1>13. Refused'
  BY DEF Refused, CheckpointLocked, Goto
<1> QED
  BY <1>1, <1>2, <1>3, <1>4, <1>5, <1>6, <1>7, <1>8, <1>9, <1>10, <1>11, <1>12,
     <1>13
  DEF IInv

LEMMA WriteTmpInv == IInv /\ WriteTmp => IInv'
<1> SUFFICES ASSUME IInv, WriteTmp PROVE IInv' OBVIOUS
<1>1. TypeOK'
  BY DEF IInv, TypeOK, WriteTmp, ghosts
<1>2. Control'
  BY DEF IInv, Control, Reinit, Create, WriteTmp, Goto
<1>3. Lives'
  BY DEF IInv, Lives, WriteTmp, Goto, ghosts
<1>4. Reinit'
  BY DEF IInv, Reinit, WriteTmp, Goto, ghosts
<1>5. Create'
  BY DEF IInv, Create, WriteTmp, Goto
<1>6. Loading'
  BY DEF Loading, WriteTmp, Goto
<1>7. Saved'
  BY DEF IInv, Saved, WriteTmp, Goto, ghosts
<1>8. Copies'
  BY DEF IInv, Copies, WriteTmp, ghosts
<1>9. Backup'
  BY DEF IInv, Backup, WriteTmp, Goto, ghosts
<1>10. SameLife'
  BY DEF IInv, SameLife, WriteTmp, ghosts
<1>11. Fits'
  BY DEF IInv, Fits, WriteTmp, ghosts
<1>12. Harm'
  BY DEF IInv, Control, Reinit, Create, Saved, Harm, WriteTmp, ghosts, Goto
<1>13. Refused'
  BY DEF Refused, WriteTmp, Goto
<1> QED
  BY <1>1, <1>2, <1>3, <1>4, <1>5, <1>6, <1>7, <1>8, <1>9, <1>10, <1>11, <1>12,
     <1>13
  DEF IInv

LEMMA LinkPrevInv == IInv /\ LinkPrev => IInv'
<1> SUFFICES ASSUME IInv, LinkPrev PROVE IInv' OBVIOUS
<1>1. TypeOK'
  BY DEF IInv, TypeOK, LinkPrev, ghosts
<1>2. Control'
  BY DEF IInv, Control, LinkPrev, Goto
<1>3. Lives'
  BY DEF IInv, Lives, LinkPrev, Goto, ghosts
<1>4. Reinit'
  BY DEF IInv, Reinit, LinkPrev, Goto, ghosts
<1>5. Create'
  BY DEF IInv, Create, LinkPrev, Goto
<1>6. Loading'
  BY DEF Loading, LinkPrev, Goto
<1>7. Saved'
  BY DEF IInv, Control, Saved, LinkPrev, ghosts
<1>8. Copies'
  BY DEF IInv, Control, Saved, Copies, LinkPrev, ghosts
<1>9. Backup'
  BY DEF IInv, Backup, LinkPrev, Goto, ghosts
<1>10. SameLife'
  BY DEF IInv, Control, SameLife, LinkPrev, ghosts
<1>11. Fits'
  BY DEF IInv, Control, Fits, LinkPrev, ghosts
<1>12. Harm'
  BY DEF IInv, Harm, Reinit, Create, Saved, LinkPrev, ghosts, Goto
<1>13. Refused'
  BY DEF Refused, LinkPrev, Goto
<1> QED
  BY <1>1, <1>2, <1>3, <1>4, <1>5, <1>6, <1>7, <1>8, <1>9, <1>10, <1>11, <1>12,
     <1>13
  DEF IInv

LEMMA RenameTmpInv == IInv /\ RenameTmp => IInv'
<1> SUFFICES ASSUME IInv, RenameTmp PROVE IInv' OBVIOUS
<1>1. TypeOK'
  <2>1. cur \in Index /\ enc \in Encodings
    BY DEF IInv, TypeOK, Control, RenameTmp
  <2>2. SerializeMetadata \in Meta
    BY <2>1 DEF SerializeMetadata, Index, Meta
  <2>3. data' \in [DataFiles -> {NoFile} \cup 1..MaxLives]
    BY <2>1 DEF IInv, TypeOK, RenameTmp, Index
  <2> QED BY <2>2, <2>3, <2>1 DEF IInv, TypeOK, RenameTmp, Goto
<1>2. Control'
  BY DEF IInv, Control, RenameTmp, Goto
<1>3. Lives'
  BY DEF IInv, Lives, RenameTmp, Goto
<1>4. Reinit'
  BY DEF IInv, Reinit, RenameTmp, Goto, SerializeMetadata
<1>5. Create'
  BY DEF IInv, Create, RenameTmp, Goto
<1>6. Loading'
  BY DEF Loading, RenameTmp, Goto
<1>7. Saved'
  BY NothingAssumption
     DEF IInv, TypeOK, Control, Reinit, Create, Saved, RenameTmp, SerializeMetadata,
         Index, Meta
<1>8. Copies'
  BY DEF IInv, Reinit, Create, Saved, Copies, RenameTmp, SerializeMetadata
<1>9. Backup'
  BY DEF IInv, Backup, RenameTmp
<1>10. SameLife'
  BY NothingAssumption
     DEF IInv, TypeOK, Create, Saved, SameLife, RenameTmp, SerializeMetadata, Index, Meta
<1>11. Fits'
  BY NothingAssumption DEF IInv, TypeOK, Fits, RenameTmp, SerializeMetadata, Index, Meta
<1>12. Harm'
  <2>1. Exists(main') /\ main'.ok = "ok"
    <3>1. cur \in Index /\ enc \in Encodings
      BY DEF IInv, TypeOK, Control, RenameTmp
    <3>2. SerializeMetadata \in Meta /\ SerializeMetadata.ok = "ok"
      BY <3>1 DEF SerializeMetadata, Index, Meta
    <3> QED BY <3>2, NothingAssumption DEF RenameTmp
  <2> QED BY <2>1 DEF IInv, Harm, RenameTmp
<1>13. Refused'
  BY DEF Refused, RenameTmp, Goto
<1> QED
  BY <1>1, <1>2, <1>3, <1>4, <1>5, <1>6, <1>7, <1>8, <1>9, <1>10, <1>11, <1>12,
     <1>13
  DEF IInv

LEMMA CheckpointFailsInv == IInv /\ CheckpointFails => IInv'
<1> SUFFICES ASSUME IInv, CheckpointFails PROVE IInv' OBVIOUS
<1>1. /\ pc \in {"tmp", "link", "rename"}
      /\ UNCHANGED <<metas, data, graphEnc, logged, ghosts>>
      /\ budget' \in [crashes : 0..MaxCrashes, damage : 0..MaxDamage, failures : 0..MaxFailures]
  BY BoundsAssumption DEF IInv, TypeOK, CheckpointFails, Spend
<1>2. CASE opening /\ Gone
  <2>1. TypeOK' /\ Control'
    BY <1>1, <1>2 DEF IInv, TypeOK, Control, Gone, Goto, metas, ghosts
  <2>2. Copies' /\ Harm' /\ Backup'
    BY <1>1, <1>2 DEF IInv, Copies, Harm, Backup, Gone, Goto, metas, ghosts
  <2>3. SameLife' /\ Fits'
    BY <1>1, <1>2 DEF IInv, SameLife, Fits, Gone, Goto, metas, ghosts
  <2>4. Lives' /\ Reinit' /\ Create' /\ Loading' /\ Saved' /\ Refused'
    BY <1>1, <1>2
       DEF IInv, Lives, Reinit, Create, Loading, Saved, Refused, Gone, Goto, metas, ghosts
  <2> QED BY <2>1, <2>2, <2>3, <2>4 DEF IInv
<1>3. CASE ~opening /\ Goto("open") /\ UNCHANGED <<opt, enc, fresh, opening, cur, dirty>>
  <2>1. ~fresh
    BY <1>1, <1>3 DEF IInv, Control
  <2>2. TypeOK' /\ Control' /\ Lives' /\ Refused'
    BY <1>1, <1>3, <2>1
       DEF IInv, TypeOK, Control, Lives, Refused, Goto, metas, ghosts
  <2>3. Reinit' /\ Create' /\ Loading' /\ Saved'
    BY <1>1, <1>3, <2>1 DEF IInv, Reinit, Create, Loading, Saved, Goto, metas, ghosts
  <2>4. Copies' /\ Harm' /\ Backup'
    BY <1>1, <1>3, <2>1 DEF IInv, Copies, Harm, Backup, Goto, metas, ghosts
  <2>5. SameLife' /\ Fits'
    BY <1>1, <1>3, <2>1 DEF IInv, SameLife, Fits, Goto, metas, ghosts
  <2> QED BY <2>2, <2>3, <2>4, <2>5 DEF IInv
<1> QED
  BY <1>2, <1>3 DEF CheckpointFails

LEMMA CloseInv == IInv /\ Close => IInv'
<1> SUFFICES ASSUME IInv, Close PROVE IInv' OBVIOUS
<1>1. TypeOK'
  BY DEF IInv, TypeOK, Close, Gone, Goto, metas, ghosts
<1>2. Control'
  BY DEF Control, Close, Gone, Goto
<1>3. Lives'
  BY DEF IInv, Lives, Close, Gone, Goto, ghosts
<1>4. Reinit'
  BY DEF Reinit, Close, Gone, Goto
<1>5. Create'
  BY DEF Create, Close, Gone, Goto
<1>6. Loading'
  BY DEF Loading, Close, Gone, Goto
<1>7. Saved'
  BY DEF Saved, Close, Gone, Goto
<1>8. Copies'
  BY DEF IInv, Copies, Close, metas, ghosts
<1>9. Backup'
  BY DEF IInv, Backup, Close, metas, ghosts
<1>10. SameLife'
  BY DEF IInv, SameLife, Close, Gone, metas, ghosts
<1>11. Fits'
  BY DEF IInv, Fits, Close, Gone, Goto, metas, ghosts
<1>12. Harm'
  BY DEF IInv, Harm, Close, Gone, metas, ghosts, Goto
<1>13. Refused'
  BY DEF Refused, Close, Gone, Goto
<1> QED
  BY <1>1, <1>2, <1>3, <1>4, <1>5, <1>6, <1>7, <1>8, <1>9, <1>10, <1>11, <1>12,
     <1>13
  DEF IInv

LEMMA CrashInv == IInv /\ Crash => IInv'
<1> SUFFICES ASSUME IInv, Crash PROVE IInv' OBVIOUS
<1>1. TypeOK'
  <2>1. budget' \in [crashes : 0..MaxCrashes, damage : 0..MaxDamage, failures : 0..MaxFailures]
    BY BoundsAssumption DEF IInv, TypeOK, Crash, Spend
  <2> QED BY <2>1 DEF IInv, TypeOK, Crash, Gone, Goto, metas, ghosts
<1>2. Control'
  BY DEF Control, Crash, Gone, Goto
<1>3. Lives'
  BY DEF IInv, Lives, Crash, Gone, Goto, metas, ghosts
<1>4. Reinit'
  BY DEF Reinit, Crash, Gone, Goto
<1>5. Create'
  BY DEF Create, Crash, Gone, Goto
<1>6. Loading'
  BY DEF Loading, Crash, Gone, Goto
<1>7. Saved'
  BY DEF Saved, Crash, Gone, Goto
<1>8. Copies'
  BY DEF IInv, Copies, Crash, Spend, metas, ghosts
<1>9. Backup'
  BY DEF IInv, Backup, Crash, Gone, Goto, metas, ghosts
<1>10. SameLife'
  BY DEF IInv, SameLife, Crash, Gone, metas, ghosts
<1>11. Fits'
  BY DEF IInv, Fits, Crash, Gone, Goto, metas, ghosts
<1>12. Harm'
  BY DEF IInv, Harm, Crash, Gone, metas, ghosts, Goto
<1>13. Refused'
  BY DEF Refused, Crash, Gone, Goto
<1> QED
  BY <1>1, <1>2, <1>3, <1>4, <1>5, <1>6, <1>7, <1>8, <1>9, <1>10, <1>11, <1>12,
     <1>13
  DEF IInv

LEMMA DamageInv == IInv /\ Damage => IInv'
<1> SUFFICES ASSUME IInv, Damage PROVE IInv' OBVIOUS
<1>1. /\ Exists(main) /\ Exists(main')
      /\ main' \in Meta /\ main'.life = main.life /\ main'.enc = main.enc
  BY NothingAssumption DEF IInv, TypeOK, Damage, Meta
<1>2. IF linked THEN prev = main /\ prev' = main' ELSE prev' = prev
  BY <1>1 DEF IInv, Copies, Damage
<1>3. budget' \in [crashes : 0..MaxCrashes, damage : 0..MaxDamage, failures : 0..MaxFailures]
  BY BoundsAssumption DEF IInv, TypeOK, Damage, Spend
<1>4. harm' \in {"spare", "only", "spread"} /\ (linked \/ cur # None => harm' = "spread")
  BY DEF IInv, TypeOK, Damage
<1>5. TypeOK'
  BY <1>1, <1>2, <1>3, <1>4 DEF IInv, TypeOK, Damage
<1>6. Control' /\ Lives' /\ Reinit' /\ Create'
  BY <1>1, <1>2 DEF IInv, Control, Lives, Reinit, Create, Damage
<1>7. Loading' /\ Copies' /\ Backup'
  BY <1>1, <1>2 DEF IInv, Loading, Copies, Backup, Damage
<1>8. Saved'
  BY <1>1, <1>2, <1>4 DEF IInv, TypeOK, Saved, Damage
<1>9. SameLife'
  BY <1>1, <1>2 DEF IInv, SameLife, Damage
<1>10. Fits'
  BY <1>1, <1>2 DEF IInv, Fits, Damage
<1>11. Harm'
  <2>1. CASE harm' = "spread"
    BY <1>1, <2>1 DEF Harm
  <2>2. CASE harm' # "spread"
    <3>1. ~linked /\ prev' = prev /\ harm # "spread"
      BY <1>2, <2>2 DEF Damage
    <3>2. harm' = "spare" => Exists(prev) /\ harm \in {"none", "spare"}
      BY <2>2, <3>1 DEF IInv, TypeOK, Damage
    <3> QED BY <1>1, <1>4, <2>2, <3>1, <3>2 DEF IInv, Harm, Damage
  <2> QED BY <2>1, <2>2
<1>12. Refused'
  BY DEF IInv, Refused, Damage
<1> QED
  BY <1>5, <1>6, <1>7, <1>8, <1>9, <1>10, <1>11, <1>12 DEF IInv

LEMMA InitInv == Init => IInv
<1> SUFFICES ASSUME Init PROVE IInv OBVIOUS
<1>1. TypeOK
  <2>1. budget \in [crashes : 0..MaxCrashes, damage : 0..MaxDamage, failures : 0..MaxFailures]
    BY BoundsAssumption DEF Init
  <2>2. data \in [DataFiles -> {NoFile} \cup 1..MaxLives] /\ life \in 0..MaxLives
    BY BoundsAssumption DEF Init
  <2> QED BY <2>1, <2>2 DEF Init, TypeOK
<1>2. Control /\ Lives /\ Reinit /\ Create /\ Loading /\ Saved
  BY DEF Init, Control, Lives, Reinit, Create, Loading, Saved, DataFiles
<1>3. Copies /\ Harm /\ Backup /\ SameLife /\ Fits /\ Refused
  BY DEF Init, Copies, Harm, Backup, SameLife, Fits, Refused
<1> QED BY <1>1, <1>2, <1>3 DEF IInv

LEMMA NextInv == IInv /\ [Next]_vars => IInv'
<1> SUFFICES ASSUME IInv, [Next]_vars PROVE IInv' OBVIOUS
<1>1. CASE Open
  BY <1>1, StageMetadataInv, ResolveEncodingInv, WriteCreateMarkerInv, OpenGraphInv,
     OpenVectorsInv, RemoveOldRowsInv, RemoveOldLogInv, LoadMetadataInv, RemoveBackupInv,
     RemoveMarkerInv, OpenMetadataStoreInv, RecoverFromOpLogInv, StartLogInv,
     DropLogInv, StageRenameInv
     DEF Open
<1>2. CASE Write
  BY <1>2, WriteInv
<1>3. CASE CheckpointLocked
  BY <1>3, CheckpointLockedInv
<1>4. CASE WriteTmp
  BY <1>4, WriteTmpInv
<1>5. CASE LinkPrev
  BY <1>5, LinkPrevInv
<1>6. CASE RenameTmp
  BY <1>6, RenameTmpInv
<1>7. CASE CheckpointFails
  BY <1>7, CheckpointFailsInv
<1>8. CASE Close
  BY <1>8, CloseInv
<1>9. CASE Crash
  BY <1>9, CrashInv
<1>10. CASE Damage
  BY <1>10, DamageInv
<1>11. CASE UNCHANGED vars
  BY <1>11
     DEF vars, metas, ghosts, IInv, TypeOK, Control, Lives, Reinit, Create, Loading,
         Saved, Copies, Harm, Backup, SameLife, Fits, Refused
<1> QED BY <1>1, <1>2, <1>3, <1>4, <1>5, <1>6, <1>7, <1>8, <1>9, <1>10, <1>11 DEF Next

(***************************************************************************)
(* The theorems                                                            *)
(***************************************************************************)

\* The inductive invariant holds in every state an Open, a write, a checkpoint,
\* a crash or a damaged file can lead to.
THEOREM Invariance == Spec => []IInv
<1>1. Init => IInv
  BY InitInv
<1>2. IInv /\ [Next]_vars => IInv'
  BY NextInv
<1> QED BY <1>1, <1>2, PTL DEF Spec

\* Every variable of AsterVecDB::Open and of the checkpoint code keeps its type, and
\* no life, write or fault is counted past its bound.
THEOREM TypeCorrect == Spec => []TypeOK
<1>1. IInv => TypeOK
  BY DEF IInv
<1> QED BY <1>1, Invariance, PTL

\* The adjacency lists are never read with an encoding other than the one they
\* were written with: Open resolves it from .meta, .prev, the creating marker or
\* the environment, in that order, and a crash between any two steps of creating,
\* reinitialising or checkpointing leaves the right one to be found.  Not claimed
\* once the backup of a completed reinit was put back, nor where a reinit that was
\* cut short had removed a .prev that was the only checkpoint.
THEOREM GraphReadsBack == Spec => []EncodingFits
<1>1. IInv => EncodingFits
  BY DEF IInv, Fits, EncodingFits
<1> QED BY <1>1, Invariance, PTL

\* Whatever Open loads, the graph, the vectors, the payload rows and the log
\* beside it are of the same life of the store: of one created, however often its
\* creation was interrupted, or of one whose reinit completed.  After a reinit that
\* was cut short nothing is claimed until another one completes (the run with
\* ReinitRecoverable shows what may happen).
THEOREM OneLifeAlways == Spec => []OneLife
<1>1. IInv => OneLife
  BY DEF IInv, TypeOK, SameLife, OneLife
<1> QED BY <1>1, Invariance, PTL

\* However often the process dies or a checkpoint fails, in creating a store, in
\* opening one or in a checkpoint, and with the main file damaged while .prev is a
\* file of its own, an Open in the store's id mode is not refused.  Not claimed
\* after a reinit that was cut short, nor after damage that met the only copy, both
\* copies through the hard link, or a main file no one would read again.
THEOREM CrashesLeaveItOpenable == Spec => []CrashNeverBricks
<1>1. IInv => CrashNeverBricks
  BY DEF IInv, Refused, CrashNeverBricks
<1> QED BY <1>1, Invariance, PTL

\* .prev, once there, is a checkpoint that Open can fall back to, for any number of
\* crashes and failed checkpoints and for every damage to the main file that did
\* not meet it while .prev was its second name or once it was loaded; of its
\* encoding and life the theorem says the same as GoodCopyKept, with the same
\* exceptions for a restored backup and a reinit cut short.
THEOREM PrevIsFit == Spec => []GoodCopyKept
<1>1. IInv => GoodCopyKept
  BY DEF IInv, Lives, Copies, Harm, SameLife, GoodCopyKept, Good
<1> QED BY <1>1, Invariance, PTL

=============================================================================
