-------------------------- MODULE AsterVecDBProofs --------------------------
(***************************************************************************)
(* Proofs about the write path and the recovery of AsterVecDB, for any     *)
(* number of threads, ids, calls, crashes, failures and damaged            *)
(* checkpoints.                                                            *)
(*                                                                         *)
(* Why an update id is never handed out twice: whatever carries one (a     *)
(* version, a tombstone, a mapping, a payload row, a record of the log, a  *)
(* call past logOp) got it from an insert or update record of the log      *)
(* (Logged), written before anything else; and the next update id lies     *)
(* above those of all records the index reflects, be it the running one,   *)
(* a checkpoint or one under replay (Reflects).  What is handed out but    *)
(* not logged yet is known to its call alone.                              *)
(*                                                                         *)
(* Why, while no call has failed, the index stays consistent: the ids of   *)
(* a real id (its own, its version, those of the call that holds its lock) *)
(* are no other's, and the index fits the step each call is at (Sound);    *)
(* and a history of the log (hist) says what each prefix of it makes of    *)
(* each id, in the running index, in each checkpoint at its position and   *)
(* in the index under replay (Told).                                       *)
(***************************************************************************)
EXTENDS AsterVecDB, FiniteSetTheorems, TLAPS

PartialMaps(A, B) == UNION {[D -> B] : D \in SUBSET A}
UpdateIds == {i \in Nat : is_update_id(i)}
Index == [vecs : PartialMaps(Nat, Vecs), tomb : SUBSET Nat, fwd : PartialMaps(RealIds, UpdateIds),
          rev : PartialMaps(Nat, RealIds), next : UpdateIds, count : Int]

InsertCall == [pc : {"log", "node", "abort", "row"}, kind : {"insert"}, real : RealIds,
               vec : Vecs, arg : Payloads \cup {Absent}, lsn : Nat, new : Nat, old : Nat,
               read : Payloads]
VersionCall == [pc : {"log", "node", "abort", "map", "tomb", "read", "row", "drop"},
                kind : {"reinsert", "update"}, real : RealIds, vec : Vecs,
                arg : Payloads \cup {Absent}, lsn : Nat, new : UpdateIds, old : Nat,
                read : Payloads]
DeleteCall == [pc : {"log", "tomb", "drop", "forget"}, kind : {"delete"}, real : RealIds,
               vec : {Gone}, arg : {Absent}, lsn : Nat, new : Nat, old : Nat,
               read : Payloads, alive : BOOLEAN]
PayloadCall == [pc : {"put", "read"}, kind : PayloadKinds, real : RealIds, arg : Payloads,
                lsn : Nat, new : Nat, read : Payloads]
Call == {Idle} \cup InsertCall \cup VersionCall \cup DeleteCall \cup PayloadCall

UpsertRecord == [op : {"insert", "update"}, real : RealIds, new : Nat, old : Nat,
                 vec : Vecs, arg : Payloads \cup {Absent}]
DeleteRecord == [op : {"delete"}, real : RealIds, new : Nat, old : Nat,
                 vec : {Gone}, arg : {Absent}]
AbortRecord == [op : {"abort"}, aux : Nat]
Record == UpsertRecord \cup DeleteRecord \cup AbortRecord

CheckpointFile == [lsn : Nat, ix : Index]

Types ==
  /\ enable_oplog \in BOOLEAN
  /\ phase \in {"open", "down", "replaying", "dropping", "replayed"}
  /\ ix \in Index
  /\ rows \in PartialMaps(Nat, Payloads)
  /\ log \in Seq(Record)
  /\ main \in CheckpointFile \cup {NoFile, Damaged}
  /\ prev \in CheckpointFile \cup {NoFile}
  /\ dirty \in BOOLEAN
  /\ at \in Nat \ {0} /\ at <= Len(log) + 1
  /\ local \in [Writers -> Call]
  /\ blurred \subseteq RealIds

\* The checkpoint files that are whole.
Loadable == {main, prev} \ {NoFile, Damaged}

\* A checkpoint can always be loaded, and no call survives its process.
Control ==
  /\ \A f \in Loadable : f.lsn <= Len(log)
  /\ main \in {NoFile, Damaged} => prev # NoFile
  /\ phase # "down" => main # Damaged
  /\ phase # "open" => \A w \in Writers : local[w] = Idle
  /\ phase = "dropping" => at <= Len(log) /\ log[at].op = "update"
  /\ phase = "replayed" => at = Len(log) + 1
  /\ phase = "down" => ix = EmptyIndex

Issues(rec) == rec.op \in {"insert", "update"}

\* An update id comes from one of the first n records of log l.
Logged(l, i, n) == is_update_id(i) => \E k \in 1..n : Issues(l[k]) /\ l[k].new = i

IdsOf(x) == DOMAIN x.vecs \cup x.tomb \cup {x.fwd[r] : r \in DOMAIN x.fwd}

\* Index x holds ids of the first n records of l only and will not reuse theirs.
Reflects(l, x, n) ==
  /\ \A i \in IdsOf(x) : Logged(l, i, n)
  /\ \A k \in 1..n : Issues(l[k]) => l[k].new < x.next

\* A record names ids that it or an earlier record issued.
RecordsLogged(l) ==
  \A k \in 1..Len(l) : l[k].op # "abort" => Logged(l, l[k].new, k) /\ Logged(l, l[k].old, k)

\* A call not logged yet keeps to itself the update id it took from x.
CallLogged(l, x, c) ==
  c # Idle =>
    /\ IF c.pc = "log" /\ c.kind # "delete" THEN c.new < x.next ELSE Logged(l, c.new, Len(l))
    /\ c.kind \in VectorKinds => Logged(l, c.old, Len(l))

\* How much of the log the running index reflects.
Horizon == CASE phase = "down" -> 0
             [] phase = "replaying" -> at - 1
             [] phase = "dropping" -> at
             [] OTHER -> Len(log)

Origins == enable_oplog =>
  /\ RecordsLogged(log)
  /\ Reflects(log, ix, Horizon)
  /\ \A f \in Loadable : Reflects(log, f.ix, f.lsn)
  /\ \A i \in DOMAIN rows : Logged(log, i, Len(log))
  /\ \A w \in Writers : CallLogged(log, ix, local[w])

IInv == Types /\ Control /\ Origins

-----------------------------------------------------------------------------
(* The operators on the index.                                             *)

LEMMA SetInMaps ==
  ASSUME NEW A, NEW B, NEW f \in PartialMaps(A, B), NEW k \in A, NEW v \in B
  PROVE  Set(f, k, v) \in PartialMaps(A, B)
<1>1. PICK D \in SUBSET A : f \in [D -> B]
  BY DEF PartialMaps
<1>2. Set(f, k, v) = [x \in D \cup {k} |-> IF x = k THEN v ELSE f[x]]
  BY <1>1 DEF Set
<1>3. Set(f, k, v) \in [D \cup {k} -> B] /\ D \cup {k} \in SUBSET A
  BY <1>1, <1>2
<1> QED
  BY <1>3 DEF PartialMaps

LEMMA WithoutInMaps ==
  ASSUME NEW A, NEW B, NEW f \in PartialMaps(A, B), NEW k
  PROVE  Without(f, k) \in PartialMaps(A, B)
<1>1. PICK D \in SUBSET A : f \in [D -> B]
  BY DEF PartialMaps
<1>2. Without(f, k) = [x \in D \ {k} |-> f[x]]
  BY <1>1 DEF Without
<1>3. Without(f, k) \in [D \ {k} -> B] /\ D \ {k} \in SUBSET A
  BY <1>1, <1>2
<1> QED
  BY <1>1, <1>2, <1>3 DEF PartialMaps

LEMMA MapValues ==
  ASSUME NEW A, NEW B, NEW f \in PartialMaps(A, B)
  PROVE  DOMAIN f \subseteq A /\ \A x \in DOMAIN f : f[x] \in B
  BY DEF PartialMaps

LEMMA IndexFields ==
  ASSUME NEW x \in Index
  PROVE  /\ x.vecs \in PartialMaps(Nat, Vecs) /\ x.tomb \subseteq Nat
         /\ x.fwd \in PartialMaps(RealIds, UpdateIds) /\ x.rev \in PartialMaps(Nat, RealIds)
         /\ x.next \in UpdateIds /\ x.next \in Nat /\ x.count \in Int
         /\ IdsOf(x) \subseteq Nat
<1>1. /\ x.vecs \in PartialMaps(Nat, Vecs) /\ x.tomb \subseteq Nat
      /\ x.fwd \in PartialMaps(RealIds, UpdateIds) /\ x.rev \in PartialMaps(Nat, RealIds)
      /\ x.next \in UpdateIds /\ x.count \in Int
  BY DEF Index
<1>2. UpdateIds \subseteq Nat
  BY DEF UpdateIds
<1>3. DOMAIN x.vecs \subseteq Nat /\ \A r \in DOMAIN x.fwd : x.fwd[r] \in UpdateIds
  BY <1>1, MapValues
<1> QED
  BY <1>1, <1>2, <1>3 DEF IdsOf

\* What the maps translate a real id to is a direct id or one of the index.
LEMMA ResolveInternal ==
  ASSUME NEW x \in Index, NEW r \in RealIds
  PROVE  /\ resolve_internal(x, r) \in Nat
         /\ ~is_update_id(resolve_internal(x, r)) \/ resolve_internal(x, r) \in IdsOf(x)
<1>1. r \in Nat /\ ~is_update_id(r)
  BY IdsAssumption DEF is_update_id
<1> QED
  BY <1>1, IndexFields DEF resolve_internal, IdsOf

LEMMA InsertNodeIndex ==
  ASSUME NEW x \in Index, NEW i \in Nat, NEW v \in Vecs
  PROVE  /\ insertNode(x, i, v) \in Index
         /\ insertNode(x, i, v).next = x.next
         /\ insertNode(x, i, v).count = x.count
         /\ IdsOf(insertNode(x, i, v)) \subseteq IdsOf(x) \cup {i}
<1> DEFINE y == insertNode(x, i, v)
<1>1. /\ y.vecs = Set(x.vecs, i, v) /\ y.tomb = x.tomb /\ y.fwd = x.fwd
      /\ y.next = x.next /\ y.count = x.count
  BY DEF insertNode, Index
<1>a. x.vecs \in PartialMaps(Nat, Vecs)
  BY IndexFields
<1>2. Set(x.vecs, i, v) \in PartialMaps(Nat, Vecs)
  BY <1>a, SetInMaps
<1>b. DOMAIN Set(x.vecs, i, v) = DOMAIN x.vecs \cup {i}
  BY DEF Set
<1>3. y \in Index
  BY <1>2 DEF insertNode, Index
<1> QED
  BY <1>1, <1>b, <1>3 DEF IdsOf

LEMMA TombstoneIndex ==
  ASSUME NEW x \in Index, NEW i \in Nat
  PROVE  /\ tombstone(x, i) \in Index
         /\ tombstone(x, i).next = x.next
         /\ tombstone(x, i).count = x.count
         /\ IdsOf(tombstone(x, i)) \subseteq IdsOf(x) \cup {i}
<1> DEFINE y == tombstone(x, i)
<1>1. /\ y.vecs = x.vecs /\ y.tomb = x.tomb \cup {i} /\ y.fwd = x.fwd
      /\ y.next = x.next /\ y.count = x.count
  BY DEF tombstone, Index
<1>2. y \in Index
  BY DEF tombstone, Index
<1> QED
  BY <1>1, <1>2 DEF IdsOf

LEMMA RecordMappingIndex ==
  ASSUME NEW x \in Index, NEW r \in RealIds, NEW i \in UpdateIds
  PROVE  /\ record_update_mapping(x, r, i) \in Index
         /\ record_update_mapping(x, r, i).next = x.next
         /\ IdsOf(record_update_mapping(x, r, i)) \subseteq IdsOf(x) \cup {i}
<1> DEFINE y == record_update_mapping(x, r, i)
           rest == IF r \in DOMAIN x.fwd THEN Without(x.rev, x.fwd[r]) ELSE x.rev
<1>1. /\ y.vecs = x.vecs /\ y.tomb = x.tomb /\ y.fwd = Set(x.fwd, r, i)
      /\ y.next = x.next
  BY DEF record_update_mapping, Index
<1>2. i \in Nat /\ rest \in PartialMaps(Nat, RealIds)
  BY IndexFields, WithoutInMaps DEF UpdateIds
<1>3. /\ Set(x.fwd, r, i) \in PartialMaps(RealIds, UpdateIds)
      /\ Set(rest, i, r) \in PartialMaps(Nat, RealIds)
  <2> HIDE DEF rest
  <2> QED
    BY <1>2, IndexFields, SetInMaps
<1>4. y \in Index
  BY <1>3 DEF record_update_mapping, Index
<1>b. /\ DOMAIN Set(x.fwd, r, i) = DOMAIN x.fwd \cup {r}
      /\ \A q \in DOMAIN Set(x.fwd, r, i) : Set(x.fwd, r, i)[q] = IF q = r THEN i ELSE x.fwd[q]
  BY DEF Set
<1>5. \A q \in DOMAIN y.fwd : y.fwd[q] = i \/ (q \in DOMAIN x.fwd /\ y.fwd[q] = x.fwd[q])
  BY <1>1, <1>b
<1> HIDE DEF y
<1> QED
  BY <1>1, <1>4, <1>5 DEF IdsOf, y

LEMMA ForgetMappingIndex ==
  ASSUME NEW x \in Index, NEW r \in RealIds
  PROVE  /\ forget_update_mapping(x, r) \in Index
         /\ forget_update_mapping(x, r).next = x.next
         /\ IdsOf(forget_update_mapping(x, r)) \subseteq IdsOf(x)
<1> DEFINE y == forget_update_mapping(x, r)
           rest == IF r \in DOMAIN x.fwd THEN Without(x.rev, x.fwd[r]) ELSE x.rev
<1>1. /\ y.vecs = x.vecs /\ y.tomb = x.tomb /\ y.fwd = Without(x.fwd, r)
      /\ y.next = x.next
  BY DEF forget_update_mapping, Index
<1>2. rest \in PartialMaps(Nat, RealIds)
  BY IndexFields, WithoutInMaps
<1>3. Without(x.fwd, r) \in PartialMaps(RealIds, UpdateIds)
  BY IndexFields, WithoutInMaps
<1>4. y \in Index
  BY <1>2, <1>3 DEF forget_update_mapping, Index
<1>b. /\ DOMAIN Without(x.fwd, r) = DOMAIN x.fwd \ {r}
      /\ \A q \in DOMAIN Without(x.fwd, r) : Without(x.fwd, r)[q] = x.fwd[q]
  BY DEF Without
<1>5. \A q \in DOMAIN y.fwd : q \in DOMAIN x.fwd /\ y.fwd[q] = x.fwd[q]
  BY <1>1, <1>b
<1> HIDE DEF y
<1> QED
  BY <1>1, <1>4, <1>5 DEF IdsOf, y

LEMMA ObserveIndex ==
  ASSUME NEW x \in Index, NEW i \in Nat
  PROVE  /\ observe_update_id(x, i) \in Index
         /\ observe_update_id(x, i).next >= x.next
         /\ i < observe_update_id(x, i).next
         /\ IdsOf(observe_update_id(x, i)) = IdsOf(x)
<1> DEFINE y == observe_update_id(x, i)
           n == IF is_update_id(i) /\ i >= x.next THEN i + 1 ELSE x.next
<1>1. y.vecs = x.vecs /\ y.tomb = x.tomb /\ y.fwd = x.fwd /\ y.next = n
  BY DEF observe_update_id, Index
<1>2. n \in UpdateIds /\ n >= x.next /\ i < n
  <2>1. x.next \in Nat /\ x.next >= UpdateBase /\ UpdateBase \in Nat
    BY IndexFields, IdsAssumption DEF UpdateIds, is_update_id
  <2> QED
    BY <2>1 DEF UpdateIds, is_update_id
<1>3. y \in Index
  BY <1>2 DEF observe_update_id, Index
<1> QED
  BY <1>1, <1>2, <1>3 DEF IdsOf

\* A count is no part of what an index reflects.
LEMMA CountIndex ==
  ASSUME NEW x \in Index, NEW d \in Int
  PROVE  /\ [x EXCEPT !.count = d] \in Index
         /\ [x EXCEPT !.count = d].next = x.next
         /\ IdsOf([x EXCEPT !.count = d]) = IdsOf(x)
<1> DEFINE y == [x EXCEPT !.count = d]
<1>1. y.vecs = x.vecs /\ y.tomb = x.tomb /\ y.fwd = x.fwd /\ y.next = x.next
  BY DEF Index
<1>2. y \in Index
  BY DEF Index
<1> QED
  BY <1>1, <1>2 DEF IdsOf

LEMMA NextIndex ==
  ASSUME NEW x \in Index, NEW n \in UpdateIds
  PROVE  /\ [x EXCEPT !.next = n] \in Index
         /\ [x EXCEPT !.next = n].next = n
         /\ IdsOf([x EXCEPT !.next = n]) = IdsOf(x)
<1> DEFINE y == [x EXCEPT !.next = n]
<1>1. y.vecs = x.vecs /\ y.tomb = x.tomb /\ y.fwd = x.fwd /\ y.next = n
  BY DEF Index
<1>2. y \in Index
  BY DEF Index
<1> QED
  BY <1>1, <1>2 DEF IdsOf

\* What the replay of a record does to an index.
LEMMA UpsertReplayedIndex ==
  ASSUME NEW x \in Index, NEW rec \in UpsertRecord
  PROVE  /\ UpsertReplayed(x, rec) \in Index
         /\ UpsertReplayed(x, rec).next >= x.next
         /\ rec.new < UpsertReplayed(x, rec).next
         /\ IdsOf(UpsertReplayed(x, rec)) \subseteq IdsOf(x) \cup {rec.new}
<1>1. rec.new \in Nat /\ rec.real \in RealIds /\ rec.vec \in Vecs
  BY DEF UpsertRecord
<1> DEFINE seen   == observe_update_id(x, rec.new)
           mapped == IF is_update_id(rec.new) THEN record_update_mapping(seen, rec.real, rec.new)
                     ELSE seen
           stored == insertNode(mapped, rec.new, rec.vec)
<1>2. seen \in Index /\ seen.next >= x.next /\ rec.new < seen.next /\ IdsOf(seen) = IdsOf(x)
  BY <1>1, ObserveIndex
<1> HIDE DEF seen
<1>3. mapped \in Index /\ mapped.next = seen.next /\ IdsOf(mapped) \subseteq IdsOf(x) \cup {rec.new}
  <2>1. CASE is_update_id(rec.new)
    <3>1. rec.new \in UpdateIds
      BY <1>1, <2>1 DEF UpdateIds
    <3> QED
      BY <1>1, <1>2, <2>1, <3>1, RecordMappingIndex
  <2>2. CASE ~is_update_id(rec.new)
    BY <1>2, <2>2
  <2> QED
    BY <2>1, <2>2
<1> HIDE DEF mapped
<1>4. stored \in Index /\ stored.next = seen.next /\ IdsOf(stored) \subseteq IdsOf(x) \cup {rec.new}
  BY <1>1, <1>3, InsertNodeIndex
<1> HIDE DEF stored
<1>5. stored.count + 1 \in Int
  BY <1>4, IndexFields
<1>6. /\ [stored EXCEPT !.count = @ + 1] \in Index
      /\ [stored EXCEPT !.count = @ + 1].next = seen.next
      /\ IdsOf([stored EXCEPT !.count = @ + 1]) \subseteq IdsOf(x) \cup {rec.new}
  BY <1>4, <1>5, CountIndex
<1>7. UpsertReplayed(x, rec) \in {stored, [stored EXCEPT !.count = @ + 1]}
  BY DEF UpsertReplayed, stored, mapped, seen
<1> QED
  BY <1>2, <1>4, <1>6, <1>7

LEMMA DeleteReplayedIndex ==
  ASSUME NEW x \in Index, NEW rec \in DeleteRecord
  PROVE  /\ DeleteReplayed(x, rec) \in Index
         /\ DeleteReplayed(x, rec).next = x.next
         /\ IdsOf(DeleteReplayed(x, rec)) \subseteq IdsOf(x) \cup {rec.new}
<1>1. rec.new \in Nat /\ rec.real \in RealIds
  BY DEF DeleteRecord
<1> DEFINE dead == forget_update_mapping(tombstone(x, rec.new), rec.real)
<1>2. /\ tombstone(x, rec.new) \in Index /\ tombstone(x, rec.new).next = x.next
      /\ IdsOf(tombstone(x, rec.new)) \subseteq IdsOf(x) \cup {rec.new}
  BY <1>1, TombstoneIndex
<1>3. dead \in Index /\ dead.next = x.next /\ IdsOf(dead) \subseteq IdsOf(x) \cup {rec.new}
  BY <1>1, <1>2, ForgetMappingIndex
<1> HIDE DEF dead
<1>4. dead.count - 1 \in Int
  BY <1>3, IndexFields
<1>5. /\ [dead EXCEPT !.count = @ - 1] \in Index
      /\ [dead EXCEPT !.count = @ - 1].next = x.next
      /\ IdsOf([dead EXCEPT !.count = @ - 1]) \subseteq IdsOf(x) \cup {rec.new}
  BY <1>3, <1>4, CountIndex
<1>6. DeleteReplayed(x, rec) \in {dead, [dead EXCEPT !.count = @ - 1]}
  BY DEF DeleteReplayed, dead
<1> QED
  BY <1>3, <1>5, <1>6

LEMMA ReplayedIndex ==
  ASSUME NEW x \in Index, NEW rec \in UpsertRecord \cup DeleteRecord
  PROVE  /\ Replayed(x, rec) \in Index
         /\ Replayed(x, rec).next >= x.next
         /\ rec.op # "delete" => rec.new < Replayed(x, rec).next
         /\ \A i \in IdsOf(Replayed(x, rec)) :
              i \in IdsOf(x) \/ i = rec.new \/ i = rec.old
<1>0. x.next \in Nat
  BY IndexFields
<1>1. CASE rec \in UpsertRecord
  <2> DEFINE y == UpsertReplayed(x, rec)
  <2>1. /\ y \in Index /\ y.next >= x.next /\ rec.new < y.next
        /\ IdsOf(y) \subseteq IdsOf(x) \cup {rec.new}
    BY <1>1, UpsertReplayedIndex
  <2>2. rec.old \in Nat /\ rec.op \in {"insert", "update"}
    BY <1>1 DEF UpsertRecord
  <2> HIDE DEF y
  <2>3. /\ tombstone(y, rec.old) \in Index /\ tombstone(y, rec.old).next = y.next
        /\ IdsOf(tombstone(y, rec.old)) \subseteq IdsOf(y) \cup {rec.old}
    BY <2>1, <2>2, TombstoneIndex
  <2>4. Replayed(x, rec) = y \/ Replayed(x, rec) = tombstone(y, rec.old)
    BY <2>2 DEF Replayed, y
  <2> QED
    BY <2>1, <2>3, <2>4
<1>2. CASE rec \in DeleteRecord
  <2>1. rec.op = "delete"
    BY <1>2 DEF DeleteRecord
  <2>2. Replayed(x, rec) = DeleteReplayed(x, rec)
    BY <2>1 DEF Replayed
  <2> QED
    BY <1>0, <1>2, <2>1, <2>2, DeleteReplayedIndex
<1> QED
  BY <1>1, <1>2

-----------------------------------------------------------------------------
(* Whatever an index reflects of a log, it reflects of a longer one.       *)

Extends(m, l) == /\ Len(l) \in Nat /\ Len(m) \in Nat /\ Len(l) <= Len(m)
                 /\ \A j \in 1..Len(l) : m[j] = l[j]

LEMMA AppendExtends ==
  ASSUME NEW l \in Seq(Record), NEW rec \in Record
  PROVE  Extends(l, l) /\ Extends(Append(l, rec), l)
  BY DEF Extends

LEMMA LoggedGrows ==
  ASSUME NEW l, NEW m, Extends(m, l), NEW i, NEW n \in Nat, n <= Len(l),
         NEW k \in Nat, n <= k, Logged(l, i, n)
  PROVE  Logged(m, i, k)
<1>1. \A j \in 1..n : j \in 1..k /\ m[j] = l[j]
  BY DEF Extends
<1> QED
  BY <1>1 DEF Logged

LEMMA ReflectsGrows ==
  ASSUME NEW l, NEW m, Extends(m, l), NEW x, NEW n \in Nat, n <= Len(l), Reflects(l, x, n)
  PROVE  Reflects(m, x, n)
<1>1. \A i \in IdsOf(x) : Logged(m, i, n)
  BY LoggedGrows DEF Reflects
<1>2. \A j \in 1..n : m[j] = l[j]
  BY DEF Extends
<1> QED
  BY <1>1, <1>2 DEF Reflects

LEMMA RecordsLoggedGrows ==
  ASSUME NEW l \in Seq(Record), NEW rec \in Record, RecordsLogged(l),
         rec.op # "abort" => /\ Issues(rec) \/ Logged(l, rec.new, Len(l))
                             /\ Logged(l, rec.old, Len(l))
  PROVE  RecordsLogged(Append(l, rec))
<1> DEFINE m == Append(l, rec)
<1>1. /\ Len(l) \in Nat /\ Len(m) = Len(l) + 1 /\ m[Len(m)] = rec
      /\ \A j \in 1..Len(l) : m[j] = l[j]
  OBVIOUS
<1>0. Extends(m, l)
  BY AppendExtends
<1> HIDE DEF m
<1>2. ASSUME NEW k \in 1..Len(m), m[k].op # "abort"
      PROVE  Logged(m, m[k].new, k) /\ Logged(m, m[k].old, k)
  <2>1. CASE k \in 1..Len(l)
    <3>1. Logged(l, l[k].new, k) /\ Logged(l, l[k].old, k) /\ m[k] = l[k]
      BY <1>1, <1>2, <2>1 DEF RecordsLogged
    <3>2. k \in Nat /\ k <= Len(l)
      BY <2>1
    <3> QED
      BY <1>0, <3>1, <3>2, LoggedGrows
  <2>2. CASE k = Len(m)
    <3>1. k \in Nat /\ Len(l) <= k /\ k \in 1..k
      BY <1>1, <2>2
    <3>2. m[k] = rec
      BY <1>1, <2>2
    <3>3. Logged(m, rec.old, k)
      BY <1>0, <1>1, <1>2, <3>1, <3>2, LoggedGrows
    <3>4. CASE Issues(rec)
      BY <3>1, <3>2, <3>3, <3>4 DEF Logged
    <3>5. CASE Logged(l, rec.new, Len(l))
      BY <1>0, <1>1, <3>1, <3>2, <3>3, <3>5, LoggedGrows
    <3> QED
      BY <1>2, <3>2, <3>4, <3>5
  <2> QED
    BY <1>1, <2>1, <2>2
<1> QED
  BY <1>2 DEF RecordsLogged, m

-----------------------------------------------------------------------------
(* The steps of a call.  All of them run in an open store and leave its    *)
(* checkpoint files alone.                                                 *)

\* The part of the store a call never touches.
InCall == /\ phase = "open"
          /\ UNCHANGED <<enable_oplog, phase, main, prev, at>>

LEMMA CallStep ==
  ASSUME IInv, InCall, NEW w \in Writers, NEW c \in Call, NEW rec \in Record,
         log' \in {log, Append(log, rec)},
         local' = [local EXCEPT ![w] = c],
         ix' \in Index, rows' \in PartialMaps(Nat, Payloads),
         dirty' \in BOOLEAN, blurred' \subseteq RealIds,
         enable_oplog =>
           /\ RecordsLogged(log')
           /\ Reflects(log', ix', Len(log'))
           /\ ix'.next >= ix.next
           /\ \A i \in DOMAIN rows' : i \in DOMAIN rows \/ Logged(log', i, Len(log'))
           /\ CallLogged(log', ix', c)
  PROVE  IInv'
<1>1. /\ log \in Seq(Record) /\ log' \in Seq(Record)
      /\ Len(log) \in Nat /\ Len(log') \in Nat /\ Len(log) <= Len(log')
  BY DEF IInv, Types
<1>0. Extends(log', log)
  BY AppendExtends DEF IInv, Types
<1>2. Types'
  BY <1>1 DEF IInv, Types, InCall
<1>3. Loadable' = Loadable /\ \A f \in Loadable : f.lsn \in Nat
  BY DEF IInv, Types, InCall, Loadable, CheckpointFile
<1>4. Control'
  <2>1. \A f \in Loadable' : f.lsn <= Len(log')
    BY <1>1, <1>3 DEF IInv, Control
  <2> QED
    BY <2>1 DEF IInv, Control, InCall
<1>5. ASSUME enable_oplog'
      PROVE  /\ RecordsLogged(log)' /\ Reflects(log, ix, Horizon)'
             /\ (\A f \in Loadable : Reflects(log, f.ix, f.lsn))'
             /\ (\A i \in DOMAIN rows : Logged(log, i, Len(log)))'
             /\ (\A v \in Writers : CallLogged(log, ix, local[v]))'
  <2>1. enable_oplog
    BY <1>5 DEF InCall
  <2>3. Horizon' = Len(log')
    BY DEF Horizon, InCall
  <2>4. ASSUME NEW f \in Loadable'
        PROVE  Reflects(log', f.ix, f.lsn)
    <3>1. f.lsn \in Nat /\ f.lsn <= Len(log) /\ Reflects(log, f.ix, f.lsn)
      BY <1>1, <1>3, <2>1, <2>4 DEF IInv, Control, Origins
    <3> QED
      BY <1>0, <3>1, ReflectsGrows
  <2>5. ASSUME NEW i, Logged(log, i, Len(log))
        PROVE  Logged(log', i, Len(log'))
    BY <1>0, <1>1, <2>5, LoggedGrows
  <2>6. ASSUME NEW i \in DOMAIN rows'
        PROVE  Logged(log', i, Len(log'))
    BY <2>1, <2>5, <2>6 DEF IInv, Origins
  <2>7. ASSUME NEW v \in Writers
        PROVE  CallLogged(log', ix', local'[v])
    <3>1. CASE v = w
      <4>1. local'[v] = c
        BY <3>1 DEF IInv, Types
      <4> QED
        BY <2>1, <4>1
    <3>2. CASE v # w
      <4>1. local'[v] = local[v] /\ local[v] \in Call
        BY <3>2 DEF IInv, Types
      <4>2. CallLogged(log, ix, local[v])
        BY <2>1 DEF IInv, Origins
      <4> DEFINE d == local[v]
      <4>3. d.new \in Nat \/ d = Idle
        BY <4>1 DEF Call, InsertCall, VersionCall, DeleteCall, PayloadCall, UpdateIds
      <4>4. ix.next \in Nat /\ ix'.next \in Nat /\ ix'.next >= ix.next
        BY <2>1, IndexFields DEF IInv, Types
      <4> QED
        BY <2>5, <4>1, <4>2, <4>3, <4>4 DEF CallLogged
    <3> QED
      BY <3>1, <3>2
  <2> QED
    BY <2>1, <2>3, <2>4, <2>6, <2>7
<1>6. Origins'
  BY <1>5 DEF Origins
<1> QED
  BY <1>2, <1>4, <1>6 DEF IInv

\* What is known of a call in progress.
LEMMA CallFacts ==
  ASSUME IInv, NEW w \in Writers, local[w].pc # "idle"
  PROVE  /\ phase = "open"
         /\ local[w] \in InsertCall \cup VersionCall \cup DeleteCall \cup PayloadCall
         /\ enable_oplog => /\ Reflects(log, ix, Len(log))
                            /\ CallLogged(log, ix, local[w])
<1>1. local[w] \in Call /\ local[w] # Idle
  BY DEF IInv, Types, Idle
<1>2. phase = "open"
  BY <1>1 DEF IInv, Control
<1>3. Horizon = Len(log)
  BY <1>2 DEF Horizon
<1> QED
  BY <1>1, <1>2, <1>3 DEF IInv, Origins, Call

\* A step of a call that writes no record.
LEMMA QuietStep ==
  ASSUME IInv, InCall, UNCHANGED log, NEW w \in Writers, NEW c \in Call,
         local' = [local EXCEPT ![w] = c],
         ix' \in Index, rows' \in PartialMaps(Nat, Payloads),
         dirty' \in BOOLEAN, blurred' \subseteq RealIds,
         enable_oplog =>
           /\ \A i \in IdsOf(ix') : i \in IdsOf(ix) \/ Logged(log, i, Len(log))
           /\ ix'.next >= ix.next
           /\ \A i \in DOMAIN rows' : i \in DOMAIN rows \/ Logged(log, i, Len(log))
           /\ CallLogged(log, ix', c)
  PROVE  IInv'
<1>1. [op |-> "abort", aux |-> 0] \in Record
  BY DEF Record, AbortRecord
<1>2. log' \in {log, Append(log, [op |-> "abort", aux |-> 0])}
  OBVIOUS
<1>3. ASSUME enable_oplog
      PROVE  /\ RecordsLogged(log')
             /\ Reflects(log', ix', Len(log'))
  <2>1. RecordsLogged(log) /\ Reflects(log, ix, Len(log))
    BY <1>3 DEF IInv, Origins, Horizon, InCall
  <2>2. ix.next \in Nat /\ ix'.next \in Nat /\ ix'.next >= ix.next
    BY <1>3, IndexFields DEF IInv, Types
  <2>3. \A k \in 1..Len(log) : Issues(log[k]) => log[k].new \in Nat
    BY DEF IInv, Types, Record, UpsertRecord, DeleteRecord, AbortRecord, Issues
  <2> QED
    BY <1>3, <2>1, <2>2, <2>3 DEF Reflects
<1> QED
  BY <1>1, <1>2, <1>3, CallStep

\* A step that leaves the index and the rows alone.
LEMMA LocalStep ==
  ASSUME IInv, InCall, UNCHANGED <<ix, rows, log>>, NEW w \in Writers, NEW c \in Call,
         local' = [local EXCEPT ![w] = c],
         dirty' \in BOOLEAN, blurred' \subseteq RealIds,
         enable_oplog => CallLogged(log, ix, c)
  PROVE  IInv'
<1>1. ix \in Index /\ rows \in PartialMaps(Nat, Payloads) /\ ix.next >= ix.next
  BY IndexFields DEF IInv, Types
<1> QED
  BY <1>1, QuietStep

\* The ids the index knows of a real id.
LEMMA ResolvedLogged ==
  ASSUME IInv, phase = "open", enable_oplog, NEW r \in RealIds
  PROVE  Logged(log, resolve_internal(ix, r), Len(log))
<1>1. Reflects(log, ix, Len(log)) /\ ix \in Index
  BY DEF IInv, Origins, Horizon, Types
<1> QED
  BY <1>1, ResolveInternal DEF Reflects, Logged

LEMMA BeginUpsertKeeps ==
  ASSUME IInv, NEW w \in Writers, NEW r \in RealIds, NEW v \in Vecs,
         NEW p \in Payloads \cup {Absent}, NEW kind \in {"insert", "reinsert", "update"},
         BeginUpsert(w, r, v, p, kind)
  PROVE  IInv'
<1> DEFINE c == [pc |-> "log", kind |-> kind, real |-> r, vec |-> v, arg |-> p, lsn |-> 0,
                 new |-> Target(kind, r), old |-> resolve_internal(ix, r), read |-> {}]
<1>1. /\ phase = "open" /\ InCall /\ log' = log /\ rows' = rows
      /\ local' = [local EXCEPT ![w] = c] /\ dirty' \in BOOLEAN /\ blurred' \subseteq RealIds
  BY DEF BeginUpsert, CanBegin, Begun, InCall, durable, IInv, Types
<1>2. ix \in Index /\ rows \in PartialMaps(Nat, Payloads)
  BY DEF IInv, Types
<1>3. ix.next \in UpdateIds /\ ix.next \in Nat /\ ix.next + 1 \in UpdateIds
  <2>1. ix.next \in UpdateIds /\ ix.next \in Nat
    BY <1>2, IndexFields
  <2> QED
    BY <2>1, IdsAssumption DEF UpdateIds, is_update_id
<1>5. /\ ix' \in Index /\ IdsOf(ix') = IdsOf(ix) /\ ix'.next \in Nat /\ ix'.next >= ix.next
      /\ kind # "insert" => ix'.next > ix.next
  <2>1. /\ [ix EXCEPT !.next = ix.next + 1] \in Index
        /\ IdsOf([ix EXCEPT !.next = ix.next + 1]) = IdsOf(ix)
        /\ [ix EXCEPT !.next = ix.next + 1].next = ix.next + 1
    BY <1>2, <1>3, NextIndex
  <2>2. CASE kind = "insert"
    <3>1. ix' = ix
      BY <2>2 DEF BeginUpsert
    <3> QED
      BY <1>2, <1>3, <2>2, <3>1
  <2>3. CASE kind # "insert"
    <3>1. ix' = [ix EXCEPT !.next = ix.next + 1]
      BY <2>3 DEF BeginUpsert
    <3> QED
      BY <1>3, <2>1, <3>1
  <2> QED
    BY <2>2, <2>3
<1>6. resolve_internal(ix, r) \in Nat /\ r \in Nat /\ r < UpdateBase /\ {} \in Payloads
  BY <1>2, ResolveInternal, IdsAssumption DEF Payloads
<1>7. c \in Call
  BY <1>3, <1>6 DEF Call, InsertCall, VersionCall, Target
<1>8. c # Idle /\ c.pc = "log" /\ c.kind # "delete" /\ c.new < ix'.next
  BY <1>3, <1>5, <1>6, IdsAssumption DEF Idle, Target, UpdateIds, is_update_id
<1>9. enable_oplog => CallLogged(log, ix', c)
  BY <1>1, <1>8, ResolvedLogged DEF CallLogged
<1> HIDE DEF c
<1> QED
  BY <1>1, <1>2, <1>5, <1>7, <1>9, QuietStep

LEMMA BeginDeleteKeeps ==
  ASSUME IInv, NEW w \in Writers, NEW r \in RealIds, BeginDelete(w, r)
  PROVE  IInv'
<1> DEFINE i == resolve_internal(ix, r)
           c == [pc |-> "log", kind |-> "delete", real |-> r, vec |-> Gone, arg |-> Absent,
                 lsn |-> 0, new |-> i, old |-> i, read |-> {}, alive |-> is_alive(ix, r)]
<1>1. /\ phase = "open" /\ InCall /\ UNCHANGED <<ix, rows, log>>
      /\ local' = [local EXCEPT ![w] = c] /\ dirty' \in BOOLEAN /\ blurred' \subseteq RealIds
  BY DEF BeginDelete, CanBegin, Begun, InCall, durable, IInv, Types
<1>2. i \in Nat /\ {} \in Payloads /\ is_alive(ix, r) \in BOOLEAN
  BY ResolveInternal DEF IInv, Types, Payloads, is_alive
<1> HIDE DEF i
<1>3. c \in Call
  BY <1>2 DEF Call, DeleteCall
<1>4. enable_oplog => Logged(log, i, Len(log))
  BY <1>1, ResolvedLogged DEF i
<1>5. enable_oplog => CallLogged(log, ix, c)
  BY <1>4 DEF CallLogged
<1> QED
  BY <1>1, <1>3, <1>5, LocalStep

LEMMA BeginPayloadKeeps ==
  ASSUME IInv, NEW w \in Writers, NEW r \in RealIds, NEW kind \in PayloadKinds,
         NEW p \in Payloads, BeginPayload(w, r, kind, p)
  PROVE  IInv'
<1> DEFINE i == resolve_internal(ix, r)
           c == [pc |-> IF kind = "set" THEN "put" ELSE "read", kind |-> kind, real |-> r,
                 arg |-> p, lsn |-> 0, new |-> i, read |-> {}]
<1>1. /\ phase = "open" /\ InCall /\ UNCHANGED <<ix, rows, log>>
      /\ local' = [local EXCEPT ![w] = c] /\ dirty' \in BOOLEAN /\ blurred' \subseteq RealIds
  BY DEF BeginPayload, CanBegin, Begun, InCall, durable, IInv, Types
<1>2. i \in Nat /\ {} \in Payloads
  BY ResolveInternal DEF IInv, Types, Payloads
<1> HIDE DEF i
<1>3. c \in Call
  BY <1>2 DEF Call, PayloadCall
<1>4. enable_oplog => Logged(log, i, Len(log))
  BY <1>1, ResolvedLogged DEF i
<1>5. enable_oplog => CallLogged(log, ix, c)
  BY <1>4 DEF CallLogged, PayloadKinds, VectorKinds
<1> QED
  BY <1>1, <1>3, <1>5, LocalStep

LEMMA DeleteNothingKeeps ==
  ASSUME IInv, NEW w \in Writers, NEW r \in RealIds, DeleteNothing(w, r)
  PROVE  IInv'
<1>1. /\ phase = "open" /\ InCall /\ UNCHANGED <<ix, rows, log, local, blurred>>
      /\ dirty' \in BOOLEAN /\ ~Busy(w)
  BY DEF DeleteNothing, CanBegin, InCall, durable
<1>2. local \in [Writers -> Call] /\ blurred \subseteq RealIds
  BY DEF IInv, Types
<1>3. local' = [local EXCEPT ![w] = local[w]] /\ local[w] \in Call
  BY <1>1, <1>2
<1>4. enable_oplog => CallLogged(log, ix, local[w])
  BY DEF IInv, Origins
<1> QED
  BY <1>1, <1>2, <1>3, <1>4, LocalStep

LEMMA LogOpKeeps ==
  ASSUME IInv, NEW w \in Writers, LogOp(w)
  PROVE  IInv'
<1> DEFINE c == local[w]
           rec == [op |-> IF c.kind = "reinsert" THEN "insert" ELSE c.kind,
                   real |-> c.real, new |-> c.new, old |-> c.old, vec |-> c.vec, arg |-> c.arg]
           d == [c EXCEPT !.lsn = Len(log'),
                          !.pc = CASE c.kind = "reinsert" -> "map"
                                   [] c.kind = "delete" -> "tomb"
                                   [] OTHER -> "node"]
<1>1. c.pc = "log" /\ phase = "open" /\ InCall /\ UNCHANGED <<ix, rows, dirty, blurred>>
  <2>1. c.pc = "log"
    BY DEF LogOp
  <2>2. phase = "open"
    BY <2>1, CallFacts
  <2> QED
    BY <2>1, <2>2 DEF LogOp, InCall, ghosts
<1>2. c \in InsertCall \cup VersionCall \cup DeleteCall /\ c # Idle
  <2>1. c \in InsertCall \cup VersionCall \cup DeleteCall \cup PayloadCall
    BY <1>1, CallFacts
  <2> QED
    BY <1>1, <2>1 DEF PayloadCall, Idle
<1>3. /\ ix \in Index /\ rows \in PartialMaps(Nat, Payloads) /\ dirty \in BOOLEAN
      /\ blurred \subseteq RealIds /\ log \in Seq(Record) /\ Len(log) \in Nat
  BY DEF IInv, Types
<1>4. rec \in Record
  BY <1>2 DEF InsertCall, VersionCall, DeleteCall, Record, UpsertRecord, DeleteRecord, UpdateIds
<1>5. log' = IF enable_oplog THEN Append(log, rec) ELSE log
  BY DEF LogOp
<1>6. Len(log') \in Nat
  BY <1>3, <1>4, <1>5
<1>7. d \in Call
  BY <1>2, <1>6 DEF Call, InsertCall, VersionCall, DeleteCall
<1>8. local' = [local EXCEPT ![w] = d]
  BY <1>2 DEF LogOp, IInv, Types, Call, InsertCall, VersionCall, DeleteCall
<1>9. ASSUME enable_oplog
      PROVE  /\ RecordsLogged(log')
             /\ Reflects(log', ix', Len(log'))
             /\ CallLogged(log', ix', d)
  <2>1. RecordsLogged(log) /\ Reflects(log, ix, Len(log)) /\ CallLogged(log, ix, c)
    BY <1>1, <1>9, CallFacts DEF IInv, Origins
  <2>2. /\ Extends(log', log) /\ log' = Append(log, rec) /\ Len(log') = Len(log) + 1
        /\ log'[Len(log')] = rec /\ \A k \in 1..Len(log) : log'[k] = log[k]
    BY <1>3, <1>4, <1>5, <1>9, AppendExtends
  <2>3. Logged(log, c.old, Len(log))
    BY <1>2, <2>1 DEF CallLogged, VectorKinds, InsertCall, VersionCall, DeleteCall
  <2>4. rec.old = c.old /\ rec.new = c.new
    OBVIOUS
  <2>5. \/ Issues(rec) /\ c.new < ix.next /\ c.kind # "delete"
        \/ ~Issues(rec) /\ Logged(log, c.new, Len(log)) /\ c.kind = "delete"
    BY <1>1, <1>2, <2>1 DEF CallLogged, Issues, InsertCall, VersionCall, DeleteCall
  <2> HIDE DEF rec, d
  <2>6. RecordsLogged(log')
    BY <1>3, <1>4, <2>1, <2>2, <2>3, <2>4, <2>5, RecordsLoggedGrows
  <2>7. Reflects(log', ix, Len(log'))
    <3>1. \A i \in IdsOf(ix) : Logged(log', i, Len(log'))
      BY <1>3, <1>6, <2>1, <2>2, LoggedGrows DEF Reflects
    <3> QED
      BY <1>3, <1>6, <2>1, <2>2, <2>4, <2>5, <3>1 DEF Reflects
  <2>8. Logged(log', c.new, Len(log')) /\ Logged(log', c.old, Len(log'))
    <3>1. Logged(log', c.old, Len(log'))
      BY <1>3, <1>6, <2>2, <2>3, LoggedGrows
    <3>2. CASE Issues(rec)
      <4>1. Len(log') \in 1..Len(log')
        BY <1>3, <2>2
      <4> QED
        BY <2>2, <2>4, <3>1, <3>2, <4>1 DEF Logged
    <3>3. CASE Logged(log, c.new, Len(log))
      BY <1>3, <1>6, <2>2, <3>1, <3>3, LoggedGrows
    <3> QED
      BY <2>5, <3>2, <3>3
  <2>9. d.new = c.new /\ d.old = c.old /\ d.pc # "log"
    BY <1>2 DEF d, InsertCall, VersionCall, DeleteCall
  <2> QED
    BY <1>1, <2>6, <2>7, <2>8, <2>9 DEF CallLogged
<1>10. ix'.next >= ix.next
  BY <1>1, <1>3, IndexFields
<1> HIDE DEF rec, d
<1> QED
  BY <1>1, <1>3, <1>4, <1>5, <1>7, <1>8, <1>9, <1>10, CallStep

LEMMA ReturnKeeps ==
  ASSUME IInv, NEW w \in Writers, local[w].pc # "idle",
         local' = [local EXCEPT ![w] = Idle],
         UNCHANGED <<enable_oplog, phase, ix, rows, log, main, prev, dirty, at, blurred>>
  PROVE  IInv'
<1>1. InCall
  BY CallFacts DEF InCall
<1>2. Idle \in Call /\ dirty' \in BOOLEAN /\ blurred' \subseteq RealIds
  BY DEF Call, IInv, Types
<1>3. CallLogged(log, ix, Idle)
  BY DEF CallLogged
<1> QED
  BY <1>1, <1>2, <1>3, LocalStep

LEMMA LogAbortKeeps ==
  ASSUME IInv, NEW w \in Writers, LogAbort(w)
  PROVE  IInv'
<1>1. /\ local[w].pc = "abort" /\ local' = [local EXCEPT ![w] = Idle]
      /\ UNCHANGED <<enable_oplog, phase, ix, rows, main, prev, dirty, at, blurred>>
  BY DEF LogAbort, Failed
<1> DEFINE rec == [op |-> "abort", aux |-> local[w].lsn]
<1>2. log' \in {log, Append(log, rec)}
  BY DEF LogAbort
<1>3. local[w].lsn \in Nat
  <2>1. local[w] \in InsertCall \cup VersionCall \cup DeleteCall \cup PayloadCall
    BY <1>1, CallFacts
  <2> QED
    BY <2>1 DEF InsertCall, VersionCall, DeleteCall, PayloadCall
<1>4. rec \in Record /\ rec.op = "abort"
  BY <1>3 DEF Record, AbortRecord
<1>5. InCall
  BY <1>1, CallFacts DEF InCall
<1>6. /\ ix \in Index /\ rows \in PartialMaps(Nat, Payloads) /\ dirty \in BOOLEAN
      /\ blurred \subseteq RealIds /\ log \in Seq(Record) /\ Len(log) \in Nat
      /\ Idle \in Call
  BY DEF IInv, Types, Call
<1> HIDE DEF rec
<1>7. ASSUME enable_oplog
      PROVE  /\ RecordsLogged(log')
             /\ Reflects(log', ix', Len(log'))
  <2>1. RecordsLogged(log) /\ Reflects(log, ix, Len(log))
    BY <1>1, <1>7, CallFacts DEF IInv, Origins
  <2>2. CASE log' = Append(log, rec)
    <3>1. /\ Extends(log', log) /\ Len(log') = Len(log) + 1 /\ Len(log') \in Nat
          /\ log'[Len(log')] = rec /\ \A k \in 1..Len(log) : log'[k] = log[k]
      BY <1>4, <1>6, <2>2, AppendExtends
    <3>2. RecordsLogged(log')
      BY <1>4, <1>6, <2>1, <2>2, RecordsLoggedGrows
    <3>3. \A i \in IdsOf(ix) : Logged(log', i, Len(log'))
      BY <1>6, <2>1, <3>1, LoggedGrows DEF Reflects
    <3>4. ~Issues(rec)
      BY <1>4 DEF Issues
    <3>5. \A k \in 1..Len(log') : Issues(log'[k]) => log'[k].new < ix.next
      BY <1>6, <2>1, <3>1, <3>4 DEF Reflects
    <3> QED
      BY <1>1, <3>2, <3>3, <3>5 DEF Reflects
  <2>3. CASE log' = log
    BY <1>1, <2>1, <2>3
  <2> QED
    BY <1>2, <2>2, <2>3
<1>8. ix'.next >= ix.next /\ CallLogged(log', ix', Idle)
  BY <1>1, <1>6, IndexFields DEF CallLogged
<1> QED
  BY <1>1, <1>2, <1>4, <1>5, <1>6, <1>7, <1>8, CallStep

\* A step of a logged call, which may bring the ids of the call anywhere.
LEMMA WorkStep ==
  ASSUME IInv, NEW w \in Writers, local[w].pc \notin {"idle", "log"},
         UNCHANGED <<enable_oplog, phase, log, main, prev, dirty, at, blurred>>,
         NEW d \in Call, local' = [local EXCEPT ![w] = d],
         \/ d = Idle
         \/ /\ d.new = local[w].new /\ d.kind = local[w].kind /\ d.pc # "log"
            /\ d.kind \in VectorKinds => d.old = local[w].old,
         ix' \in Index, ix'.next = ix.next,
         \A i \in IdsOf(ix') : \/ i \in IdsOf(ix) \/ i = local[w].new
                               \/ local[w].kind \in VectorKinds /\ i = local[w].old,
         rows' \in PartialMaps(Nat, Payloads),
         DOMAIN rows' \subseteq DOMAIN rows \cup {local[w].new}
  PROVE  IInv'
<1>1. InCall /\ dirty' \in BOOLEAN /\ blurred' \subseteq RealIds /\ ix.next \in Nat
  BY CallFacts, IndexFields DEF InCall, IInv, Types
<1>2. ASSUME enable_oplog
      PROVE  /\ Logged(log, local[w].new, Len(log))
             /\ local[w].kind \in VectorKinds => Logged(log, local[w].old, Len(log))
  BY <1>2, CallFacts DEF CallLogged, Idle
<1>3. enable_oplog => CallLogged(log, ix', d)
  BY <1>2 DEF CallLogged
<1>4. /\ enable_oplog => \A i \in IdsOf(ix') : i \in IdsOf(ix) \/ Logged(log, i, Len(log))
      /\ enable_oplog => \A i \in DOMAIN rows' : i \in DOMAIN rows \/ Logged(log, i, Len(log))
  BY <1>2
<1>5. ix'.next >= ix.next
  BY <1>1
<1> QED
  BY <1>1, <1>3, <1>4, <1>5, QuietStep

\* Its call moves on to pc.
LEMMA GotoStep ==
  ASSUME IInv, NEW w \in Writers, local[w].pc \notin {"idle", "log"},
         NEW pc, Goto(w, pc), pc # "log", [local[w] EXCEPT !.pc = pc] \in Call,
         UNCHANGED <<enable_oplog, phase, log, main, prev, dirty, at, blurred>>,
         ix' \in Index, ix'.next = ix.next,
         \A i \in IdsOf(ix') : \/ i \in IdsOf(ix) \/ i = local[w].new
                               \/ local[w].kind \in VectorKinds /\ i = local[w].old,
         rows' \in PartialMaps(Nat, Payloads), DOMAIN rows' \subseteq DOMAIN rows
  PROVE  IInv'
<1> DEFINE d == [local[w] EXCEPT !.pc = pc]
<1>1. local[w] \in InsertCall \cup VersionCall \cup DeleteCall \cup PayloadCall
  BY CallFacts
<1>2. /\ d.new = local[w].new /\ d.kind = local[w].kind /\ d.pc = pc
      /\ d.kind \in VectorKinds => d.old = local[w].old
  BY <1>1 DEF InsertCall, VersionCall, DeleteCall, PayloadCall, VectorKinds, PayloadKinds
<1>3. local' = [local EXCEPT ![w] = d]
  BY DEF Goto, IInv, Types
<1> HIDE DEF d
<1> QED
  BY <1>2, <1>3, WorkStep DEF d

LEMMA InsertNodeKeeps ==
  ASSUME IInv, NEW w \in Writers, InsertNode(w) \/ InsertNodeFails(w)
  PROVE  IInv'
<1> DEFINE c == local[w]
           x == insertNode(ix, c.new, c.vec)
<1>1. /\ c.pc = "node"
      /\ UNCHANGED <<enable_oplog, phase, log, main, prev, dirty, at, blurred>>
      /\ UNCHANGED rows
  BY DEF InsertNode, InsertNodeFails, durable, ghosts
<1>2. c \in InsertCall \cup VersionCall
  BY <1>1, CallFacts DEF DeleteCall, PayloadCall
<1>3. c.new \in Nat /\ c.vec \in Vecs
  BY <1>2 DEF InsertCall, VersionCall, UpdateIds
<1>4. ix \in Index /\ rows \in PartialMaps(Nat, Payloads)
  BY DEF IInv, Types
<1>5. /\ x \in Index /\ x.next = ix.next /\ IdsOf(x) \subseteq IdsOf(ix) \cup {c.new}
  BY <1>3, <1>4, InsertNodeIndex
<1>a. x.count + 1 \in Int
  BY <1>5, IndexFields
<1>6. /\ [x EXCEPT !.count = x.count + 1] \in Index
      /\ [x EXCEPT !.count = x.count + 1].next = ix.next
      /\ IdsOf([x EXCEPT !.count = x.count + 1]) = IdsOf(x)
  BY <1>5, <1>a, CountIndex
<1>7. ix' \in {ix, x, [x EXCEPT !.count = x.count + 1]}
  BY DEF InsertNode, InsertNodeFails
<1>8. PICK pc \in {"map", "row", "abort"} : Goto(w, pc) /\ (pc = "map" => c.kind = "update")
  BY DEF InsertNode, InsertNodeFails
<1>9. [c EXCEPT !.pc = pc] \in Call
  BY <1>2, <1>8 DEF Call, InsertCall, VersionCall
<1> HIDE DEF x
<1> QED
  BY <1>1, <1>4, <1>5, <1>6, <1>7, <1>8, <1>9, GotoStep

LEMMA RecordMappingKeeps ==
  ASSUME IInv, NEW w \in Writers, RecordMapping(w)
  PROVE  IInv'
<1> DEFINE c == local[w]
<1>1. /\ c.pc = "map"
      /\ UNCHANGED <<enable_oplog, phase, log, main, prev, dirty, at, blurred>>
      /\ UNCHANGED rows
      /\ ix' = record_update_mapping(ix, c.real, c.new)
  BY DEF RecordMapping, durable, ghosts
<1>2. c \in VersionCall
  BY <1>1, CallFacts DEF InsertCall, DeleteCall, PayloadCall
<1>3. c.new \in UpdateIds /\ c.real \in RealIds
  BY <1>2 DEF VersionCall
<1>4. ix \in Index /\ rows \in PartialMaps(Nat, Payloads)
  BY DEF IInv, Types
<1>5. ix' \in Index /\ ix'.next = ix.next /\ IdsOf(ix') \subseteq IdsOf(ix) \cup {c.new}
  BY <1>1, <1>3, <1>4, RecordMappingIndex
<1>6. PICK pc \in {"tomb", "node"} : Goto(w, pc)
  BY DEF RecordMapping
<1>7. [c EXCEPT !.pc = pc] \in Call
  BY <1>2, <1>6 DEF Call, VersionCall
<1> QED
  BY <1>1, <1>4, <1>5, <1>6, <1>7, GotoStep

LEMMA TombstoneKeeps ==
  ASSUME IInv, NEW w \in Writers, Tombstone(w)
  PROVE  IInv'
<1> DEFINE c == local[w]
<1>1. /\ c.pc = "tomb"
      /\ UNCHANGED <<enable_oplog, phase, log, main, prev, dirty, at, blurred>>
      /\ UNCHANGED rows
      /\ ix' = tombstone(ix, c.old)
  BY DEF Tombstone, durable, ghosts
<1>2. c \in VersionCall \cup DeleteCall
  BY <1>1, CallFacts DEF InsertCall, PayloadCall
<1>3. c.old \in Nat /\ c.kind \in VectorKinds
  BY <1>2 DEF VersionCall, DeleteCall, VectorKinds
<1>4. ix \in Index /\ rows \in PartialMaps(Nat, Payloads)
  BY DEF IInv, Types
<1>5. ix' \in Index /\ ix'.next = ix.next /\ IdsOf(ix') \subseteq IdsOf(ix) \cup {c.old}
  BY <1>1, <1>3, <1>4, TombstoneIndex
<1>6. PICK pc \in {"read", "drop", "row"} : Goto(w, pc) /\ (c.kind = "delete" => pc = "drop")
  BY DEF Tombstone
<1>7. [c EXCEPT !.pc = pc] \in Call
  BY <1>2, <1>6 DEF Call, VersionCall, DeleteCall
<1> QED
  BY <1>1, <1>3, <1>4, <1>5, <1>6, <1>7, GotoStep

LEMMA ForgetMappingKeeps ==
  ASSUME IInv, NEW w \in Writers, ForgetMapping(w)
  PROVE  IInv'
<1> DEFINE c == local[w]
           x == forget_update_mapping(ix, c.real)
<1>1. /\ c.pc = "forget"
      /\ UNCHANGED <<enable_oplog, phase, log, main, prev, dirty, at, blurred>>
      /\ UNCHANGED rows
      /\ local' = [local EXCEPT ![w] = Idle]
      /\ ix' \in {x, [x EXCEPT !.count = x.count - 1]}
  BY DEF ForgetMapping, durable, Acked
<1>2. c \in DeleteCall
  BY <1>1, CallFacts DEF InsertCall, VersionCall, PayloadCall
<1>3. c.real \in RealIds
  BY <1>2 DEF DeleteCall
<1>4. ix \in Index /\ rows \in PartialMaps(Nat, Payloads) /\ Idle \in Call
  BY DEF IInv, Types, Call
<1>5. /\ x \in Index /\ x.next = ix.next /\ IdsOf(x) \subseteq IdsOf(ix)
  BY <1>3, <1>4, ForgetMappingIndex
<1>a. x.count - 1 \in Int
  BY <1>5, IndexFields
<1>6. /\ [x EXCEPT !.count = x.count - 1] \in Index
      /\ [x EXCEPT !.count = x.count - 1].next = ix.next
      /\ IdsOf([x EXCEPT !.count = x.count - 1]) = IdsOf(x)
  BY <1>5, <1>a, CountIndex
<1> HIDE DEF x
<1>7. ix' \in Index /\ ix'.next = ix.next /\ IdsOf(ix') \subseteq IdsOf(ix)
  BY <1>1, <1>5, <1>6
<1> QED
  BY <1>1, <1>4, <1>7, WorkStep

LEMMA WriteRowKeeps ==
  ASSUME IInv, NEW w \in Writers, WriteRow(w)
  PROVE  IInv'
<1> DEFINE c == local[w]
<1>1. /\ c.pc = "row"
      /\ UNCHANGED <<enable_oplog, phase, log, main, prev, dirty, at, blurred>>
      /\ UNCHANGED ix
  BY DEF WriteRow, durable, Acked, ghosts
<1>2. c \in InsertCall \cup VersionCall
  BY <1>1, CallFacts DEF DeleteCall, PayloadCall
<1>3. c.new \in Nat /\ c.read \in Payloads /\ c.arg \in Payloads \cup {Absent}
  BY <1>2 DEF InsertCall, VersionCall, UpdateIds
<1>4. ix \in Index /\ rows \in PartialMaps(Nat, Payloads) /\ Idle \in Call
  BY DEF IInv, Types, Call
<1>5. \A p \in Payloads : /\ Set(rows, c.new, p) \in PartialMaps(Nat, Payloads)
                          /\ DOMAIN Set(rows, c.new, p) = DOMAIN rows \cup {c.new}
  <2> SUFFICES ASSUME NEW p \in Payloads
               PROVE  /\ Set(rows, c.new, p) \in PartialMaps(Nat, Payloads)
                      /\ DOMAIN Set(rows, c.new, p) = DOMAIN rows \cup {c.new}
    OBVIOUS
  <2>1. Set(rows, c.new, p) \in PartialMaps(Nat, Payloads)
    BY <1>3, <1>4, SetInMaps
  <2> QED
    BY <2>1 DEF Set
<1>6. rows' = rows \/ \E p \in Payloads : rows' = Set(rows, c.new, p)
  BY <1>3 DEF WriteRow
<1>7. rows' \in PartialMaps(Nat, Payloads) /\ DOMAIN rows' \subseteq DOMAIN rows \cup {c.new}
  BY <1>4, <1>5, <1>6
<1>8. CASE c.kind = "update"
  <2> DEFINE d == [c EXCEPT !.pc = "drop"]
  <2>1. local' = [local EXCEPT ![w] = d]
    BY <1>8 DEF WriteRow, Goto, IInv, Types
  <2>2. /\ d \in Call /\ d.new = c.new /\ d.old = c.old /\ d.kind = c.kind /\ d.pc = "drop"
    BY <1>2, <1>8 DEF Call, InsertCall, VersionCall
  <2> HIDE DEF d
  <2> QED
    BY <1>1, <1>4, <1>7, <2>1, <2>2, WorkStep
<1>9. CASE c.kind # "update"
  <2>1. local' = [local EXCEPT ![w] = Idle]
    BY <1>9 DEF WriteRow, Acked
  <2> QED
    BY <1>1, <1>4, <1>7, <2>1, WorkStep
<1> QED
  BY <1>8, <1>9

LEMMA DropRowKeeps ==
  ASSUME IInv, NEW w \in Writers, DropRow(w)
  PROVE  IInv'
<1> DEFINE c == local[w]
<1>1. /\ c.pc = "drop"
      /\ UNCHANGED <<enable_oplog, phase, log, main, prev, dirty, at, blurred>>
      /\ UNCHANGED ix
      /\ rows' = Without(rows, c.old)
  BY DEF DropRow, durable, Acked, ghosts
<1>2. c \in VersionCall \cup DeleteCall
  BY <1>1, CallFacts DEF InsertCall, PayloadCall
<1>3. ix \in Index /\ rows \in PartialMaps(Nat, Payloads) /\ Idle \in Call
  BY DEF IInv, Types, Call
<1>4. rows' \in PartialMaps(Nat, Payloads)
  BY <1>1, <1>3, WithoutInMaps
<1>5. DOMAIN rows' \subseteq DOMAIN rows
  BY <1>1 DEF Without
<1>6. CASE c.kind = "delete"
  <2>1. Goto(w, "forget")
    BY <1>6 DEF DropRow
  <2>2. [c EXCEPT !.pc = "forget"] \in Call
    BY <1>2, <1>6 DEF Call, VersionCall, DeleteCall
  <2> QED
    BY <1>1, <1>3, <1>4, <1>5, <2>1, <2>2, GotoStep
<1>7. CASE c.kind # "delete"
  <2>1. local' = [local EXCEPT ![w] = Idle]
    BY <1>7 DEF DropRow, Acked
  <2> QED
    BY <1>1, <1>3, <1>4, <1>5, <2>1, WorkStep
<1> QED
  BY <1>6, <1>7

LEMMA ReadKeeps ==
  ASSUME IInv, NEW w \in Writers, ReadOldRow(w) \/ ReadRow(w)
  PROVE  IInv'
<1> DEFINE c == local[w]
<1>1. /\ c.pc = "read"
      /\ UNCHANGED <<enable_oplog, phase, log, main, prev, dirty, at, blurred>>
      /\ UNCHANGED <<ix, rows>>
  BY DEF ReadOldRow, ReadRow, durable, ghosts
<1>2. c \in VersionCall \cup PayloadCall
  BY <1>1, CallFacts DEF InsertCall, DeleteCall
<1>3. ix \in Index /\ rows \in PartialMaps(Nat, Payloads)
  BY DEF IInv, Types
<1>4. PICK pc \in {"row", "drop", "put"}, p \in Payloads :
        /\ local' = [local EXCEPT ![w].pc = pc, ![w].read = p]
        /\ pc = "put" <=> c.kind \in PayloadKinds
  <2>1. {} \in Payloads /\ \A i \in DOMAIN rows : rows[i] \in Payloads
    BY <1>3, MapValues DEF Payloads
  <2> QED
    BY <2>1 DEF ReadOldRow, ReadRow, VectorKinds, PayloadKinds
<1> DEFINE d == [c EXCEPT !.pc = pc, !.read = p]
<1>5. local' = [local EXCEPT ![w] = d]
  BY <1>4 DEF IInv, Types
<1>6. /\ d \in Call /\ d.new = c.new /\ d.kind = c.kind /\ d.pc # "log"
      /\ d.kind \in VectorKinds => d.old = c.old
  BY <1>2, <1>4 DEF Call, VersionCall, PayloadCall, PayloadKinds, VectorKinds
<1> HIDE DEF d
<1> QED
  BY <1>1, <1>3, <1>5, <1>6, WorkStep

LEMMA ReadOldRowFailsKeeps ==
  ASSUME IInv, NEW w \in Writers, ReadOldRowFails(w)
  PROVE  IInv'
<1> DEFINE c == local[w]
           d == [c EXCEPT !.pc = "drop"]
<1>1. /\ c.pc = "read" /\ c.kind \in VectorKinds
      /\ UNCHANGED <<enable_oplog, phase, ix, rows, log, main, prev, dirty, at>>
      /\ blurred' = blurred \cup {c.real}
      /\ local' = [local EXCEPT ![w] = d]
  BY DEF ReadOldRowFails, durable, Goto, IInv, Types
<1>2. c \in VersionCall
  BY <1>1, CallFacts DEF InsertCall, DeleteCall, PayloadCall, VectorKinds, PayloadKinds
<1>3. /\ d \in Call /\ d.new = c.new /\ d.kind = c.kind /\ d.old = c.old /\ d.pc = "drop"
      /\ c.real \in RealIds
  BY <1>1, <1>2 DEF Call, VersionCall
<1>4. InCall /\ dirty' \in BOOLEAN /\ blurred' \subseteq RealIds
  BY <1>1, <1>3, CallFacts DEF InCall, IInv, Types
<1>5. ASSUME enable_oplog
      PROVE  CallLogged(log, ix, d)
  <2>1. CallLogged(log, ix, c) /\ c # Idle
    BY <1>5, <1>1, CallFacts DEF Idle
  <2> HIDE DEF d
  <2> QED
    BY <1>1, <1>3, <2>1 DEF CallLogged
<1> HIDE DEF d
<1> QED
  BY <1>1, <1>3, <1>4, <1>5, LocalStep

LEMMA PutRowKeeps ==
  ASSUME IInv, NEW w \in Writers, PutRow(w)
  PROVE  IInv'
<1> DEFINE c == local[w]
<1>1. /\ c.pc = "put"
      /\ UNCHANGED <<enable_oplog, phase, log, main, prev, dirty, at, blurred>>
      /\ UNCHANGED ix
      /\ local' = [local EXCEPT ![w] = Idle]
      /\ rows' = Set(rows, c.new, Patched(c, c.read))
  BY DEF PutRow, durable, Acked
<1>2. c \in PayloadCall
  BY <1>1, CallFacts DEF InsertCall, VersionCall, DeleteCall
<1>3. ix \in Index /\ rows \in PartialMaps(Nat, Payloads) /\ Idle \in Call
  BY DEF IInv, Types, Call
<1>4. Patched(c, c.read) \in Payloads /\ c.new \in Nat
  BY <1>2 DEF PayloadCall, PayloadKinds, Patched, Payloads
<1>5. rows' \in PartialMaps(Nat, Payloads)
  BY <1>1, <1>3, <1>4, SetInMaps
<1>6. DOMAIN rows' \subseteq DOMAIN rows \cup {c.new}
  BY <1>1 DEF Set
<1> QED
  BY <1>1, <1>3, <1>5, <1>6, WorkStep

LEMMA CallStepKeeps ==
  ASSUME IInv, NEW w \in Writers, Step(w)
  PROVE  IInv'
<1>1. CASE LogOpFails(w) \/ RowFails(w) \/ NoSuchRow(w)
  <2>1. /\ local[w].pc # "idle" /\ local' = [local EXCEPT ![w] = Idle]
        /\ UNCHANGED <<enable_oplog, phase, ix, rows, log, main, prev, dirty, at, blurred>>
    BY <1>1 DEF LogOpFails, RowFails, NoSuchRow, Failed, durable, ghosts
  <2> QED
    BY <2>1, ReturnKeeps
<1> QED
  BY <1>1, LogOpKeeps, InsertNodeKeeps, LogAbortKeeps, RecordMappingKeeps, TombstoneKeeps,
     ReadKeeps, ReadOldRowFailsKeeps, WriteRowKeeps, DropRowKeeps, ForgetMappingKeeps, PutRowKeeps DEF Step

LEMMA BeginKeeps ==
  ASSUME IInv, NEW w \in Writers, Begin(w)
  PROVE  IInv'
<1>1. PICK r \in RealIds :
        \/ BeginDelete(w, r) \/ DeleteNothing(w, r)
        \/ \E p \in Payloads :
             \/ \E v \in Vecs, q \in {p, Absent} : BeginInsert(w, r, v, q) \/ BeginUpdate(w, r, v, q)
             \/ \E kind \in PayloadKinds : BeginPayload(w, r, kind, p)
  BY DEF Begin
<1>2. ASSUME NEW p \in Payloads, NEW v \in Vecs, NEW q \in {p, Absent},
             BeginInsert(w, r, v, q) \/ BeginUpdate(w, r, v, q)
      PROVE  IInv'
  <2>1. PICK kind \in {"insert", "reinsert", "update"} : BeginUpsert(w, r, v, q, kind)
    BY <1>2 DEF BeginInsert, BeginUpdate
  <2> QED
    BY <2>1, BeginUpsertKeeps
<1> QED
  BY <1>1, <1>2, BeginDeleteKeeps, DeleteNothingKeeps, BeginPayloadKeeps

-----------------------------------------------------------------------------
(* Checkpoints, crashes and recovery.                                      *)

LEMMA Intact ==
  ASSUME NEW f \in CheckpointFile
  PROVE  f # NoFile /\ f # Damaged
<1>1. DOMAIN f = {"lsn", "ix"} /\ DOMAIN NoFile = {"file"} /\ DOMAIN Damaged = {"file"}
  BY DEF CheckpointFile, NoFile, Damaged
<1> QED
  BY <1>1

LEMMA EmptyIndexFacts ==
  /\ EmptyIndex \in Index /\ IdsOf(EmptyIndex) = {} /\ EmptyIndex.next = UpdateBase
<1>a. DOMAIN Empty = {} /\ \A A, B : Empty \in PartialMaps(A, B)
  <2> SUFFICES ASSUME NEW A, NEW B PROVE Empty \in PartialMaps(A, B) /\ DOMAIN Empty = {}
    OBVIOUS
  <2>1. Empty \in [{} -> B] /\ {} \in SUBSET A
    BY DEF Empty
  <2> QED
    BY <2>1 DEF PartialMaps
<1>1. /\ Empty \in PartialMaps(Nat, Vecs) /\ DOMAIN Empty = {}
      /\ Empty \in PartialMaps(RealIds, UpdateIds) /\ Empty \in PartialMaps(Nat, RealIds)
  BY <1>a
<1>2. UpdateBase \in UpdateIds
  BY IdsAssumption DEF UpdateIds, is_update_id
<1>3. EmptyIndex \in Index
  BY <1>1, <1>2 DEF EmptyIndex, Index
<1> QED
  BY <1>1, <1>3 DEF EmptyIndex, IdsOf

\* The files after a checkpoint of what is in memory.
LEMMA InstalledFiles ==
  ASSUME IInv, phase # "down", Installed(ix, Len(log))
  PROVE  /\ main' \in CheckpointFile /\ main'.lsn = Len(log) /\ main'.ix = ix
         /\ prev' \in CheckpointFile \cup {NoFile}
         /\ main' # NoFile /\ main' # Damaged
         /\ Loadable' \subseteq Loadable \cup {main'}
         /\ dirty' \in BOOLEAN
<1>1. ix \in Index /\ Len(log) \in Nat /\ main \in CheckpointFile \cup {NoFile, Damaged}
      /\ prev \in CheckpointFile \cup {NoFile} /\ main # Damaged
  BY DEF IInv, Types, Control
<1>2. main' = [lsn |-> Len(log), ix |-> ix] /\ dirty' \in BOOLEAN
  BY DEF Installed
<1>3. main' \in CheckpointFile /\ main'.lsn = Len(log) /\ main'.ix = ix
  BY <1>1, <1>2 DEF CheckpointFile
<1>4. main' # NoFile /\ main' # Damaged
  BY <1>3, Intact
<1>5. prev' = prev \/ (main # NoFile /\ prev' = main)
  BY DEF Installed
<1>6. prev' \in CheckpointFile \cup {NoFile}
  BY <1>1, <1>5
<1>7. Loadable' \subseteq Loadable \cup {main'}
  BY <1>1, <1>5 DEF Loadable
<1> QED
  BY <1>2, <1>3, <1>4, <1>6, <1>7

LEMMA CheckpointKeeps ==
  ASSUME IInv, Checkpoint
  PROVE  IInv'
<1>1. /\ phase = "open" /\ Installed(ix, Len(log))
      /\ UNCHANGED <<enable_oplog, phase, ix, rows, log, at, local, blurred>>
  BY DEF Checkpoint, ghosts
<1>2. /\ main' \in CheckpointFile /\ main'.lsn = Len(log) /\ main'.ix = ix
      /\ prev' \in CheckpointFile \cup {NoFile}
      /\ main' # NoFile /\ main' # Damaged
      /\ Loadable' \subseteq Loadable \cup {main'}
      /\ dirty' \in BOOLEAN
  BY <1>1, InstalledFiles
<1>3. Types'
  BY <1>1, <1>2 DEF IInv, Types
<1>4. Control'
  <2>1. Len(log) \in Nat
    BY DEF IInv, Types
  <2> QED
    BY <1>1, <1>2, <2>1 DEF IInv, Control
<1>5. ASSUME enable_oplog'
      PROVE  Origins'
  <2>1. enable_oplog /\ Horizon = Len(log) /\ Horizon' = Len(log)
    BY <1>1, <1>5 DEF Horizon
  <2>2. Reflects(log, ix, Len(log))
    BY <2>1 DEF IInv, Origins
  <2>3. \A f \in Loadable' : Reflects(log, f.ix, f.lsn)
    BY <1>2, <2>1, <2>2 DEF IInv, Origins
  <2> QED
    BY <1>1, <2>1, <2>2, <2>3 DEF IInv, Origins
<1> QED
  BY <1>3, <1>4, <1>5 DEF IInv, Origins

\* The process is gone, and with it the index and every call.
LEMMA DownKeeps ==
  ASSUME IInv, phase' = "down", ix' = EmptyIndex, at' = 1, dirty' = FALSE,
         \A w \in Writers : local'[w] = Idle, local' \in [Writers -> Call],
         UNCHANGED <<enable_oplog, rows, log, main, prev, blurred>>
  PROVE  IInv'
<1>1. Len(log) \in Nat /\ EmptyIndex \in Index /\ IdsOf(EmptyIndex) = {}
  BY EmptyIndexFacts DEF IInv, Types
<1>2. dirty' \in BOOLEAN
  OBVIOUS
<1>3. Types'
  BY <1>1, <1>2 DEF IInv, Types
<1>4. Control'
  BY DEF IInv, Control, Loadable
<1>5. Origins'
  <2>1. Horizon' = 0
    BY DEF Horizon
  <2>2. Reflects(log, EmptyIndex, 0)
    BY <1>1 DEF Reflects
  <2>3. \A w \in Writers : CallLogged(log', ix', local'[w])
    BY DEF CallLogged
  <2> QED
    BY <2>1, <2>2, <2>3 DEF IInv, Origins, Loadable
<1> QED
  BY <1>3, <1>4, <1>5 DEF IInv

LEMMA CrashKeeps ==
  ASSUME IInv, Crash
  PROVE  IInv'
<1>1. /\ phase' = "down" /\ ix' = EmptyIndex /\ local' = [w \in Writers |-> Idle]
      /\ at' = 1 /\ dirty' = FALSE
      /\ UNCHANGED <<enable_oplog, rows, log, main, prev, blurred>>
  BY DEF Crash, durable
<1>2. local' \in [Writers -> Call] /\ \A w \in Writers : local'[w] = Idle
  BY <1>1 DEF Call
<1> QED
  BY <1>1, <1>2, DownKeeps

LEMMA DamageMainKeeps ==
  ASSUME IInv, DamageMain
  PROVE  IInv'
<1>1. /\ phase = "down" /\ prev # NoFile /\ main' = Damaged
      /\ UNCHANGED <<enable_oplog, phase, ix, rows, log, prev, dirty, at, local, blurred>>
  BY DEF DamageMain
<1>2. Loadable' \subseteq Loadable
  BY <1>1 DEF Loadable
<1>3. Types'
  BY <1>1 DEF IInv, Types
<1>4. Control'
  BY <1>1, <1>2 DEF IInv, Control
<1>5. Origins'
  <2>1. Horizon' = Horizon
    BY <1>1 DEF Horizon
  <2> QED
    BY <1>1, <1>2, <2>1 DEF IInv, Origins
<1> QED
  BY <1>3, <1>4, <1>5 DEF IInv

LEMMA LoadCheckpointKeeps ==
  ASSUME IInv, LoadCheckpoint
  PROVE  IInv'
<1> DEFINE file == IF main \in {NoFile, Damaged} THEN prev ELSE main
<1>1. /\ phase = "down" /\ phase' = "replaying"
      /\ ix' = file.ix /\ at' = file.lsn + 1
      /\ main' = IF main = Damaged THEN NoFile ELSE main
      /\ UNCHANGED <<enable_oplog, rows, log, prev, dirty, local, blurred>>
  BY DEF LoadCheckpoint, ghosts
<1>2. /\ main \in CheckpointFile \cup {NoFile, Damaged} /\ prev \in CheckpointFile \cup {NoFile}
      /\ Len(log) \in Nat
      /\ main \in {NoFile, Damaged} => prev # NoFile
  BY DEF IInv, Types, Control
<1>3. file \in CheckpointFile
  BY <1>2
<1>4. file \in Loadable
  BY <1>2, <1>3, Intact DEF Loadable
<1>5. Loadable' \subseteq Loadable
  BY <1>1 DEF Loadable
<1> HIDE DEF file
<1>6. file.ix \in Index /\ file.lsn \in Nat /\ file.lsn <= Len(log)
  BY <1>3, <1>4 DEF CheckpointFile, IInv, Control
<1>7. main' \in CheckpointFile \cup {NoFile, Damaged}
  BY <1>1, <1>2
<1>8. Types'
  BY <1>1, <1>2, <1>6, <1>7 DEF IInv, Types
<1>9. main' # Damaged
  BY <1>1 DEF NoFile, Damaged
<1>10. Control'
  BY <1>1, <1>5, <1>9 DEF IInv, Control
<1>11. ASSUME enable_oplog'
       PROVE  Origins'
  <2>1. Horizon' = file.lsn
    BY <1>1, <1>6 DEF Horizon
  <2>2. Reflects(log, file.ix, file.lsn)
    BY <1>1, <1>4, <1>11 DEF IInv, Origins
  <2>3. \A w \in Writers : CallLogged(log', ix', local'[w])
    BY <1>1 DEF IInv, Control, CallLogged
  <2> QED
    BY <1>1, <1>5, <1>11, <2>1, <2>2, <2>3 DEF IInv, Origins
<1> QED
  BY <1>8, <1>10, <1>11 DEF IInv, Origins

\* A step of the replay, up to record n.
LEMMA ReplayStep ==
  ASSUME IInv, phase \in {"replaying", "dropping", "replayed"},
         UNCHANGED <<enable_oplog, log, main, prev, local>>, blurred' \subseteq RealIds,
         phase' \in {"replaying", "dropping", "replayed"}, dirty' \in BOOLEAN,
         at' \in Nat \ {0}, at' <= Len(log) + 1,
         phase' = "dropping" => at' <= Len(log) /\ log[at'].op = "update",
         phase' = "replayed" => at' = Len(log) + 1,
         ix' \in Index, rows' \in PartialMaps(Nat, Payloads),
         enable_oplog => /\ Reflects(log, ix', Horizon')
                         /\ \A i \in DOMAIN rows' : i \in DOMAIN rows \/ Logged(log, i, Len(log))
  PROVE  IInv'
<1>1. Types'
  BY DEF IInv, Types
<1>2. Control'
  BY DEF IInv, Control, Loadable
<1>3. \A w \in Writers : CallLogged(log', ix', local'[w])
  BY DEF IInv, Control, CallLogged
<1>4. ASSUME enable_oplog'
      PROVE  Origins'
  BY <1>3, <1>4 DEF IInv, Origins, Loadable
<1> QED
  BY <1>1, <1>2, <1>4 DEF IInv, Origins

LEMMA ReplaySkippedKeeps ==
  ASSUME IInv, ReplaySkipped
  PROVE  IInv'
<1>1. /\ phase = "replaying" /\ phase' = "replaying" /\ at <= Len(log) /\ at' = at + 1
      /\ ix' = IF Issues(log[at]) THEN observe_update_id(ix, log[at].new) ELSE ix
      /\ dirty' = TRUE
      /\ UNCHANGED <<enable_oplog, rows, log, main, prev, local, blurred>>
  BY DEF ReplaySkipped, durable, ghosts, Issues
<1>2. /\ ix \in Index /\ ix.next \in Nat /\ rows \in PartialMaps(Nat, Payloads)
      /\ Len(log) \in Nat /\ at \in Nat \ {0} /\ log \in Seq(Record)
  BY IndexFields DEF IInv, Types
<1>3. at \in 1..Len(log) /\ log[at] \in Record /\ \A k \in 1..Len(log) : log[k] \in Record
  BY <1>1, <1>2
<1>4. \A k \in 1..Len(log) : Issues(log[k]) => log[k].new \in Nat
  BY <1>3 DEF Issues, Record, UpsertRecord, DeleteRecord, AbortRecord
<1>5. /\ ix' \in Index /\ ix'.next \in Nat /\ ix'.next >= ix.next /\ IdsOf(ix') = IdsOf(ix)
      /\ Issues(log[at]) => log[at].new < ix'.next
  <2>1. CASE Issues(log[at])
    BY <1>1, <1>2, <1>3, <1>4, <2>1, ObserveIndex, IndexFields
  <2>2. CASE ~Issues(log[at])
    BY <1>1, <1>2, <2>2
  <2> QED
    BY <2>1, <2>2
<1>6. ASSUME enable_oplog
      PROVE  Reflects(log, ix', Horizon')
  <2>1. Horizon = at - 1 /\ Horizon' = at
    BY <1>1, <1>2 DEF Horizon
  <2>2. Reflects(log, ix, at - 1)
    BY <1>6, <2>1 DEF IInv, Origins
  <2>3. Extends(log, log) /\ at - 1 \in Nat
    BY <1>2, AppendExtends DEF Extends
  <2>4. \A i \in IdsOf(ix') : Logged(log, i, at)
    BY <1>1, <1>2, <1>5, <2>2, <2>3, LoggedGrows DEF Reflects
  <2>5. \A k \in 1..at : Issues(log[k]) => log[k].new < ix'.next
    BY <1>2, <1>3, <1>4, <1>5, <2>2 DEF Reflects
  <2> QED
    BY <2>1, <2>4, <2>5 DEF Reflects
<1>11. blurred' \subseteq RealIds
  BY <1>1 DEF IInv, Types
<1> QED
  BY <1>1, <1>2, <1>5, <1>6, <1>11, ReplayStep

\* The rows as they are after new ones were written over old ones.
Overlaid(t, new) ==
  [i \in DOMAIN t \cup DOMAIN new |-> IF i \in DOMAIN new THEN new[i] ELSE t[i]]

LEMMA RestrictInMaps ==
  ASSUME NEW A, NEW B, NEW f \in PartialMaps(A, B), NEW lost
  PROVE  [i \in DOMAIN f \ lost |-> f[i]] \in PartialMaps(A, B)
<1>1. PICK D \in SUBSET A : f \in [D -> B]
  BY DEF PartialMaps
<1>2. [i \in DOMAIN f \ lost |-> f[i]] \in [D \ lost -> B]
  BY <1>1
<1> QED
  BY <1>1, <1>2 DEF PartialMaps

LEMMA OverlaidMap ==
  ASSUME NEW A, NEW B, NEW t \in PartialMaps(A, B), NEW new \in PartialMaps(A, B)
  PROVE  Overlaid(t, new) \in PartialMaps(A, B) /\ DOMAIN Overlaid(t, new) = DOMAIN t \cup DOMAIN new
<1>1. PICK D \in SUBSET A : t \in [D -> B]
  BY DEF PartialMaps
<1>2. PICK E \in SUBSET A : new \in [E -> B]
  BY DEF PartialMaps
<1>3. Overlaid(t, new) \in [D \cup E -> B] /\ D \cup E \in SUBSET A
  BY <1>1, <1>2 DEF Overlaid
<1> QED
  BY <1>1, <1>2, <1>3 DEF PartialMaps

LEMMA ReplayedRowsMap ==
  ASSUME NEW t \in PartialMaps(Nat, Payloads), NEW rec, rec.new \in Nat,
         rec.arg # Absent => rec.arg \in Payloads
  PROVE  /\ ReplayedRows(t, rec) \in PartialMaps(Nat, Payloads)
         /\ DOMAIN ReplayedRows(t, rec) \subseteq DOMAIN t \cup {rec.new}
<1>1. Without(t, rec.new) \in PartialMaps(Nat, Payloads)
  BY WithoutInMaps
<1>2. \A i \in DOMAIN t : t[i] \in Payloads
  BY MapValues
<1>3. /\ rec.arg # Absent => Set(t, rec.new, rec.arg) \in PartialMaps(Nat, Payloads)
      /\ rec.old \in DOMAIN t => Set(t, rec.new, t[rec.old]) \in PartialMaps(Nat, Payloads)
  BY <1>2, SetInMaps
<1>4. /\ DOMAIN Without(t, rec.new) \subseteq DOMAIN t
      /\ \A p : DOMAIN Set(t, rec.new, p) = DOMAIN t \cup {rec.new}
  BY DEF Without, Set
<1>5. \/ ReplayedRows(t, rec) = t \/ ReplayedRows(t, rec) = Without(t, rec.new)
      \/ rec.arg # Absent /\ ReplayedRows(t, rec) = Set(t, rec.new, rec.arg)
      \/ rec.old \in DOMAIN t /\ ReplayedRows(t, rec) = Set(t, rec.new, t[rec.old])
  BY DEF ReplayedRows
<1> QED
  BY <1>1, <1>3, <1>4, <1>5

LEMMA ReplayRecordKeeps ==
  ASSUME IInv, ReplayRecord \/ ReplayReadFails
  PROVE  IInv'
<1> DEFINE rec == log[at]
<1>1. /\ phase = "replaying" /\ at <= Len(log) /\ rec.op # "abort"
      /\ IF rec.op = "update" THEN phase' = "dropping" /\ at' = at
                              ELSE phase' = "replaying" /\ at' = at + 1
      /\ ix' = Replayed(ix, rec) /\ dirty' = TRUE
      /\ UNCHANGED <<enable_oplog, log, main, prev, local>>
      /\ blurred' \in {blurred, blurred \cup {rec.real}}
  BY DEF ReplayRecord, ReplayReadFails, durable, ghosts
<1>2. /\ ix \in Index /\ ix.next \in Nat /\ rows \in PartialMaps(Nat, Payloads)
      /\ Len(log) \in Nat /\ at \in Nat \ {0} /\ log \in Seq(Record)
  BY IndexFields DEF IInv, Types
<1>3. at \in 1..Len(log) /\ \A k \in 1..Len(log) : log[k] \in Record
  BY <1>1, <1>2
<1>4. rec \in UpsertRecord \cup DeleteRecord
  BY <1>1, <1>3 DEF Record, AbortRecord
<1>5. \A k \in 1..Len(log) : Issues(log[k]) => log[k].new \in Nat
  BY <1>3 DEF Issues, Record, UpsertRecord, DeleteRecord, AbortRecord
<1> HIDE DEF rec
<1>6. /\ ix' \in Index /\ ix'.next \in Nat /\ ix'.next >= ix.next
      /\ Issues(rec) => rec.new < ix'.next
      /\ \A i \in IdsOf(ix') : i \in IdsOf(ix) \/ i = rec.new \/ i = rec.old
  BY <1>1, <1>2, <1>4, ReplayedIndex, IndexFields DEF Issues
<1>7. /\ rows' \in PartialMaps(Nat, Payloads) /\ DOMAIN rows' \subseteq DOMAIN rows \cup {rec.new}
  <2>1. rec.new \in Nat /\ (rec.arg # Absent => rec.arg \in Payloads)
    BY <1>4 DEF UpsertRecord, DeleteRecord
  <2>2. CASE ReplayRecord
    BY <1>2, <2>1, <2>2, ReplayedRowsMap DEF ReplayRecord, rec
  <2>3. CASE ReplayReadFails
    <3>1. PICK lost \in SUBSET {rec.new, rec.old} :
            rows' = Overlaid(rows, ReplayedRows([i \in DOMAIN rows \ lost |-> rows[i]], rec))
      BY <2>3 DEF ReplayReadFails, Overlaid, rec
    <3> DEFINE seen == [i \in DOMAIN rows \ lost |-> rows[i]]
    <3>2. seen \in PartialMaps(Nat, Payloads) /\ DOMAIN seen \subseteq DOMAIN rows
      BY <1>2, RestrictInMaps
    <3> HIDE DEF seen
    <3>3. /\ ReplayedRows(seen, rec) \in PartialMaps(Nat, Payloads)
          /\ DOMAIN ReplayedRows(seen, rec) \subseteq DOMAIN seen \cup {rec.new}
      BY <2>1, <3>2, ReplayedRowsMap
    <3>4. rows' = Overlaid(rows, ReplayedRows(seen, rec))
      BY <3>1 DEF seen
    <3> DEFINE new == ReplayedRows(seen, rec)
    <3> HIDE DEF new
    <3>5. new \in PartialMaps(Nat, Payloads) /\ rows' = Overlaid(rows, new)
      BY <3>3, <3>4 DEF new
    <3>6. rows \in PartialMaps(Nat, Payloads) /\ new \in PartialMaps(Nat, Payloads)
      BY <1>2, <3>5
    <3>7. /\ Overlaid(rows, new) \in PartialMaps(Nat, Payloads)
          /\ DOMAIN Overlaid(rows, new) = DOMAIN rows \cup DOMAIN new
      BY <3>6, OverlaidMap
    <3> QED
      BY <3>2, <3>3, <3>5, <3>7 DEF new
  <2> QED
    BY <2>2, <2>3
<1>8. ASSUME enable_oplog
      PROVE  /\ Reflects(log, ix', Horizon')
             /\ \A i \in DOMAIN rows' : i \in DOMAIN rows \/ Logged(log, i, Len(log))
  <2>1. Horizon = at - 1 /\ Horizon' = at
    BY <1>1, <1>2 DEF Horizon
  <2>2. Reflects(log, ix, at - 1) /\ Logged(log, rec.new, at) /\ Logged(log, rec.old, at)
    BY <1>1, <1>3, <1>8, <2>1 DEF IInv, Origins, RecordsLogged, rec
  <2>3. Extends(log, log) /\ at - 1 \in Nat
    BY <1>2, AppendExtends DEF Extends
  <2>4. \A i \in IdsOf(ix) : Logged(log, i, at)
    BY <1>1, <1>2, <2>2, <2>3, LoggedGrows DEF Reflects
  <2>5. \A k \in 1..at : Issues(log[k]) => log[k].new < ix'.next
    BY <1>2, <1>3, <1>5, <1>6, <2>2 DEF Reflects, rec
  <2>6. Logged(log, rec.new, Len(log))
    BY <1>1, <1>2, <2>2, <2>3, LoggedGrows
  <2> QED
    BY <1>6, <1>7, <2>1, <2>2, <2>4, <2>5, <2>6 DEF Reflects
<1>9. /\ at' \in Nat \ {0} /\ at' <= Len(log) + 1
      /\ phase' = "dropping" => at' <= Len(log) /\ log[at'].op = "update"
  BY <1>1, <1>2 DEF rec
<1>10. blurred' \subseteq RealIds
  BY <1>1, <1>4 DEF IInv, Types, UpsertRecord, DeleteRecord
<1> QED
  BY <1>1, <1>6, <1>7, <1>8, <1>9, <1>10, ReplayStep

\* Open fails during the recovery.
LEMMA RecoveryFailsKeeps ==
  ASSUME IInv, RecoveryFails
  PROVE  IInv'
<1>1. /\ phase # "open" /\ phase' = "down" /\ ix' = EmptyIndex /\ at' = 1 /\ dirty' = FALSE
      /\ UNCHANGED <<enable_oplog, rows, log, main, prev, local, blurred>>
  BY DEF RecoveryFails, durable
<1>2. local' \in [Writers -> Call] /\ \A w \in Writers : local'[w] = Idle
  BY <1>1 DEF IInv, Types, Control
<1> QED
  BY <1>1, <1>2, DownKeeps

LEMMA ReplayDropRowKeeps ==
  ASSUME IInv, ReplayDropRow
  PROVE  IInv'
<1>1. /\ phase = "dropping" /\ phase' = "replaying" /\ at' = at + 1
      /\ rows' = Without(rows, log[at].old)
      /\ UNCHANGED <<enable_oplog, ix, log, main, prev, dirty, local, blurred>>
  BY DEF ReplayDropRow, durable, ghosts
<1>2. /\ ix \in Index /\ rows \in PartialMaps(Nat, Payloads) /\ dirty \in BOOLEAN
      /\ Len(log) \in Nat /\ at \in Nat \ {0} /\ at <= Len(log)
  BY <1>1 DEF IInv, Types, Control
<1>3. rows' \in PartialMaps(Nat, Payloads)
  BY <1>1, <1>2, WithoutInMaps
<1>4. DOMAIN rows' \subseteq DOMAIN rows
  BY <1>1 DEF Without
<1>5. enable_oplog => Reflects(log, ix', Horizon')
  <2>1. Horizon' = Horizon
    BY <1>1, <1>2 DEF Horizon
  <2> QED
    BY <1>1, <2>1 DEF IInv, Origins
<1>11. blurred' \subseteq RealIds
  BY <1>1 DEF IInv, Types
<1> QED
  BY <1>1, <1>2, <1>3, <1>4, <1>5, <1>11, ReplayStep

LEMMA ReplayEndKeeps ==
  ASSUME IInv, ReplayEnd
  PROVE  IInv'
<1>1. /\ phase = "replaying" /\ phase' = "replayed" /\ at > Len(log)
      /\ UNCHANGED <<enable_oplog, ix, rows, log, main, prev, dirty, at, local, blurred>>
  BY DEF ReplayEnd, durable, ghosts
<1>2. /\ ix \in Index /\ rows \in PartialMaps(Nat, Payloads) /\ dirty \in BOOLEAN
      /\ Len(log) \in Nat /\ at \in Nat \ {0} /\ at <= Len(log) + 1
  BY DEF IInv, Types
<1>3. enable_oplog => Reflects(log, ix', Horizon')
  <2>1. Horizon' = Horizon
    BY <1>1, <1>2 DEF Horizon
  <2> QED
    BY <1>1, <2>1 DEF IInv, Origins
<1>11. blurred' \subseteq RealIds
  BY <1>1 DEF IInv, Types
<1> QED
  BY <1>1, <1>2, <1>3, <1>11, ReplayStep

LEMMA FinishOpenKeeps ==
  ASSUME IInv, FinishOpen
  PROVE  IInv'
<1>1. /\ phase = "replayed" /\ phase' = "open"
      /\ Installed(ix, Len(log)) \/ UNCHANGED <<main, prev, dirty>>
      /\ UNCHANGED <<enable_oplog, ix, rows, log, at, local, blurred>>
  BY DEF FinishOpen
<1>2. /\ main' \in CheckpointFile \cup {NoFile, Damaged}
      /\ prev' \in CheckpointFile \cup {NoFile}
      /\ main' # Damaged /\ (main' = NoFile => prev' # NoFile)
      /\ \A f \in Loadable' : f \in Loadable \/ (f.lsn = Len(log) /\ f.ix = ix)
      /\ dirty' \in BOOLEAN
  <2>1. CASE Installed(ix, Len(log))
    BY <1>1, <2>1, InstalledFiles
  <2>2. CASE UNCHANGED <<main, prev, dirty>>
    BY <1>1, <2>2 DEF IInv, Types, Control, Loadable
  <2> QED
    BY <1>1, <2>1, <2>2
<1>3. Types'
  BY <1>1, <1>2 DEF IInv, Types
<1>4. Control'
  <2>1. Len(log) \in Nat
    BY DEF IInv, Types
  <2> QED
    BY <1>1, <1>2, <2>1 DEF IInv, Control
<1>5. ASSUME enable_oplog'
      PROVE  Origins'
  <2>1. enable_oplog /\ Horizon = Len(log) /\ Horizon' = Len(log)
    BY <1>1, <1>5 DEF Horizon
  <2>2. Reflects(log, ix, Len(log))
    BY <2>1 DEF IInv, Origins
  <2>3. \A f \in Loadable' : Reflects(log, f.ix, f.lsn)
    BY <1>2, <2>1, <2>2 DEF IInv, Origins
  <2> QED
    BY <1>1, <2>1, <2>2, <2>3 DEF IInv, Origins
<1> QED
  BY <1>3, <1>4, <1>5 DEF IInv, Origins

-----------------------------------------------------------------------------

LEMMA InvInit == Init => IInv
<1> SUFFICES ASSUME Init PROVE IInv
  OBVIOUS
<1>1. PICK b \in Loads :
        /\ ix = BulkLoaded(b)
        /\ rows = [i \in DOMAIN b |-> {}]
        /\ prev = IF DOMAIN b = {} THEN NoFile ELSE [lsn |-> 0, ix |-> ix]
  BY DEF Init
<1>2. /\ enable_oplog \in BOOLEAN /\ phase = "open" /\ main = [lsn |-> 0, ix |-> ix]
      /\ log = <<>> /\ dirty = FALSE /\ at = 1 /\ local = [w \in Writers |-> Idle]
      /\ blurred = {}
  BY LogModesAssumption DEF Init
<1>3. /\ DOMAIN b \subseteq RealIds /\ IsFiniteSet(DOMAIN b) /\ b \in [DOMAIN b -> Vecs]
      /\ \A i \in DOMAIN b : i \in Nat /\ ~is_update_id(i)
  BY LoadsAssumption, IdsAssumption DEF is_update_id
<1>4. b \in PartialMaps(Nat, Vecs) /\ rows \in PartialMaps(Nat, Payloads)
      /\ DOMAIN rows = DOMAIN b
  BY <1>1, <1>3 DEF PartialMaps, Payloads
<1>5. Cardinality(DOMAIN b) \in Int
  BY <1>3, FS_CardinalityType
<1>6. /\ ix \in Index /\ IdsOf(ix) = DOMAIN b /\ ix.next = UpdateBase
  <2>1. [EmptyIndex EXCEPT !.vecs = b] \in Index
    BY <1>4, EmptyIndexFacts DEF Index
  <2>2. /\ [EmptyIndex EXCEPT !.vecs = b].vecs = b
        /\ [EmptyIndex EXCEPT !.vecs = b].tomb = {}
        /\ [EmptyIndex EXCEPT !.vecs = b].fwd = Empty
        /\ [EmptyIndex EXCEPT !.vecs = b].next = UpdateBase
    BY DEF EmptyIndex
  <2>3. ix = [[EmptyIndex EXCEPT !.vecs = b] EXCEPT !.count = Cardinality(DOMAIN b)]
    BY <1>1 DEF BulkLoaded
  <2> DEFINE y == [EmptyIndex EXCEPT !.vecs = b]
  <2>4. IdsOf(y) = DOMAIN b
    BY <2>2 DEF IdsOf, Empty
  <2> HIDE DEF y
  <2> QED
    BY <1>5, <2>1, <2>2, <2>3, <2>4, CountIndex DEF y
<1>7. [lsn |-> 0, ix |-> ix] \in CheckpointFile
  BY <1>6 DEF CheckpointFile
<1>8. main # NoFile /\ main # Damaged
  BY <1>2, <1>7, Intact
<1>9. Len(log) = 0 /\ log \in Seq(Record)
  BY <1>2
<1>a. local \in [Writers -> Call] /\ dirty \in BOOLEAN /\ prev \in CheckpointFile \cup {NoFile}
  BY <1>1, <1>2, <1>7 DEF Call
<1>10. Types
  BY <1>2, <1>4, <1>6, <1>7, <1>9, <1>a DEF Types
<1>11. \A f \in Loadable : f = [lsn |-> 0, ix |-> ix]
  BY <1>1, <1>2 DEF Loadable
<1>12. Control
  BY <1>2, <1>8, <1>9, <1>11 DEF Control
<1>13. Reflects(log, ix, 0) /\ \A i \in DOMAIN rows : Logged(log, i, 0)
  BY <1>3, <1>4, <1>6 DEF Reflects, Logged
<1>14. \A f \in Loadable : Reflects(log, f.ix, f.lsn)
  BY <1>11, <1>13
<1>15. RecordsLogged(log) /\ Horizon = 0
  BY <1>2, <1>9 DEF RecordsLogged, Horizon
<1>16. \A w \in Writers : CallLogged(log, ix, local[w])
  BY <1>2 DEF CallLogged
<1>17. Origins
  BY <1>9, <1>13, <1>14, <1>15, <1>16 DEF Origins
<1> QED
  BY <1>10, <1>12, <1>17 DEF IInv

LEMMA InvStep == IInv /\ [Next]_vars => IInv'
<1> SUFFICES ASSUME IInv, [Next]_vars PROVE IInv'
  OBVIOUS
<1>1. CASE UNCHANGED vars
  BY <1>1 DEF vars, IInv, Types, Control, Loadable, Origins, Horizon
<1> QED
  BY <1>1, BeginKeeps, CallStepKeeps, CheckpointKeeps, CrashKeeps, DamageMainKeeps,
     LoadCheckpointKeeps, ReplaySkippedKeeps, ReplayRecordKeeps, ReplayDropRowKeeps,
     ReplayEndKeeps, FinishOpenKeeps, RecoveryFailsKeeps DEF Next, Recover

\* The store at every step of every history.
THEOREM Invariance == Spec => []IInv
  BY InvInit, InvStep, PTL DEF Spec

\* Every variable has its type, the ids and vectors of every call, record and
\* checkpoint file included.
THEOREM TypeCorrect == Spec => []TypeOK
<1>1. IInv => TypeOK
  <2> SUFFICES ASSUME IInv PROVE TypeOK
    OBVIOUS
  <2>1. Types /\ ix \in Index /\ rows \in PartialMaps(Nat, Payloads)
    BY DEF IInv, Types
  <2>2. /\ ix.vecs \in PartialMaps(Nat, Vecs) /\ ix.tomb \subseteq Nat
        /\ ix.fwd \in PartialMaps(RealIds, UpdateIds) /\ ix.rev \in PartialMaps(Nat, RealIds)
        /\ ix.next \in Nat /\ ix.count \in Int
    BY <2>1, IndexFields
  <2>3. /\ DOMAIN ix.vecs \subseteq Nat /\ \A i \in DOMAIN ix.vecs : ix.vecs[i] \in Vecs
        /\ DOMAIN ix.fwd \subseteq RealIds /\ \A r \in DOMAIN ix.fwd : ix.fwd[r] \in UpdateIds
        /\ \A i \in DOMAIN ix.rev : ix.rev[i] \in RealIds
        /\ DOMAIN rows \subseteq Nat /\ \A i \in DOMAIN rows : rows[i] \in Payloads
    BY <2>1, <2>2, MapValues
  <2>4. Len(log) \in Nat /\ at \in 1..(Len(log) + 1)
    BY <2>1 DEF Types
  <2> QED
    BY <2>1, <2>2, <2>3, <2>4 DEF TypeOK, Types, UpdateIds
<1> QED
  BY <1>1, Invariance, PTL

\* An update id that the log, a row or the index has ever seen is never handed
\* out again, however calls interleave and wherever crashes, failures and
\* damaged checkpoints fall (next_update_id_, observe_update_id).
THEOREM UpdateIdsAreFresh == Spec => []UpdateIdsFresh
<1>1. IInv => UpdateIdsFresh
  <2> SUFFICES ASSUME IInv, phase = "open", enable_oplog,
                      NEW i \in DOMAIN rows \cup DOMAIN ix.vecs \cup ix.tomb
                                \cup {log[l].new : l \in {k \in DOMAIN log : log[k].op # "abort"}},
                      is_update_id(i)
               PROVE  i < ix.next
    BY DEF UpdateIdsFresh
  <2>1. Reflects(log, ix, Len(log)) /\ RecordsLogged(log) /\ Horizon = Len(log)
        /\ \A j \in DOMAIN rows : Logged(log, j, Len(log))
    BY DEF IInv, Origins, Horizon
  <2>2. log \in Seq(Record) /\ Len(log) \in Nat /\ DOMAIN log = 1..Len(log)
    BY DEF IInv, Types
  <2>3. Logged(log, i, Len(log))
    <3>1. CASE i \in DOMAIN rows
      BY <2>1, <3>1
    <3>2. CASE i \in DOMAIN ix.vecs \cup ix.tomb
      BY <2>1, <3>2 DEF Reflects, IdsOf
    <3>3. CASE \E k \in DOMAIN log : log[k].op # "abort" /\ i = log[k].new
      <4>1. PICK k \in 1..Len(log) : log[k].op # "abort" /\ i = log[k].new
        BY <2>2, <3>3
      <4>2. Logged(log, i, k) /\ Extends(log, log)
        BY <2>1, <2>2, <4>1, AppendExtends DEF RecordsLogged, Extends
      <4> QED
        BY <2>2, <4>1, <4>2, LoggedGrows
    <3> QED
      BY <3>1, <3>2, <3>3
  <2> QED
    BY <2>1, <2>3 DEF Logged, Reflects
<1> QED
  BY <1>1, Invariance, PTL

-----------------------------------------------------------------------------
(* While no call has failed: what the index holds of each real id.         *)

\* The vector calls in flight; each holds the lock of its real id.
Holding == {local[w] : w \in {u \in Writers : Busy(u) /\ local[u].kind \in VectorKinds}}

\* The ids that belong to r: its own, its version, those of the call on it.
Claims(x, C, r) == {r, resolve_internal(x, r)} \cup UNION {{c.new, c.old} : c \in {d \in C : d.real = r}}

Reversed(x) == \A r \in DOMAIN x.fwd : x.fwd[r] \in DOMAIN x.rev /\ x.rev[x.fwd[r]] = r

\* Between calls: a mapped id is alive and was inserted directly before.
Tidy(x, r) == /\ r \in DOMAIN x.fwd => r \in x.tomb /\ is_alive(x, r)
              /\ r \in x.tomb => r \in DOMAIN x.vecs

Holds(x, i, v) == i \in DOMAIN x.vecs /\ x.vecs[i] = v
Maps(x, r, i) == r \in DOMAIN x.fwd /\ x.fwd[r] = i

InsertFits(x, c) ==
  /\ c.pc \in {"log", "node", "row"}
  /\ c.new = c.real /\ c.old = c.real
  /\ c.real \notin DOMAIN x.fwd /\ c.real \notin x.tomb
  /\ IF c.pc = "row" THEN Holds(x, c.new, c.vec) ELSE c.new \notin DOMAIN x.vecs

ReinsertFits(x, c) ==
  /\ c.pc \in {"log", "map", "node", "row"}
  /\ c.old = c.real /\ c.new \notin x.tomb
  /\ c.real \in x.tomb /\ c.real \in DOMAIN x.vecs
  /\ IF c.pc \in {"log", "map"} THEN c.real \notin DOMAIN x.fwd ELSE Maps(x, c.real, c.new)
  /\ IF c.pc = "row" THEN Holds(x, c.new, c.vec) ELSE c.new \notin DOMAIN x.vecs

UpdateFits(x, c) ==
  /\ c.pc \in {"log", "node", "map", "tomb", "read", "row", "drop"}
  /\ c.old # c.new /\ c.new \notin x.tomb
  /\ c.pc \in {"log", "node", "map"} =>
       /\ resolve_internal(x, c.real) = c.old
       /\ is_alive(x, c.real) /\ Tidy(x, c.real)
  /\ IF c.pc \in {"log", "node"} THEN c.new \notin DOMAIN x.vecs ELSE Holds(x, c.new, c.vec)
  /\ c.pc \in {"tomb", "read", "row", "drop"} => Maps(x, c.real, c.new)
  /\ c.pc = "tomb" => /\ c.old \in DOMAIN x.vecs /\ c.old \notin x.tomb
                      /\ c.old = c.real \/ (c.real \in x.tomb /\ c.real \in DOMAIN x.vecs)
  /\ c.pc \in {"read", "row", "drop"} =>
       c.old \in x.tomb /\ c.real \in x.tomb /\ c.real \in DOMAIN x.vecs

DeleteFits(x, c) ==
  /\ c.pc \in {"log", "tomb", "drop", "forget"}
  /\ c.new = c.old /\ resolve_internal(x, c.real) = c.old /\ c.old \in DOMAIN x.vecs
  /\ IF c.pc \in {"log", "tomb"}
     THEN Tidy(x, c.real) /\ c.alive = (c.old \notin x.tomb)
     ELSE /\ c.old \in x.tomb /\ c.real \in x.tomb /\ c.real \in DOMAIN x.vecs
          /\ c.alive \/ c.real \notin DOMAIN x.fwd

Fits(x, c) == CASE c.kind = "insert"   -> InsertFits(x, c)
                [] c.kind = "reinsert" -> ReinsertFits(x, c)
                [] c.kind = "update"   -> UpdateFits(x, c)
                [] c.kind = "delete"   -> DeleteFits(x, c)

\* A live version is that of a real id, or the call that adds or replaces
\* it is about to map it or to bury it.
Placed(x, C, i) ==
  \/ \E r \in RealIds : resolve_internal(x, r) = i
  \/ \E c \in C : /\ c.kind = "update"
                  /\ (c.pc = "map" /\ c.new = i) \/ (c.pc = "tomb" /\ c.old = i)

\* The ids counted as live: a delete uncounts its id last.
Leaving(c) == c.kind = "delete" /\ c.pc \in {"drop", "forget"} /\ c.alive
Counted(x, C) == {r \in RealIds : is_alive(x, r)} \cup {c.real : c \in {d \in C : Leaving(d)}}

Sound(x, C) ==
  /\ Reversed(x)
  /\ \A c, d \in C : c.real = d.real => c = d
  /\ \A r, q \in RealIds : r # q => Claims(x, C, r) \cap Claims(x, C, q) = {}
  /\ \A r \in RealIds : \A i \in Claims(x, C, r) : i < x.next
  /\ \A i \in DOMAIN x.vecs \cup x.tomb : i < x.next
  /\ \A c \in C : Fits(x, c)
  /\ \A r \in RealIds : (\A c \in C : c.real # r) => Tidy(x, r)
  /\ \A i \in DOMAIN x.vecs \ x.tomb : Placed(x, C, i)
  /\ IsFiniteSet(Counted(x, C)) /\ x.count = Cardinality(Counted(x, C))

\* Each thread holds a lock of its own, and no call has failed.
OneHolder == \A v, w \in Writers :
  Busy(v) /\ Busy(w) /\ local[v].kind \in VectorKinds /\ local[w].kind \in VectorKinds
    /\ local[v].real = local[w].real => v = w

-----------------------------------------------------------------------------
(* While no call has failed: what the log says of each real id.            *)

\* What an index holds of r.
Cell == [ver : Nat, vec : Vecs \cup {Gone}, dead : BOOLEAN, stored : BOOLEAN]
Now(x, r) == [ver |-> resolve_internal(x, r),
              vec |-> IF is_alive(x, r) THEN x.vecs[resolve_internal(x, r)] ELSE Gone,
              dead |-> r \in x.tomb, stored |-> r \in DOMAIN x.vecs]

\* What it holds of the real id of a record after that record.
After(rec) == IF rec.op = "delete"
              THEN [ver |-> rec.real, vec |-> Gone, dead |-> TRUE, stored |-> TRUE]
              ELSE [ver |-> rec.new, vec |-> rec.vec, dead |-> rec.new # rec.real, stored |-> TRUE]

\* The record was written for an id in this state.
Follows(s, rec) ==
  CASE rec.op = "insert" /\ rec.new = rec.real -> ~s.dead /\ ~s.stored /\ s.ver = rec.real
    [] rec.op = "insert" /\ rec.new # rec.real ->
         s.dead /\ s.stored /\ s.vec = Gone /\ s.ver = rec.real /\ is_update_id(rec.new)
    [] rec.op = "update" -> s.vec # Gone /\ s.ver = rec.old /\ is_update_id(rec.new)
    [] rec.op = "delete" -> /\ s.ver = rec.new /\ rec.old = rec.new
                            /\ s.vec = Gone => s.stored /\ s.ver = rec.real

\* A version is bare if all its records since the insert came without a
\* payload: a replay of them fills no row unless the row before is there.
Bare(rec, before) == rec.op # "delete" /\ rec.arg = Absent /\ (rec.op = "update" => before)

\* hist[k][r]: what the first k records of l make of r, and the last of them
\* that is about r.
Past == [now : Cell, last : Nat, bare : BOOLEAN]
Step1(p, l, k) == [now |-> After(l[k]), last |-> k, bare |-> Bare(l[k], p.bare)]
Fresh(p, r) == /\ p.last = 0 /\ p.now.ver = r /\ ~p.bare
               /\ p.now.vec # Gone => p.now.stored
Tells(l, hist) ==
  /\ hist \in [0..Len(l) -> [RealIds -> Past]]
  /\ \A r \in RealIds : Fresh(hist[0][r], r)
  /\ \A k \in 1..Len(l) :
       /\ l[k].op # "abort"
       /\ hist[k] = [hist[k-1] EXCEPT ![l[k].real] = Step1(@, l, k)]
       /\ Follows(hist[k-1][l[k].real].now, l[k])
       /\ \A j \in 1..(k-1) :
            Issues(l[j]) /\ Issues(l[k]) /\ is_update_id(l[k].new) => l[j].new # l[k].new
  /\ \A k \in 0..Len(l), r \in RealIds :
       LET m == hist[k][r].last
       IN /\ m <= k /\ hist[k][r] = hist[m][r]
          /\ m > 0 => l[m].real = r
          /\ \A j \in (m+1)..k : l[j].real # r

\* hist with what the last record of l adds.
Grown(hist, l) ==
  [k \in 0..Len(l) |->
     IF k < Len(l) THEN hist[k] ELSE [hist[k-1] EXCEPT ![l[k].real] = Step1(@, l, k)]]

RecordOf(c) == [op |-> IF c.kind = "reinsert" THEN "insert" ELSE c.kind,
                real |-> c.real, new |-> c.new, old |-> c.old, vec |-> c.vec, arg |-> c.arg]

\* A call in flight and its record.
CallTold(l, hist, x, c) ==
  LET p == hist[Len(l)][c.real]
  IN IF c.pc = "log"
     THEN /\ c.lsn = 0 /\ Now(x, c.real) = p.now
          /\ c.kind \in {"reinsert", "update"} =>
               \A k \in 1..Len(l) : Issues(l[k]) => l[k].new # c.new
     ELSE /\ c.lsn \in 1..Len(l) /\ l[c.lsn] = RecordOf(c) /\ p.last = c.lsn
          /\ \A f \in Loadable : f.lsn < c.lsn

Abreast(hist, x, n) == \A r \in RealIds : Now(x, r) = hist[n][r].now

Told(hist) ==
  /\ Tells(log, hist)
  /\ \A f \in Loadable : Abreast(hist, f.ix, f.lsn)
  /\ phase \notin {"open", "down"} => Abreast(hist, ix, Horizon) /\ \A f \in Loadable : f.lsn <= Horizon
  /\ phase = "open" =>
       /\ \A c \in Holding : CallTold(log, hist, ix, c)
       /\ \A r \in RealIds : (\A c \in Holding : c.real # r) => Now(ix, r) = hist[Len(log)][r].now
  /\ main \in CheckpointFile /\ prev \in CheckpointFile => prev.lsn <= main.lsn

Whole(hist) ==
  /\ OneHolder
  /\ \A f \in Loadable : Sound(f.ix, {})
  /\ phase \notin {"open", "down"} => Sound(ix, {})
  /\ phase = "open" => Sound(ix, Holding)
  /\ IF enable_oplog THEN Told(hist) ELSE log = <<>>

UsedType == used \in [calls : Nat, crashes : Nat, failures : Nat, damage : Nat]

\* i is what it was, and so is what r is mapped to.
Same(x, y, i) == /\ i \in DOMAIN x.vecs <=> i \in DOMAIN y.vecs
                 /\ i \in DOMAIN x.vecs => x.vecs[i] = y.vecs[i]
                 /\ i \in x.tomb <=> i \in y.tomb
SameFwd(x, y, r) == /\ r \in DOMAIN x.fwd <=> r \in DOMAIN y.fwd
                    /\ r \in DOMAIN x.fwd => x.fwd[r] = y.fwd[r]

\* From x to y only the mapping of r and what is held under ids of own changes.
Local(x, y, r, own) ==
  /\ x.next <= y.next
  /\ \A i \in Nat \ own : Same(x, y, i)
  /\ \A q \in RealIds \ {r} : SameFwd(x, y, q)
  /\ \A i \in DOMAIN x.rev \ own : i \in DOMAIN y.rev /\ y.rev[i] = x.rev[i]

VectorCall == InsertCall \cup VersionCall \cup DeleteCall

LEMMA VectorCallFacts ==
  ASSUME NEW c \in VectorCall
  PROVE  /\ c.real \in RealIds /\ c.new \in Nat /\ c.old \in Nat /\ c.kind \in VectorKinds
         /\ c.pc # "idle" /\ c # Idle
  BY DEF VectorCall, InsertCall, VersionCall, DeleteCall, UpdateIds, VectorKinds, Idle

LEMMA SameCell ==
  ASSUME NEW x \in Index, NEW y \in Index, NEW q \in RealIds,
         SameFwd(x, y, q), Same(x, y, q), Same(x, y, resolve_internal(x, q))
  PROVE  /\ resolve_internal(y, q) = resolve_internal(x, q)
         /\ is_alive(y, q) <=> is_alive(x, q)
         /\ Tidy(x, q) => Tidy(y, q)
         /\ Now(y, q) = Now(x, q)
<1>1. resolve_internal(y, q) = resolve_internal(x, q)
  BY DEF SameFwd, resolve_internal
<1>2. is_alive(y, q) <=> is_alive(x, q)
  BY <1>1 DEF is_alive, Same
<1>3. Tidy(x, q) => Tidy(y, q)
  BY <1>2 DEF Tidy, Same, SameFwd
<1>4. is_alive(x, q) => x.vecs[resolve_internal(x, q)] = y.vecs[resolve_internal(x, q)]
  BY DEF is_alive, Same
<1>5. Now(y, q) = Now(x, q)
  <2>1. (IF is_alive(y, q) THEN y.vecs[resolve_internal(y, q)] ELSE Gone)
          = (IF is_alive(x, q) THEN x.vecs[resolve_internal(x, q)] ELSE Gone)
    BY <1>1, <1>2, <1>4
  <2>2. /\ (q \in y.tomb) = (q \in x.tomb)
        /\ (q \in DOMAIN y.vecs) = (q \in DOMAIN x.vecs)
    BY DEF Same
  <2> QED
    BY <1>1, <2>1, <2>2 DEF Now
<1> QED
  BY <1>1, <1>2, <1>3, <1>5

LEMMA FitsFrame ==
  ASSUME NEW x \in Index, NEW y \in Index, NEW c \in VectorCall,
         SameFwd(x, y, c.real),
         \A i \in {c.real, c.new, c.old, resolve_internal(x, c.real)} : Same(x, y, i),
         Fits(x, c)
  PROVE  Fits(y, c)
<1>1. c.real \in RealIds
  BY VectorCallFacts
<1>2. /\ resolve_internal(y, c.real) = resolve_internal(x, c.real)
      /\ is_alive(y, c.real) <=> is_alive(x, c.real)
      /\ Tidy(x, c.real) => Tidy(y, c.real)
  BY <1>1, SameCell
<1>3. Same(x, y, c.real) /\ Same(x, y, c.new) /\ Same(x, y, c.old)
  OBVIOUS
<1>4. CASE c.kind = "insert"
  BY <1>3, <1>4 DEF Fits, InsertFits, Same, SameFwd, Holds
<1>5. CASE c.kind = "reinsert"
  BY <1>3, <1>5 DEF Fits, ReinsertFits, Same, SameFwd, Holds, Maps
<1>6. CASE c.kind = "update"
  BY <1>2, <1>3, <1>6 DEF Fits, UpdateFits, Same, SameFwd, Holds, Maps
<1>7. CASE c.kind = "delete"
  BY <1>2, <1>3, <1>7 DEF Fits, DeleteFits, Same, SameFwd
<1> QED
  BY <1>4, <1>5, <1>6, <1>7, VectorCallFacts DEF VectorKinds

\* The ids of r that a change from x, C to y, D is about.
Own(x, C, y, D, r) == Claims(x, C, r) \cup Claims(y, D, r)

SameCalls(C, D, r) == \A c : c.real # r => (c \in C <=> c \in D)

LEMMA ClaimsIn ==
  ASSUME NEW x, NEW C, NEW r
  PROVE  /\ r \in Claims(x, C, r) /\ resolve_internal(x, r) \in Claims(x, C, r)
         /\ \A c \in C : c.real = r => c.new \in Claims(x, C, r) /\ c.old \in Claims(x, C, r)
         /\ \A i \in Claims(x, C, r) : \/ i = r \/ i = resolve_internal(x, r)
                                       \/ \E c \in C : c.real = r /\ i \in {c.new, c.old}
  BY DEF Claims

\* A change from x with the calls C to y with the calls D that is about r
\* only; r may get ids that no other has.
Change(x, C, y, D, r) ==
  /\ x \in Index /\ y \in Index /\ r \in RealIds
  /\ C \subseteq VectorCall /\ D \subseteq VectorCall
  /\ Sound(x, C)
  /\ SameCalls(C, D, r)
  /\ Local(x, y, r, Own(x, C, y, D, r))
  /\ \A i \in Claims(y, D, r) :
        /\ i \in Nat /\ i < y.next
        /\ i \in Claims(x, C, r) \/ i >= x.next \/ \A q \in RealIds : q # r => i \notin Claims(x, C, q)

\* Such a change leaves the other real ids alone.
LEMMA OthersApart ==
  ASSUME NEW x, NEW C, NEW y, NEW D, NEW r, Change(x, C, y, D, r),
         NEW q \in RealIds, q # r
  PROVE  /\ Claims(y, D, q) = Claims(x, C, q)
         /\ Claims(x, C, q) \cap Own(x, C, y, D, r) = {}
         /\ \A i \in Claims(x, C, q) : i \in Nat /\ i < x.next /\ Same(x, y, i)
         /\ SameFwd(x, y, q)
         /\ resolve_internal(y, q) = resolve_internal(x, q)
         /\ is_alive(y, q) <=> is_alive(x, q)
         /\ Tidy(x, q) => Tidy(y, q)
         /\ Now(y, q) = Now(x, q)
<1>0. /\ x \in Index /\ y \in Index /\ r \in RealIds
      /\ C \subseteq VectorCall /\ D \subseteq VectorCall
      /\ Sound(x, C)
      /\ SameCalls(C, D, r)
      /\ Local(x, y, r, Own(x, C, y, D, r))
      /\ \A i \in Claims(y, D, r) :
            /\ i \in Nat /\ i < y.next
            /\ i \in Claims(x, C, r) \/ i >= x.next \/ \A s \in RealIds : s # r => i \notin Claims(x, C, s)
  BY DEF Change
<1>1. SameFwd(x, y, q)
  BY <1>0 DEF Local
<1>2. resolve_internal(y, q) = resolve_internal(x, q)
  BY <1>1 DEF SameFwd, resolve_internal
<1>3. \A c \in C \cup D : c.real = q => (c \in C <=> c \in D)
  BY <1>0 DEF SameCalls
<1>4. Claims(y, D, q) = Claims(x, C, q)
  BY <1>2, <1>3 DEF Claims
<1>5. \A i \in Claims(x, C, q) : i \in Nat
  <2>1. q \in Nat /\ resolve_internal(x, q) \in Nat
    BY <1>0, IdsAssumption, ResolveInternal
  <2>2. \A c \in C : c.new \in Nat /\ c.old \in Nat
    BY <1>0, VectorCallFacts
  <2> QED
    BY <2>1, <2>2, ClaimsIn
<1>6. x.next \in Nat
  BY <1>0, IndexFields
<1>7. \A i \in Claims(x, C, q) : i < x.next
  BY <1>0 DEF Sound
<1>8. Claims(x, C, q) \cap Claims(x, C, r) = {}
  BY <1>0 DEF Sound
<1>9. Claims(x, C, q) \cap Own(x, C, y, D, r) = {}
  BY <1>0, <1>5, <1>6, <1>7, <1>8 DEF Own
<1>10. \A i \in Claims(x, C, q) : Same(x, y, i)
  BY <1>0, <1>5, <1>9 DEF Local
<1>11. Same(x, y, q) /\ Same(x, y, resolve_internal(x, q))
  BY <1>10, ClaimsIn
<1> QED
  BY <1>1, <1>2, <1>4, <1>5, <1>7, <1>9, <1>10, <1>11, <1>0, SameCell

LEMMA CountedStep ==
  ASSUME NEW S, IsFiniteSet(S), NEW T, NEW r, \A q : q # r => (q \in S <=> q \in T)
  PROVE  /\ IsFiniteSet(T)
         /\ (r \in S <=> r \in T) => Cardinality(T) = Cardinality(S)
         /\ r \notin S /\ r \in T => Cardinality(T) = Cardinality(S) + 1
         /\ r \in S /\ r \notin T => Cardinality(T) = Cardinality(S) - 1
<1>1. CASE r \in S <=> r \in T
  <2>1. S = T
    BY <1>1
  <2> QED
    BY <2>1
<1>2. CASE r \notin S /\ r \in T
  <2>1. T = S \cup {r}
    BY <1>2
  <2> QED
    BY <1>2, <2>1, FS_AddElement
<1>3. CASE r \in S /\ r \notin T
  <2>1. T = S \ {r}
    BY <1>3
  <2>2. IsFiniteSet(T) /\ Cardinality(T) = Cardinality(S) - 1
    BY <1>3, <2>1, FS_RemoveElement
  <2> QED
    BY <1>3, <2>2
<1> QED
  BY <1>1, <1>2, <1>3

\* One is added when r comes to be counted, taken off when it no longer is.
Recount(x, C, y, D, r) ==
  /\ (r \in Counted(x, C) <=> r \in Counted(y, D)) => y.count = x.count
  /\ r \notin Counted(x, C) /\ r \in Counted(y, D) => y.count = x.count + 1
  /\ r \in Counted(x, C) /\ r \notin Counted(y, D) => y.count = x.count - 1

\* What is r's is in order after the change.
InOrder(x, C, y, D, r) ==
  /\ \A c, d \in D : c.real = r /\ d.real = r => c = d
  /\ \A c \in D : c.real = r => Fits(y, c)
  /\ (\A c \in D : c.real # r) => Tidy(y, r)
  /\ r \in DOMAIN y.fwd => y.fwd[r] \in DOMAIN y.rev /\ y.rev[y.fwd[r]] = r
  /\ \A i \in Own(x, C, y, D, r) : i \in DOMAIN y.vecs \ y.tomb => Placed(y, D, i)
  /\ Recount(x, C, y, D, r)

LEMMA SoundStep ==
  ASSUME NEW x, NEW C, NEW y, NEW D, NEW r, Change(x, C, y, D, r), InOrder(x, C, y, D, r)
  PROVE  Sound(y, D)
<1>b. /\ \A c, d \in D : c.real = r /\ d.real = r => c = d
      /\ \A c \in D : c.real = r => Fits(y, c)
      /\ (\A c \in D : c.real # r) => Tidy(y, r)
      /\ r \in DOMAIN y.fwd => y.fwd[r] \in DOMAIN y.rev /\ y.rev[y.fwd[r]] = r
      /\ \A i \in Own(x, C, y, D, r) : i \in DOMAIN y.vecs \ y.tomb => Placed(y, D, i)
      /\ Recount(x, C, y, D, r)
  BY DEF InOrder
<1>a. /\ x \in Index /\ y \in Index /\ r \in RealIds
      /\ C \subseteq VectorCall /\ D \subseteq VectorCall
      /\ Sound(x, C)
      /\ SameCalls(C, D, r)
      /\ Local(x, y, r, Own(x, C, y, D, r))
      /\ \A i \in Claims(y, D, r) :
            /\ i \in Nat /\ i < y.next
            /\ i \in Claims(x, C, r) \/ i >= x.next \/ \A q \in RealIds : q # r => i \notin Claims(x, C, q)
  BY DEF Change
<1> DEFINE own == Own(x, C, y, D, r)
<1>0. x.next \in Nat /\ y.next \in Nat /\ x.next <= y.next
      /\ IdsOf(x) \subseteq Nat /\ IdsOf(y) \subseteq Nat
  BY <1>a, <1>b, IndexFields DEF Local
<1>1. ASSUME NEW q \in RealIds, q # r
      PROVE  /\ Claims(y, D, q) = Claims(x, C, q)
             /\ Claims(x, C, q) \cap own = {}
             /\ \A i \in Claims(x, C, q) : i \in Nat /\ i < x.next /\ Same(x, y, i)
             /\ SameFwd(x, y, q)
             /\ resolve_internal(y, q) = resolve_internal(x, q)
             /\ is_alive(y, q) <=> is_alive(x, q)
             /\ Tidy(x, q) => Tidy(y, q)
  BY <1>a, <1>b, <1>1, OthersApart
<1>2. \A i \in own : i \in Nat /\ i < y.next
  <2>1. \A i \in Claims(x, C, r) : i \in Nat /\ i < x.next
    <3>1. r \in Nat /\ resolve_internal(x, r) \in Nat
      BY <1>a, <1>b, IdsAssumption, ResolveInternal
    <3>2. \A c \in C : c.new \in Nat /\ c.old \in Nat
      BY <1>a, <1>b, VectorCallFacts
    <3> QED
      BY <1>a, <1>b, <3>1, <3>2, ClaimsIn DEF Sound
  <2> QED
    BY <1>a, <1>b, <1>0, <2>1 DEF Own
<1>3. Reversed(y)
  <2> SUFFICES ASSUME NEW q \in DOMAIN y.fwd
               PROVE  y.fwd[q] \in DOMAIN y.rev /\ y.rev[y.fwd[q]] = q
    BY <1>a, <1>b DEF Reversed
  <2>1. CASE q = r
    BY <1>a, <1>b, <2>1
  <2>2. CASE q # r
    <3>1. q \in RealIds
      BY <1>a, <1>b, IndexFields, MapValues
    <3>2. SameFwd(x, y, q) /\ Claims(x, C, q) \cap own = {}
      BY <1>a, <1>b, <1>1, <2>2, <3>1
    <3>3. q \in DOMAIN x.fwd /\ x.fwd[q] = y.fwd[q]
      BY <1>a, <1>b, <3>2 DEF SameFwd
    <3>4. x.fwd[q] \in DOMAIN x.rev /\ x.rev[x.fwd[q]] = q
      BY <1>a, <1>b, <3>3 DEF Sound, Reversed
    <3>5. x.fwd[q] \notin own
      BY <1>a, <1>b, <3>2, <3>3, ClaimsIn DEF resolve_internal
    <3> QED
      BY <1>a, <1>b, <3>3, <3>4, <3>5 DEF Local
  <2> QED
    BY <1>a, <1>b, <2>1, <2>2
<1>4. ASSUME NEW c \in D, NEW d \in D, c.real = d.real
      PROVE  c = d
  <2>1. CASE c.real = r
    BY <1>a, <1>b, <1>4, <2>1
  <2>2. CASE c.real # r
    <3>1. c \in C /\ d \in C
      BY <1>a, <1>b, <1>4, <2>2 DEF SameCalls
    <3> QED
      BY <1>a, <1>b, <1>4, <3>1 DEF Sound
  <2> QED
    BY <1>a, <1>b, <2>1, <2>2
<1>5. ASSUME NEW p \in RealIds, NEW q \in RealIds, p # q
      PROVE  Claims(y, D, p) \cap Claims(y, D, q) = {}
  <2>1. Claims(y, D, r) \subseteq own
    BY <1>a, <1>b DEF Own
  <2>2. CASE p = r
    BY <1>a, <1>b, <1>1, <1>5, <2>1, <2>2
  <2>3. CASE q = r
    BY <1>a, <1>b, <1>1, <1>5, <2>1, <2>3
  <2>4. CASE p # r /\ q # r
    <3>1. Claims(y, D, p) = Claims(x, C, p) /\ Claims(y, D, q) = Claims(x, C, q)
      BY <1>a, <1>b, <1>1, <2>4
    <3> QED
      BY <1>a, <1>b, <1>5, <3>1 DEF Sound
  <2> QED
    BY <1>a, <1>b, <2>2, <2>3, <2>4
<1>6. ASSUME NEW q \in RealIds, NEW i \in Claims(y, D, q)
      PROVE  i < y.next
  <2>1. CASE q = r
    BY <1>a, <1>b, <2>1
  <2>2. CASE q # r
    <3>1. i \in Nat /\ i < x.next
      BY <1>a, <1>b, <1>1, <1>6, <2>2
    <3> QED
      BY <1>a, <1>b, <1>0, <3>1
  <2> QED
    BY <1>a, <1>b, <2>1, <2>2
<1>7. ASSUME NEW i \in DOMAIN y.vecs \cup y.tomb
      PROVE  i < y.next
  <2>1. i \in Nat
    BY <1>a, <1>b, <1>0 DEF IdsOf
  <2>2. CASE i \in own
    BY <1>a, <1>b, <1>2, <2>2
  <2>3. CASE i \notin own
    <3>1. i \in DOMAIN x.vecs \cup x.tomb
      BY <1>a, <1>b, <1>7, <2>1, <2>3 DEF Local, Same
    <3>2. i < x.next
      BY <1>a, <1>b, <3>1 DEF Sound
    <3> QED
      BY <1>a, <1>b, <1>0, <2>1, <3>2
  <2> QED
    BY <1>a, <1>b, <2>2, <2>3
<1>8. ASSUME NEW c \in D
      PROVE  Fits(y, c)
  <2>1. CASE c.real = r
    BY <1>a, <1>b, <2>1
  <2>2. CASE c.real # r
    <3>1. c \in C /\ c.real \in RealIds
      BY <1>a, <1>b, <2>2, VectorCallFacts DEF SameCalls
    <3>2. /\ c.real \in Claims(x, C, c.real) /\ resolve_internal(x, c.real) \in Claims(x, C, c.real)
          /\ c.new \in Claims(x, C, c.real) /\ c.old \in Claims(x, C, c.real)
      BY <1>a, <1>b, <3>1, ClaimsIn
    <3>3. SameFwd(x, y, c.real) /\ \A i \in Claims(x, C, c.real) : Same(x, y, i)
      BY <1>a, <1>b, <1>1, <2>2, <3>1
    <3>4. \A i \in {c.real, c.new, c.old, resolve_internal(x, c.real)} : Same(x, y, i)
      BY <1>a, <1>b, <3>2, <3>3
    <3>5. Fits(x, c)
      BY <1>a, <1>b, <3>1 DEF Sound
    <3> QED
      BY <1>a, <1>b, <3>1, <3>3, <3>4, <3>5, FitsFrame
  <2> QED
    BY <1>a, <1>b, <2>1, <2>2
<1>9. ASSUME NEW q \in RealIds, \A c \in D : c.real # q
      PROVE  Tidy(y, q)
  <2>1. CASE q = r
    BY <1>a, <1>b, <1>9, <2>1
  <2>2. CASE q # r
    <3>1. \A c \in C : c.real # q
      BY <1>a, <1>b, <1>9, <2>2 DEF SameCalls
    <3>2. Tidy(x, q)
      BY <1>a, <1>b, <3>1 DEF Sound
    <3> QED
      BY <1>a, <1>b, <1>1, <2>2, <3>2
  <2> QED
    BY <1>a, <1>b, <2>1, <2>2
<1>10. ASSUME NEW i \in DOMAIN y.vecs \ y.tomb
       PROVE  Placed(y, D, i)
  <2>1. CASE i \in own
    BY <1>a, <1>b, <1>10, <2>1
  <2>2. CASE i \notin own
    <3>1. i \in Nat
      BY <1>a, <1>b, <1>0 DEF IdsOf
    <3>2. i \in DOMAIN x.vecs \ x.tomb
      BY <1>a, <1>b, <1>10, <2>2, <3>1 DEF Local, Same
    <3>3. Placed(x, C, i)
      BY <1>a, <1>b, <3>2 DEF Sound
    <3>4. ASSUME NEW q \in RealIds, resolve_internal(x, q) = i
          PROVE  Placed(y, D, i)
      <4>1. q # r
        BY <1>a, <1>b, <2>2, <3>4, ClaimsIn DEF Own
      <4>2. resolve_internal(y, q) = i
        BY <1>a, <1>b, <1>1, <3>4, <4>1
      <4> QED
        BY <1>a, <1>b, <4>2 DEF Placed
    <3>5. ASSUME NEW c \in C, c.kind = "update",
                 (c.pc = "map" /\ c.new = i) \/ (c.pc = "tomb" /\ c.old = i)
          PROVE  Placed(y, D, i)
      <4>1. c.real # r
        BY <1>a, <1>b, <2>2, <3>5, ClaimsIn DEF Own
      <4>2. c \in D
        BY <1>a, <1>b, <4>1 DEF SameCalls
      <4> QED
        BY <1>a, <1>b, <3>5, <4>2 DEF Placed
    <3> QED
      BY <1>a, <1>b, <3>3, <3>4, <3>5 DEF Placed
  <2> QED
    BY <1>a, <1>b, <2>1, <2>2
<1>11. \A q : q # r => (q \in Counted(x, C) <=> q \in Counted(y, D))
  <2> SUFFICES ASSUME NEW q, q # r
               PROVE  q \in Counted(x, C) <=> q \in Counted(y, D)
    OBVIOUS
  <2>1. q \in RealIds => (is_alive(y, q) <=> is_alive(x, q))
    BY <1>a, <1>b, <1>1
  <2>2. (\E c \in C : Leaving(c) /\ c.real = q) <=> (\E c \in D : Leaving(c) /\ c.real = q)
    BY <1>a, <1>b DEF SameCalls
  <2> QED
    BY <1>a, <1>b, <2>1, <2>2 DEF Counted
<1>12. IsFiniteSet(Counted(y, D)) /\ y.count = Cardinality(Counted(y, D))
  <2>1. IsFiniteSet(Counted(x, C)) /\ x.count = Cardinality(Counted(x, C))
    BY <1>a, <1>b DEF Sound
  <2> QED
    BY <1>a, <1>b, <1>11, <2>1, CountedStep DEF Recount
<1> QED
  BY <1>a, <1>b, <1>3, <1>4, <1>5, <1>6, <1>7, <1>8, <1>9, <1>10, <1>12 DEF Sound

LEMMA InsertNodeAt ==
  ASSUME NEW x \in Index, NEW i, NEW v
  PROVE  LET y == insertNode(x, i, v)
         IN /\ y.tomb = x.tomb /\ y.fwd = x.fwd /\ y.rev = x.rev
            /\ y.next = x.next /\ y.count = x.count
            /\ Holds(y, i, v) /\ DOMAIN y.vecs = DOMAIN x.vecs \cup {i}
            /\ \A j : j # i => Same(x, y, j)
<1> DEFINE y == insertNode(x, i, v)
<1>1. /\ y.tomb = x.tomb /\ y.fwd = x.fwd /\ y.rev = x.rev
      /\ y.next = x.next /\ y.count = x.count /\ y.vecs = Set(x.vecs, i, v)
  BY DEF insertNode, Index
<1> HIDE DEF y
<1>2. Holds(y, i, v) /\ DOMAIN y.vecs = DOMAIN x.vecs \cup {i}
  BY <1>1 DEF Holds, Set
<1>3. \A j : j # i => Same(x, y, j)
  BY <1>1 DEF Same, Set
<1> QED
  BY <1>1, <1>2, <1>3 DEF y

LEMMA TombstoneAt ==
  ASSUME NEW x \in Index, NEW i
  PROVE  LET y == tombstone(x, i)
         IN /\ y.vecs = x.vecs /\ y.fwd = x.fwd /\ y.rev = x.rev
            /\ y.next = x.next /\ y.count = x.count
            /\ y.tomb = x.tomb \cup {i}
            /\ \A j : j # i => Same(x, y, j)
<1> DEFINE y == tombstone(x, i)
<1>1. /\ y.vecs = x.vecs /\ y.fwd = x.fwd /\ y.rev = x.rev
      /\ y.next = x.next /\ y.count = x.count /\ y.tomb = x.tomb \cup {i}
  BY DEF tombstone, Index
<1> HIDE DEF y
<1>2. \A j : j # i => Same(x, y, j)
  BY <1>1 DEF Same
<1> QED
  BY <1>1, <1>2 DEF y

LEMMA RecordMappingAt ==
  ASSUME NEW x \in Index, NEW r, NEW i
  PROVE  LET y == record_update_mapping(x, r, i)
         IN /\ y.vecs = x.vecs /\ y.tomb = x.tomb
            /\ y.next = x.next /\ y.count = x.count
            /\ Maps(y, r, i) /\ DOMAIN y.fwd = DOMAIN x.fwd \cup {r}
            /\ \A q : q # r => SameFwd(x, y, q)
            /\ i \in DOMAIN y.rev /\ y.rev[i] = r
            /\ \A j \in DOMAIN x.rev : j # i /\ ~Maps(x, r, j) => j \in DOMAIN y.rev /\ y.rev[j] = x.rev[j]
<1> DEFINE y == record_update_mapping(x, r, i)
           rest == IF r \in DOMAIN x.fwd THEN Without(x.rev, x.fwd[r]) ELSE x.rev
<1>1. /\ y.vecs = x.vecs /\ y.tomb = x.tomb /\ y.next = x.next /\ y.count = x.count
      /\ y.fwd = Set(x.fwd, r, i) /\ y.rev = Set(rest, i, r)
  BY DEF record_update_mapping, Index
<1>2. \A j \in DOMAIN x.rev : ~Maps(x, r, j) => j \in DOMAIN rest /\ rest[j] = x.rev[j]
  BY DEF Maps, Without
<1> HIDE DEF y, rest
<1>3. Maps(y, r, i) /\ DOMAIN y.fwd = DOMAIN x.fwd \cup {r}
  BY <1>1 DEF Maps, Set
<1>4. \A q : q # r => SameFwd(x, y, q)
  BY <1>1 DEF SameFwd, Set
<1>5. i \in DOMAIN y.rev /\ y.rev[i] = r
  BY <1>1 DEF Set
<1>6. \A j \in DOMAIN x.rev : j # i /\ ~Maps(x, r, j) => j \in DOMAIN y.rev /\ y.rev[j] = x.rev[j]
  BY <1>1, <1>2 DEF Set
<1> QED
  BY <1>1, <1>3, <1>4, <1>5, <1>6 DEF y

LEMMA ForgetMappingAt ==
  ASSUME NEW x \in Index, NEW r
  PROVE  LET y == forget_update_mapping(x, r)
         IN /\ y.vecs = x.vecs /\ y.tomb = x.tomb
            /\ y.next = x.next /\ y.count = x.count
            /\ r \notin DOMAIN y.fwd
            /\ \A q : q # r => SameFwd(x, y, q)
            /\ \A j \in DOMAIN x.rev : ~Maps(x, r, j) => j \in DOMAIN y.rev /\ y.rev[j] = x.rev[j]
<1> DEFINE y == forget_update_mapping(x, r)
           rest == IF r \in DOMAIN x.fwd THEN Without(x.rev, x.fwd[r]) ELSE x.rev
<1>1. /\ y.vecs = x.vecs /\ y.tomb = x.tomb /\ y.next = x.next /\ y.count = x.count
      /\ y.fwd = Without(x.fwd, r) /\ y.rev = rest
  BY DEF forget_update_mapping, Index
<1>2. \A j \in DOMAIN x.rev : ~Maps(x, r, j) => j \in DOMAIN rest /\ rest[j] = x.rev[j]
  BY DEF Maps, Without
<1> HIDE DEF y, rest
<1>3. r \notin DOMAIN y.fwd
  BY <1>1 DEF Without
<1>4. \A q : q # r => SameFwd(x, y, q)
  BY <1>1 DEF SameFwd, Without
<1> QED
  BY <1>1, <1>2, <1>3, <1>4 DEF y

LEMMA CountAt ==
  ASSUME NEW x \in Index, NEW d
  PROVE  LET y == [x EXCEPT !.count = d]
         IN /\ y.vecs = x.vecs /\ y.tomb = x.tomb /\ y.fwd = x.fwd /\ y.rev = x.rev
            /\ y.next = x.next /\ y.count = d
  BY DEF Index

LEMMA NextAt ==
  ASSUME NEW x \in Index, NEW d
  PROVE  LET y == [x EXCEPT !.next = d]
         IN /\ y.vecs = x.vecs /\ y.tomb = x.tomb /\ y.fwd = x.fwd /\ y.rev = x.rev
            /\ y.count = x.count /\ y.next = d
  BY DEF Index

\* What the call c on its id makes of the ids that are c.real's.
OwnIds(x, c) == {c.real, resolve_internal(x, c.real), c.new, c.old}

LEMMA ClaimsOne ==
  ASSUME NEW C, NEW c \in C, \A d \in C : d.real = c.real => d = c, NEW x
  PROVE  /\ Claims(x, C, c.real) = OwnIds(x, c)
         /\ c.real \in RealIds => (c.real \in Counted(x, C) <=> is_alive(x, c.real) \/ Leaving(c))
  BY DEF Claims, OwnIds, Counted

LEMMA ClaimsNone ==
  ASSUME NEW C, NEW r \in RealIds, \A d \in C : d.real # r, NEW x
  PROVE  /\ Claims(x, C, r) = {r, resolve_internal(x, r)}
         /\ r \in Counted(x, C) <=> is_alive(x, r)
  BY DEF Claims, Counted

\* The call c moves on to d and the index from x to y.
LEMMA MoveStep ==
  ASSUME NEW x \in Index, NEW y \in Index, NEW C \in SUBSET VectorCall, NEW c \in C, Sound(x, C),
         NEW d \in VectorCall, d.real = c.real, d.new = c.new, d.old = c.old,
         NEW D, D = (C \ {c}) \cup {d},
         y.next = x.next, Local(x, y, c.real, OwnIds(x, c)),
         resolve_internal(y, c.real) \in OwnIds(x, c),
         Fits(y, d),
         c.real \in DOMAIN y.fwd => y.fwd[c.real] \in DOMAIN y.rev /\ y.rev[y.fwd[c.real]] = c.real,
         \A i \in OwnIds(x, c) : i \in DOMAIN y.vecs \ y.tomb => Placed(y, D, i),
         (is_alive(x, c.real) \/ Leaving(c) <=> is_alive(y, c.real) \/ Leaving(d)) => y.count = x.count,
         ~(is_alive(x, c.real) \/ Leaving(c)) /\ (is_alive(y, c.real) \/ Leaving(d)) => y.count = x.count + 1,
         (is_alive(x, c.real) \/ Leaving(c)) /\ ~(is_alive(y, c.real) \/ Leaving(d)) => y.count = x.count - 1
  PROVE  Change(x, C, y, D, c.real) /\ Sound(y, D)
<1> DEFINE r == c.real
<1>1. r \in RealIds /\ D \subseteq VectorCall /\ d \in D
  BY VectorCallFacts
<1>2. \A e \in C : e.real = r => e = c
  BY DEF Sound
<1>3. \A e \in D : e.real = r => e = d
  BY <1>2
<1>4. SameCalls(C, D, r)
  BY DEF SameCalls
<1>5. Claims(x, C, r) = OwnIds(x, c)
  BY <1>2, ClaimsOne
<1>6. Claims(y, D, r) = OwnIds(y, d)
  <2>1. \A e \in D : e.real = d.real => e = d
    BY <1>3
  <2>2. Claims(y, D, d.real) = OwnIds(y, d)
    BY <1>1, <2>1, ClaimsOne
  <2> QED
    BY <2>2
<1>7. OwnIds(y, d) \subseteq OwnIds(x, c)
  BY DEF OwnIds
<1>8. Own(x, C, y, D, r) = OwnIds(x, c)
  BY <1>5, <1>6, <1>7 DEF Own
<1>9. \A i \in Claims(y, D, r) : i \in Nat /\ i < y.next /\ (i \in Claims(x, C, r) \/ i >= x.next)
  <2>1. r \in Nat /\ resolve_internal(x, r) \in Nat /\ c.new \in Nat /\ c.old \in Nat
    BY <1>1, IdsAssumption, ResolveInternal, VectorCallFacts
  <2>2. \A i \in OwnIds(x, c) : i \in Nat /\ i < x.next
    BY <1>1, <1>5, <2>1 DEF Sound, OwnIds
  <2> QED
    BY <1>5, <1>6, <1>7, <2>2
<1>10. Change(x, C, y, D, r)
  BY <1>1, <1>4, <1>8, <1>9 DEF Change
<1>11. /\ r \in Counted(x, C) <=> is_alive(x, r) \/ Leaving(c)
       /\ r \in Counted(y, D) <=> is_alive(y, r) \/ Leaving(d)
  BY <1>1, <1>2, <1>3, ClaimsOne
<1>12. Recount(x, C, y, D, r)
  BY <1>11 DEF Recount
<1>13. Sound(y, D)
  <2>1. \A e, f \in D : e.real = r /\ f.real = r => e = f
    BY <1>3
  <2>2. \A e \in D : e.real = r => Fits(y, e)
    BY <1>3
  <2>3. ~(\A e \in D : e.real # r)
    BY <1>1
  <2>4. \A i \in Own(x, C, y, D, r) : i \in DOMAIN y.vecs \ y.tomb => Placed(y, D, i)
    BY <1>8
  <2> HIDE DEF r
  <2>5. r \in DOMAIN y.fwd => y.fwd[r] \in DOMAIN y.rev /\ y.rev[y.fwd[r]] = r
    BY DEF r
  <2>6. InOrder(x, C, y, D, r)
    BY <1>12, <2>1, <2>2, <2>3, <2>4, <2>5 DEF InOrder
  <2> QED
    BY <1>10, <2>6, SoundStep
<1> QED
  BY <1>10, <1>13

\* The call c returns.
LEMMA ReturnStep ==
  ASSUME NEW x \in Index, NEW y \in Index, NEW C \in SUBSET VectorCall, NEW c \in C, Sound(x, C),
         y.next = x.next, Local(x, y, c.real, OwnIds(x, c)),
         resolve_internal(y, c.real) \in OwnIds(x, c),
         Tidy(y, c.real),
         c.real \in DOMAIN y.fwd => y.fwd[c.real] \in DOMAIN y.rev /\ y.rev[y.fwd[c.real]] = c.real,
         \A i \in OwnIds(x, c) : i \in DOMAIN y.vecs \ y.tomb => Placed(y, C \ {c}, i),
         (is_alive(x, c.real) \/ Leaving(c) <=> is_alive(y, c.real)) => y.count = x.count,
         ~(is_alive(x, c.real) \/ Leaving(c)) /\ is_alive(y, c.real) => y.count = x.count + 1,
         (is_alive(x, c.real) \/ Leaving(c)) /\ ~is_alive(y, c.real) => y.count = x.count - 1
  PROVE  Change(x, C, y, C \ {c}, c.real) /\ Sound(y, C \ {c})
<1> DEFINE r == c.real
           D == C \ {c}
<1>1. r \in RealIds /\ D \subseteq VectorCall
  BY VectorCallFacts
<1>2. \A e \in C : e.real = r => e = c
  BY DEF Sound
<1>3. \A e \in D : e.real # r
  BY <1>2
<1>4. SameCalls(C, D, r)
  BY DEF SameCalls
<1>5. Claims(x, C, r) = OwnIds(x, c)
  BY <1>2, ClaimsOne
<1> HIDE DEF D
<1>6. Claims(y, D, r) = {r, resolve_internal(y, r)}
  BY <1>1, <1>3, ClaimsNone
<1>7. Claims(y, D, r) \subseteq OwnIds(x, c)
  BY <1>6 DEF OwnIds
<1>8. Own(x, C, y, D, r) = OwnIds(x, c)
  BY <1>5, <1>7 DEF Own
<1>9. \A i \in Claims(y, D, r) : i \in Nat /\ i < y.next /\ (i \in Claims(x, C, r) \/ i >= x.next)
  <2>1. r \in Nat /\ resolve_internal(x, r) \in Nat /\ c.new \in Nat /\ c.old \in Nat
    BY <1>1, IdsAssumption, ResolveInternal, VectorCallFacts
  <2>2. \A i \in OwnIds(x, c) : i \in Nat /\ i < x.next
    BY <1>1, <1>5, <2>1 DEF Sound, OwnIds
  <2> QED
    BY <1>5, <1>7, <2>2
<1>10. Change(x, C, y, D, r)
  BY <1>1, <1>4, <1>8, <1>9 DEF Change
<1>11. /\ r \in Counted(x, C) <=> is_alive(x, r) \/ Leaving(c)
       /\ r \in Counted(y, D) <=> is_alive(y, r)
  BY <1>1, <1>2, <1>3, ClaimsOne, ClaimsNone
<1>12. Recount(x, C, y, D, r)
  BY <1>11 DEF Recount
<1>a. \A i \in Own(x, C, y, D, r) : i \in DOMAIN y.vecs \ y.tomb => Placed(y, D, i)
  BY <1>8 DEF D
<1>13. Sound(y, D)
  BY <1>1, <1>3, <1>a, <1>10, <1>12, SoundStep DEF InOrder
<1> QED
  BY <1>10, <1>13 DEF D

\* A call begins on an id that no other call holds.
LEMMA StartStep ==
  ASSUME NEW x \in Index, NEW y \in Index, NEW C \in SUBSET VectorCall, Sound(x, C),
         NEW c \in VectorCall, \A d \in C : d.real # c.real,
         y.vecs = x.vecs, y.tomb = x.tomb, y.fwd = x.fwd, y.rev = x.rev, y.count = x.count,
         y.next >= x.next, c.new < y.next,
         c.new \in {c.real, resolve_internal(x, c.real)} \/ c.new >= x.next,
         c.old = resolve_internal(x, c.real),
         c.pc = "log", Fits(y, c)
  PROVE  Change(x, C, y, C \cup {c}, c.real) /\ Sound(y, C \cup {c})
<1> DEFINE r == c.real
           D == C \cup {c}
<1>1. r \in RealIds /\ D \subseteq VectorCall /\ c \in D /\ c.new \in Nat
  BY VectorCallFacts
<1>2. \A e \in D : e.real = r => e = c
  OBVIOUS
<1>4. SameCalls(C, D, r)
  BY DEF SameCalls
<1>5. Claims(x, C, r) = {r, resolve_internal(x, r)}
  BY <1>1, ClaimsNone
<1> HIDE DEF D
<1>6. Claims(y, D, r) = OwnIds(y, c)
  BY <1>1, <1>2, ClaimsOne
<1>7. resolve_internal(y, r) = resolve_internal(x, r) /\ (is_alive(y, r) <=> is_alive(x, r))
  BY DEF resolve_internal, is_alive
<1>9. \A i \in Claims(y, D, r) : i \in Nat /\ i < y.next /\ (i \in Claims(x, C, r) \/ i >= x.next)
  <2>1. r \in Nat /\ resolve_internal(x, r) \in Nat /\ x.next \in Nat /\ y.next \in Nat
    BY <1>1, IdsAssumption, ResolveInternal, IndexFields
  <2>2. r < x.next /\ resolve_internal(x, r) < x.next
    BY <1>1, <1>5 DEF Sound
  <2> QED
    BY <1>1, <1>5, <1>6, <1>7, <2>1, <2>2 DEF OwnIds
<1>b. \A i : Same(x, y, i)
  BY DEF Same
<1>c. \A q : SameFwd(x, y, q)
  BY DEF SameFwd
<1>d. x.next <= y.next
  BY IndexFields
<1>e. Local(x, y, r, Own(x, C, y, D, r))
  BY <1>b, <1>c, <1>d DEF Local
<1>10. Change(x, C, y, D, r)
  BY <1>1, <1>4, <1>9, <1>e DEF Change
<1>11. /\ r \in Counted(x, C) <=> is_alive(x, r)
       /\ r \in Counted(y, D) <=> is_alive(y, r) \/ Leaving(c)
  BY <1>1, <1>2, ClaimsOne, ClaimsNone
<1>12. Recount(x, C, y, D, r)
  BY <1>7, <1>11 DEF Recount, Leaving
<1>13. \A i \in DOMAIN y.vecs \ y.tomb : Placed(y, D, i)
  <2>1. \A q : resolve_internal(x, q) = resolve_internal(y, q)
    BY DEF resolve_internal
  <2>2. C \subseteq D
    BY DEF D
  <2> QED
    BY <2>1, <2>2 DEF Sound, Placed
<1>14. r \in DOMAIN y.fwd => y.fwd[r] \in DOMAIN y.rev /\ y.rev[y.fwd[r]] = r
  BY DEF Sound, Reversed
<1>15. Sound(y, D)
  BY <1>1, <1>2, <1>10, <1>12, <1>13, <1>14, SoundStep DEF InOrder
<1> QED
  BY <1>10, <1>15 DEF D

\* The ids of a call on a sound index.
LEMMA CallIds ==
  ASSUME NEW x \in Index, NEW C \in SUBSET VectorCall, NEW c \in C, Sound(x, C)
  PROVE  /\ c.real \in RealIds /\ c.real \in Nat /\ ~is_update_id(c.real)
         /\ c.new \in Nat /\ c.old \in Nat
         /\ Fits(x, c)
         /\ c.kind \in {"reinsert", "update"} => c.new # c.real /\ is_update_id(c.new)
         /\ \A r \in RealIds : r # c.real => resolve_internal(x, r) \notin OwnIds(x, c)
<1>1. c.real \in RealIds /\ c.new \in Nat /\ c.old \in Nat
  BY VectorCallFacts
<1>2. c.real \in Nat /\ ~is_update_id(c.real)
  <2>1. c.real \in Nat /\ UpdateBase \in Nat /\ c.real < UpdateBase
    BY <1>1, IdsAssumption
  <2> QED
    BY <2>1 DEF is_update_id
<1>3. c.kind \in {"reinsert", "update"} => c.new # c.real /\ is_update_id(c.new)
  BY <1>2 DEF VectorCall, InsertCall, VersionCall, DeleteCall, UpdateIds
<1>4. ASSUME NEW r \in RealIds, r # c.real
      PROVE  resolve_internal(x, r) \notin OwnIds(x, c)
  <2>1. Claims(x, C, c.real) = OwnIds(x, c)
    BY ClaimsOne DEF Sound
  <2>2. Claims(x, C, r) \cap Claims(x, C, c.real) = {}
    BY <1>1, <1>4 DEF Sound
  <2> QED
    BY <2>1, <2>2, ClaimsIn
<1> QED
  BY <1>1, <1>2, <1>3, <1>4 DEF Sound

\* A call that moves on without touching the index.
LEMMA QuietMove ==
  ASSUME NEW x \in Index, NEW C \in SUBSET VectorCall, NEW c \in C, Sound(x, C),
         NEW d \in VectorCall, d.real = c.real, d.new = c.new, d.old = c.old, d.kind = c.kind,
         NEW D, D = (C \ {c}) \cup {d},
         Fits(x, d), Leaving(d) <=> Leaving(c),
         c.kind = "update" => (c.pc = "map" <=> d.pc = "map") /\ (c.pc = "tomb" <=> d.pc = "tomb")
  PROVE  Change(x, C, x, D, c.real) /\ Sound(x, D)
<1>1. Local(x, x, c.real, OwnIds(x, c)) /\ resolve_internal(x, c.real) \in OwnIds(x, c)
  BY IndexFields DEF Local, Same, SameFwd, OwnIds
<1>2. c.real \in DOMAIN x.fwd => x.fwd[c.real] \in DOMAIN x.rev /\ x.rev[x.fwd[c.real]] = c.real
  BY DEF Sound, Reversed
<1>3. \A i \in DOMAIN x.vecs \ x.tomb : Placed(x, D, i)
  BY DEF Sound, Placed
<1> QED
  BY <1>1, <1>2, <1>3, MoveStep

\* A call returns without touching the index.
LEMMA QuietReturn ==
  ASSUME NEW x \in Index, NEW C \in SUBSET VectorCall, NEW c \in C, Sound(x, C),
         Tidy(x, c.real), ~Leaving(c), c.kind = "update" => c.pc \notin {"map", "tomb"}
  PROVE  Change(x, C, x, C \ {c}, c.real) /\ Sound(x, C \ {c})
<1>1. Local(x, x, c.real, OwnIds(x, c)) /\ resolve_internal(x, c.real) \in OwnIds(x, c)
  BY IndexFields DEF Local, Same, SameFwd, OwnIds
<1>2. c.real \in DOMAIN x.fwd => x.fwd[c.real] \in DOMAIN x.rev /\ x.rev[x.fwd[c.real]] = c.real
  BY DEF Sound, Reversed
<1>3. \A i \in DOMAIN x.vecs \ x.tomb : Placed(x, C \ {c}, i)
  BY DEF Sound, Placed
<1> QED
  BY <1>1, <1>2, <1>3, ReturnStep

LEMMA InsertNodeSound ==
  ASSUME NEW x \in Index, NEW C \in SUBSET VectorCall, NEW c \in C, Sound(x, C), c.pc = "node",
         NEW y \in Index,
         y = IF c.kind = "update" THEN insertNode(x, c.new, c.vec)
             ELSE [insertNode(x, c.new, c.vec) EXCEPT !.count = @ + 1],
         NEW d, d = [c EXCEPT !.pc = IF c.kind = "update" THEN "map" ELSE "row"],
         NEW D, D = (C \ {c}) \cup {d}
  PROVE  Change(x, C, y, D, c.real) /\ Sound(y, D)
<1> DEFINE r == c.real
           z == insertNode(x, c.new, c.vec)
<1>1. /\ r \in RealIds /\ r \in Nat /\ c.new \in Nat /\ Fits(x, c)
      /\ c.kind \in {"reinsert", "update"} => c.new # c.real /\ is_update_id(c.new)
      /\ \A q \in RealIds : q # r => resolve_internal(x, q) \notin OwnIds(x, c)
  BY CallIds
<1>2. c \in InsertCall \cup VersionCall
  BY DEF VectorCall, DeleteCall
<1>3. /\ d \in VectorCall /\ d.real = r /\ d.new = c.new /\ d.old = c.old /\ d.kind = c.kind
      /\ d.vec = c.vec /\ d.pc = IF c.kind = "update" THEN "map" ELSE "row"
  BY <1>2 DEF InsertCall, VersionCall, VectorCall
<1>4. /\ z.tomb = x.tomb /\ z.fwd = x.fwd /\ z.rev = x.rev
      /\ z.next = x.next /\ z.count = x.count
      /\ Holds(z, c.new, c.vec) /\ DOMAIN z.vecs = DOMAIN x.vecs \cup {c.new}
      /\ \A j : j # c.new => Same(x, z, j)
  BY InsertNodeAt
<1>a. z \in Index
  BY <1>1, <1>2, InsertNodeIndex DEF InsertCall, VersionCall
<1> HIDE DEF z
<1>5. /\ y.tomb = x.tomb /\ y.fwd = x.fwd /\ y.rev = x.rev /\ y.next = x.next
      /\ y.count = IF c.kind = "update" THEN x.count ELSE x.count + 1
      /\ Holds(y, c.new, c.vec) /\ DOMAIN y.vecs = DOMAIN x.vecs \cup {c.new}
      /\ \A j : j # c.new => Same(x, y, j)
  <2>1. y = IF c.kind = "update" THEN z ELSE [z EXCEPT !.count = z.count + 1]
    BY DEF z
  <2>2. y.vecs = z.vecs /\ y.tomb = z.tomb /\ y.fwd = z.fwd /\ y.rev = z.rev /\ y.next = z.next
        /\ y.count = IF c.kind = "update" THEN z.count ELSE z.count + 1
    <3>1. CASE c.kind = "update"
      BY <2>1, <3>1
    <3>2. CASE c.kind # "update"
      <4>1. y = [z EXCEPT !.count = z.count + 1]
        BY <2>1, <3>2
      <4> QED
        BY <1>a, <3>2, <4>1 DEF Index
    <3> QED
      BY <3>1, <3>2
  <2> QED
    BY <1>4, <2>2 DEF Holds, Same
<1>6. resolve_internal(y, r) = resolve_internal(x, r)
  BY <1>5 DEF resolve_internal
<1>7. Local(x, y, r, OwnIds(x, c)) /\ resolve_internal(y, r) \in OwnIds(x, c)
  BY <1>5, <1>6, IndexFields DEF Local, SameFwd, OwnIds
<1>8. Fits(y, d) /\ (c.kind = "update" <=> is_alive(x, r)) /\ is_alive(y, r)
  <2>1. CASE c.kind = "insert"
    BY <1>1, <1>3, <1>5, <2>1 DEF Fits, InsertFits, Holds, is_alive, resolve_internal
  <2>2. CASE c.kind = "reinsert"
    <3>1. /\ c.old = r /\ c.new \notin x.tomb /\ r \in x.tomb /\ r \in DOMAIN x.vecs
          /\ r \in DOMAIN x.fwd /\ x.fwd[r] = c.new /\ c.new \notin DOMAIN x.vecs
      BY <1>1, <2>2 DEF Fits, ReinsertFits, Maps
    <3>2. ReinsertFits(y, d)
      BY <1>3, <1>5, <2>2, <3>1 DEF ReinsertFits, Maps
    <3>3. resolve_internal(x, r) = c.new
      BY <3>1 DEF resolve_internal
    <3>4. ~is_alive(x, r) /\ is_alive(y, r)
      BY <1>5, <1>6, <3>1, <3>3 DEF is_alive, Holds
    <3> QED
      BY <1>3, <2>2, <3>2, <3>4 DEF Fits
  <2>3. CASE c.kind = "update"
    <3>1. /\ resolve_internal(x, r) = c.old /\ is_alive(x, r) /\ Tidy(x, r)
          /\ c.new \notin x.tomb /\ c.old # c.new /\ c.new # r
      BY <1>1, <2>3 DEF Fits, UpdateFits
    <3>2. SameFwd(x, y, r) /\ Same(x, y, r) /\ Same(x, y, resolve_internal(x, r))
      BY <1>5, <3>1 DEF SameFwd
    <3>3. is_alive(y, r) /\ Tidy(y, r)
      BY <1>1, <3>1, <3>2, SameCell
    <3>4. UpdateFits(y, d)
      BY <1>3, <1>5, <1>6, <2>3, <3>1, <3>3 DEF UpdateFits
    <3> QED
      BY <1>3, <2>3, <3>1, <3>3, <3>4 DEF Fits
  <2> QED
    BY <1>2, <2>1, <2>2, <2>3 DEF InsertCall, VersionCall
<1>9. r \in DOMAIN y.fwd => y.fwd[r] \in DOMAIN y.rev /\ y.rev[y.fwd[r]] = r
  BY <1>5 DEF Sound, Reversed
<1>10. ASSUME NEW i \in OwnIds(x, c), i \in DOMAIN y.vecs \ y.tomb
       PROVE  Placed(y, D, i)
  <2>1. CASE i = c.new
    <3>1. CASE c.kind = "update"
      BY <1>3, <2>1, <3>1 DEF Placed
    <3>2. CASE c.kind # "update"
      <4>1. resolve_internal(x, r) = c.new
        BY <1>1, <1>2, <3>2 DEF Fits, InsertFits, ReinsertFits, Maps, resolve_internal, InsertCall, VersionCall
      <4> QED
        BY <1>1, <1>6, <2>1, <4>1 DEF Placed
    <3> QED
      BY <3>1, <3>2
  <2>2. CASE i # c.new
    <3>1. i \in DOMAIN x.vecs \ x.tomb
      BY <1>5, <1>10, <2>2
    <3>2. Placed(x, C, i)
      BY <3>1 DEF Sound
    <3>3. \A q : resolve_internal(x, q) = resolve_internal(y, q)
      BY <1>5 DEF resolve_internal
    <3> QED
      BY <3>2, <3>3 DEF Placed
  <2> QED
    BY <2>1, <2>2
<1>11. ~Leaving(c) /\ ~Leaving(d)
  BY <1>3 DEF Leaving
<1> QED
  BY <1>3, <1>5, <1>7, <1>8, <1>9, <1>10, <1>11, MoveStep, ZenonT(60)

LEMMA RecordMappingSound ==
  ASSUME NEW x \in Index, NEW C \in SUBSET VectorCall, NEW c \in C, Sound(x, C), c.pc = "map",
         NEW y, y = record_update_mapping(x, c.real, c.new),
         NEW d, d = [c EXCEPT !.pc = IF c.kind = "update" THEN "tomb" ELSE "node"],
         NEW D, D = (C \ {c}) \cup {d}
  PROVE  Change(x, C, y, D, c.real) /\ Sound(y, D)
<1> DEFINE r == c.real
<1>1. /\ r \in RealIds /\ r \in Nat /\ c.new \in Nat /\ Fits(x, c)
      /\ c.kind \in {"reinsert", "update"} => c.new # c.real /\ is_update_id(c.new)
      /\ \A q \in RealIds : q # r => resolve_internal(x, q) \notin OwnIds(x, c)
  BY CallIds
<1>2. c \in VersionCall
  BY DEF VectorCall, DeleteCall, InsertCall
<1>3. /\ d \in VectorCall /\ d.real = r /\ d.new = c.new /\ d.old = c.old /\ d.kind = c.kind
      /\ d.vec = c.vec /\ d.pc = IF c.kind = "update" THEN "tomb" ELSE "node"
  BY <1>2 DEF VersionCall, VectorCall
<1>4. /\ y.vecs = x.vecs /\ y.tomb = x.tomb
      /\ y.next = x.next /\ y.count = x.count
      /\ Maps(y, r, c.new) /\ DOMAIN y.fwd = DOMAIN x.fwd \cup {r}
      /\ \A q : q # r => SameFwd(x, y, q)
      /\ c.new \in DOMAIN y.rev /\ y.rev[c.new] = r
      /\ \A j \in DOMAIN x.rev : j # c.new /\ ~Maps(x, r, j) => j \in DOMAIN y.rev /\ y.rev[j] = x.rev[j]
  BY RecordMappingAt
<1>5. y \in Index
  BY <1>1, <1>2, RecordMappingIndex DEF VersionCall
<1> HIDE DEF r
<1>6. resolve_internal(y, r) = c.new
  BY <1>4 DEF resolve_internal, Maps
<1>7. Local(x, y, r, OwnIds(x, c)) /\ c.new \in OwnIds(x, c) /\ c.old \in OwnIds(x, c)
  <2>1. \A j : Maps(x, r, j) => j \in OwnIds(x, c)
    BY DEF Maps, OwnIds, resolve_internal, r
  <2>2. c.new \in OwnIds(x, c) /\ c.old \in OwnIds(x, c)
    BY DEF OwnIds
  <2>3. \A j : Same(x, y, j)
    BY <1>4 DEF Same
  <2>4. \A j \in DOMAIN x.rev \ OwnIds(x, c) : j \in DOMAIN y.rev /\ y.rev[j] = x.rev[j]
    BY <1>4, <2>1, <2>2
  <2>5. x.next <= y.next
    BY <1>4, IndexFields
  <2> QED
    BY <1>4, <2>2, <2>3, <2>4, <2>5 DEF Local
<1>8. Fits(y, d) /\ (is_alive(x, r) <=> is_alive(y, r))
  <2>1. CASE c.kind = "reinsert"
    <3>1. /\ c.old = r /\ c.new \notin x.tomb /\ r \in x.tomb /\ r \in DOMAIN x.vecs
          /\ r \notin DOMAIN x.fwd /\ c.new \notin DOMAIN x.vecs
      BY <2>1, <1>1 DEF Fits, ReinsertFits, r
    <3>2. ReinsertFits(y, d)
      BY <1>3, <1>4, <2>1, <3>1 DEF ReinsertFits
    <3>3. ~is_alive(x, r) /\ ~is_alive(y, r)
      BY <1>4, <1>6, <3>1 DEF is_alive, resolve_internal
    <3> QED
      BY <1>3, <2>1, <3>2, <3>3 DEF Fits
  <2>2. CASE c.kind = "update"
    <3>1. /\ c.old # c.new /\ c.new \notin x.tomb /\ resolve_internal(x, r) = c.old
          /\ is_alive(x, r) /\ Tidy(x, r) /\ Holds(x, c.new, c.vec)
      BY <2>2, <1>1 DEF Fits, UpdateFits, r
    <3>2. c.old \in DOMAIN x.vecs /\ c.old \notin x.tomb
      BY <3>1 DEF is_alive
    <3>3. c.old = r \/ (r \in x.tomb /\ r \in DOMAIN x.vecs)
      BY <3>1 DEF Tidy, resolve_internal
    <3>4. Holds(y, c.new, c.vec)
      BY <1>4, <3>1 DEF Holds
    <3>5. UpdateFits(y, d)
      BY <1>3, <1>4, <2>2, <3>1, <3>2, <3>3, <3>4 DEF UpdateFits
    <3>6. is_alive(y, r)
      BY <1>4, <1>6, <3>1, <3>4 DEF is_alive, Holds
    <3> QED
      BY <1>3, <2>2, <3>1, <3>5, <3>6 DEF Fits
  <2> QED
    BY <1>2, <2>1, <2>2 DEF VersionCall
<1>9. y.fwd[r] \in DOMAIN y.rev /\ y.rev[y.fwd[r]] = r
  BY <1>4 DEF Maps
<1>10. ASSUME NEW i \in OwnIds(x, c), i \in DOMAIN y.vecs \ y.tomb
       PROVE  Placed(y, D, i)
  <2>1. CASE i = c.new
    BY <1>1, <1>6, <2>1 DEF Placed, r
  <2>2. CASE i # c.new
    <3>1. i \in DOMAIN x.vecs \ x.tomb
      BY <1>4, <1>10
    <3>2. CASE c.kind = "update"
      <4>1. resolve_internal(x, r) = c.old
        BY <1>1, <3>2 DEF Fits, UpdateFits, r
      <4>2. i = c.old \/ i = r
        BY <1>10, <2>2, <4>1 DEF OwnIds, r
      <4>3. i = c.old
        <5>1. CASE r \in DOMAIN x.fwd
          <6>1. r \in x.tomb
            BY <1>1, <3>2, <5>1 DEF Fits, UpdateFits, Tidy, r
          <6> QED
            BY <3>1, <4>2, <6>1
        <5>2. CASE r \notin DOMAIN x.fwd
          BY <4>1, <4>2, <5>2 DEF resolve_internal
        <5> QED
          BY <5>1, <5>2
      <4> QED
        BY <1>3, <3>2, <4>3 DEF Placed
    <3>3. CASE c.kind = "reinsert"
      <4>1. c.old = r /\ r \in x.tomb /\ r \notin DOMAIN x.fwd
        BY <1>1, <3>3 DEF Fits, ReinsertFits, r
      <4>2. i = r
        BY <1>10, <2>2, <4>1 DEF OwnIds, r, resolve_internal
      <4> QED
        BY <3>1, <4>1, <4>2
    <3> QED
      BY <1>2, <3>2, <3>3 DEF VersionCall
  <2> QED
    BY <2>1, <2>2
<1>11. ~Leaving(c) /\ ~Leaving(d)
  BY <1>2, <1>3 DEF Leaving, VersionCall
<1>12. resolve_internal(y, r) \in OwnIds(x, c)
  BY <1>6, <1>7
<1> USE DEF r
<1>13. y.fwd[c.real] \in DOMAIN y.rev /\ y.rev[y.fwd[c.real]] = c.real
  BY <1>9
<1>14. /\ y.next = x.next /\ y.count = x.count /\ d \in VectorCall /\ d.real = c.real
       /\ d.new = c.new /\ d.old = c.old
       /\ (is_alive(x, c.real) \/ Leaving(c) <=> is_alive(y, c.real) \/ Leaving(d))
  BY <1>3, <1>4, <1>8, <1>11
<1>15. /\ Local(x, y, c.real, OwnIds(x, c)) /\ resolve_internal(y, c.real) \in OwnIds(x, c)
       /\ Fits(y, d)
       /\ \A i \in OwnIds(x, c) : i \in DOMAIN y.vecs \ y.tomb => Placed(y, D, i)
  BY <1>7, <1>8, <1>10, <1>12
<1> QED
  BY <1>5, <1>13, <1>14, <1>15, MoveStep

LEMMA TombstoneSound ==
  ASSUME NEW x \in Index, NEW C \in SUBSET VectorCall, NEW c \in C, Sound(x, C), c.pc = "tomb",
         NEW y, y = tombstone(x, c.old),
         NEW d, d = [c EXCEPT !.pc = IF c.kind = "update" /\ c.arg = Absent THEN "read"
                                     ELSE IF c.kind = "delete" THEN "drop" ELSE "row"],
         NEW D, D = (C \ {c}) \cup {d}
  PROVE  Change(x, C, y, D, c.real) /\ Sound(y, D)
<1> DEFINE r == c.real
<1>1. /\ r \in RealIds /\ r \in Nat /\ c.new \in Nat /\ c.old \in Nat /\ Fits(x, c)
      /\ \A q \in RealIds : q # r => resolve_internal(x, q) \notin OwnIds(x, c)
  BY CallIds
<1>2. c \in VersionCall \cup DeleteCall
  BY DEF VectorCall, InsertCall
<1>3. /\ d \in VectorCall /\ d.real = r /\ d.new = c.new /\ d.old = c.old /\ d.kind = c.kind
      /\ d.vec = c.vec
      /\ d.pc = IF c.kind = "update" /\ c.arg = Absent THEN "read"
                ELSE IF c.kind = "delete" THEN "drop" ELSE "row"
      /\ c.kind = "delete" => (d.alive = c.alive /\ c.alive \in BOOLEAN)
  <2>1. CASE c \in VersionCall
    BY <2>1 DEF VersionCall, VectorCall
  <2>2. CASE c \in DeleteCall
    BY <2>2 DEF DeleteCall, VectorCall
  <2> QED
    BY <1>2, <2>1, <2>2
<1>4. /\ y.vecs = x.vecs /\ y.fwd = x.fwd /\ y.rev = x.rev
      /\ y.next = x.next /\ y.count = x.count
      /\ y.tomb = x.tomb \cup {c.old}
      /\ \A j : j # c.old => Same(x, y, j)
  BY TombstoneAt
<1>5. y \in Index
  BY <1>1, TombstoneIndex
<1> HIDE DEF r
<1>6. resolve_internal(y, r) = resolve_internal(x, r)
  BY <1>4 DEF resolve_internal
<1>7. Local(x, y, r, OwnIds(x, c)) /\ c.new \in OwnIds(x, c) /\ c.old \in OwnIds(x, c)
      /\ resolve_internal(y, r) \in OwnIds(x, c)
  <2>1. c.new \in OwnIds(x, c) /\ c.old \in OwnIds(x, c) /\ resolve_internal(x, r) \in OwnIds(x, c)
    BY DEF OwnIds, r
  <2>2. \A q : SameFwd(x, y, q)
    BY <1>4 DEF SameFwd
  <2>3. x.next <= y.next
    BY <1>4, IndexFields
  <2> QED
    BY <1>4, <1>6, <2>1, <2>2, <2>3 DEF Local
<1>8. Fits(y, d) /\ (is_alive(x, r) \/ Leaving(c) <=> is_alive(y, r) \/ Leaving(d))
  <2>1. CASE c.kind = "update"
    <3>1. /\ c.old # c.new /\ c.new \notin x.tomb /\ Holds(x, c.new, c.vec) /\ Maps(x, r, c.new)
          /\ c.old \in DOMAIN x.vecs /\ (c.old = r \/ (r \in x.tomb /\ r \in DOMAIN x.vecs))
      BY <2>1, <1>1 DEF Fits, UpdateFits, r
    <3>2. /\ Holds(y, c.new, c.vec) /\ Maps(y, r, c.new) /\ c.new \notin y.tomb
          /\ c.old \in y.tomb /\ r \in y.tomb /\ r \in DOMAIN y.vecs
      BY <1>4, <3>1 DEF Holds, Maps
    <3>3. UpdateFits(y, d)
      BY <1>3, <2>1, <3>1, <3>2 DEF UpdateFits
    <3>4. is_alive(x, r) /\ is_alive(y, r)
      BY <1>6, <3>1, <3>2 DEF is_alive, Holds, Maps, resolve_internal
    <3> QED
      BY <1>3, <2>1, <3>3, <3>4 DEF Fits
  <2>2. CASE c.kind = "delete"
    <3>1. /\ c.new = c.old /\ resolve_internal(x, r) = c.old /\ c.old \in DOMAIN x.vecs
          /\ Tidy(x, r) /\ c.alive = (c.old \notin x.tomb)
      BY <2>2, <1>1 DEF Fits, DeleteFits, r
    <3>2. c.old = r \/ (r \in DOMAIN x.fwd /\ r \in x.tomb /\ r \in DOMAIN x.vecs)
      BY <3>1 DEF Tidy, resolve_internal
    <3>3. c.old \in y.tomb /\ r \in y.tomb /\ r \in DOMAIN y.vecs
      BY <1>4, <3>1, <3>2
    <3>4. c.alive \/ r \notin DOMAIN y.fwd
      BY <1>4, <3>1 DEF Tidy, is_alive
    <3>5. DeleteFits(y, d)
      BY <1>3, <1>4, <1>6, <2>2, <3>1, <3>3, <3>4 DEF DeleteFits
    <3>6. is_alive(x, r) <=> c.alive
      BY <3>1 DEF is_alive
    <3>7. ~is_alive(y, r)
      BY <1>6, <3>1, <3>3 DEF is_alive
    <3>8. ~Leaving(c) /\ (Leaving(d) <=> c.alive)
      BY <1>3, <2>2 DEF Leaving
    <3> QED
      BY <1>3, <2>2, <3>5, <3>6, <3>7, <3>8 DEF Fits
  <2>3. c.kind # "reinsert"
    BY <1>1 DEF Fits, ReinsertFits
  <2> QED
    BY <1>2, <2>1, <2>2, <2>3 DEF VersionCall, DeleteCall
<1>9. r \in DOMAIN y.fwd => y.fwd[r] \in DOMAIN y.rev /\ y.rev[y.fwd[r]] = r
  BY <1>4 DEF Sound, Reversed
<1>10. ASSUME NEW i \in OwnIds(x, c), i \in DOMAIN y.vecs \ y.tomb
       PROVE  Placed(y, D, i)
  <2>1. i \in DOMAIN x.vecs \ x.tomb /\ i # c.old
    BY <1>4, <1>10
  <2>2. Placed(x, C, i)
    BY <2>1 DEF Sound
  <2>3. \A q : resolve_internal(x, q) = resolve_internal(y, q)
    BY <1>4 DEF resolve_internal
  <2> QED
    BY <2>1, <2>2, <2>3 DEF Placed
<1> USE DEF r
<1>13. c.real \in DOMAIN y.fwd => y.fwd[c.real] \in DOMAIN y.rev /\ y.rev[y.fwd[c.real]] = c.real
  BY <1>9
<1>14. /\ y.next = x.next /\ y.count = x.count /\ d \in VectorCall /\ d.real = c.real
       /\ d.new = c.new /\ d.old = c.old
       /\ (is_alive(x, c.real) \/ Leaving(c) <=> is_alive(y, c.real) \/ Leaving(d))
  BY <1>3, <1>4, <1>8
<1>15. /\ Local(x, y, c.real, OwnIds(x, c)) /\ resolve_internal(y, c.real) \in OwnIds(x, c)
       /\ Fits(y, d)
       /\ \A i \in OwnIds(x, c) : i \in DOMAIN y.vecs \ y.tomb => Placed(y, D, i)
  BY <1>7, <1>8, <1>10
<1> QED
  BY <1>5, <1>13, <1>14, <1>15, MoveStep, ZenonT(60)

LEMMA ForgetMappingSound ==
  ASSUME NEW x \in Index, NEW C \in SUBSET VectorCall, NEW c \in C, Sound(x, C), c.pc = "forget",
         NEW y, y = IF c.alive THEN [forget_update_mapping(x, c.real) EXCEPT !.count = @ - 1]
                    ELSE forget_update_mapping(x, c.real)
  PROVE  /\ Change(x, C, y, C \ {c}, c.real) /\ Sound(y, C \ {c})
         /\ Now(y, c.real) = After(RecordOf(c))
<1> DEFINE r == c.real
           z == forget_update_mapping(x, r)
<1>1. /\ r \in RealIds /\ r \in Nat /\ c.new \in Nat /\ c.old \in Nat /\ Fits(x, c)
      /\ \A q \in RealIds : q # r => resolve_internal(x, q) \notin OwnIds(x, c)
  BY CallIds
<1>2. c \in DeleteCall /\ c.kind = "delete" /\ c.alive \in BOOLEAN
  BY DEF VectorCall, InsertCall, VersionCall, DeleteCall
<1>3. /\ c.old \in x.tomb /\ r \in x.tomb /\ r \in DOMAIN x.vecs
      /\ c.new = c.old /\ resolve_internal(x, r) = c.old
      /\ c.alive \/ r \notin DOMAIN x.fwd
  BY <1>1, <1>2 DEF Fits, DeleteFits, r
<1>4. /\ z.vecs = x.vecs /\ z.tomb = x.tomb
      /\ z.next = x.next /\ z.count = x.count
      /\ r \notin DOMAIN z.fwd
      /\ \A q : q # r => SameFwd(x, z, q)
      /\ \A j \in DOMAIN x.rev : ~Maps(x, r, j) => j \in DOMAIN z.rev /\ z.rev[j] = x.rev[j]
  BY ForgetMappingAt
<1>5. z \in Index
  BY <1>1, ForgetMappingIndex
<1> HIDE DEF z, r
<1>6. /\ y \in Index /\ y.vecs = x.vecs /\ y.tomb = x.tomb /\ y.fwd = z.fwd /\ y.rev = z.rev
      /\ y.next = x.next /\ y.count = IF c.alive THEN x.count - 1 ELSE x.count
  <2>1. y = IF c.alive THEN [z EXCEPT !.count = z.count - 1] ELSE z
    BY DEF z, r
  <2>2. CASE c.alive
    <3>1. y = [z EXCEPT !.count = z.count - 1]
      BY <2>1, <2>2
    <3>2. z.count - 1 \in Int
      BY <1>5, IndexFields
    <3> QED
      BY <1>4, <1>5, <2>2, <3>1, <3>2, CountIndex DEF Index
  <2>3. CASE ~c.alive
    BY <1>4, <1>5, <2>1, <2>3
  <2> QED
    BY <2>2, <2>3
<1>7. resolve_internal(y, r) = r /\ ~is_alive(y, r) /\ ~is_alive(x, r)
  BY <1>3, <1>4, <1>6 DEF resolve_internal, is_alive
<1>8. Tidy(y, r)
  BY <1>3, <1>4, <1>6 DEF Tidy
<1>9. r \notin DOMAIN y.fwd
  BY <1>4, <1>6
<1>10. Local(x, y, r, OwnIds(x, c)) /\ resolve_internal(y, r) \in OwnIds(x, c)
  <2>1. \A j : Maps(x, r, j) => j \in OwnIds(x, c)
    BY DEF Maps, OwnIds, resolve_internal, r
  <2>2. \A j \in DOMAIN x.rev \ OwnIds(x, c) : j \in DOMAIN y.rev /\ y.rev[j] = x.rev[j]
    BY <1>4, <1>6, <2>1
  <2>3. \A j : Same(x, y, j)
    BY <1>6 DEF Same
  <2>4. \A q : q # r => SameFwd(x, y, q)
    BY <1>4, <1>6 DEF SameFwd
  <2>5. x.next <= y.next
    BY <1>6, IndexFields
  <2>6. r \in OwnIds(x, c)
    BY DEF OwnIds, r
  <2> QED
    BY <1>7, <2>2, <2>3, <2>4, <2>5, <2>6 DEF Local
<1>11. ASSUME NEW i \in OwnIds(x, c), i \in DOMAIN y.vecs \ y.tomb
       PROVE  Placed(y, C \ {c}, i)
  BY <1>3, <1>6, <1>11 DEF OwnIds, r
<1>12. Leaving(c) <=> c.alive
  BY <1>2 DEF Leaving
<1>13. Now(y, r) = [ver |-> r, vec |-> Gone, dead |-> TRUE, stored |-> TRUE]
  BY <1>3, <1>6, <1>7 DEF Now
<1>14. After(RecordOf(c)) = [ver |-> r, vec |-> Gone, dead |-> TRUE, stored |-> TRUE]
  BY <1>2 DEF After, RecordOf, r
<1>15. Change(x, C, y, C \ {c}, r) /\ Sound(y, C \ {c})
  BY <1>6, <1>7, <1>8, <1>9, <1>10, <1>11, <1>12, ReturnStep DEF r
<1> QED
  BY <1>13, <1>14, <1>15 DEF r

\* An upsert that is about to return left its id as its record says.
LEMMA UpsertDone ==
  ASSUME NEW x \in Index, NEW C \in SUBSET VectorCall, NEW c \in C, Sound(x, C),
         c.kind # "delete", c.pc = (IF c.kind = "update" THEN "drop" ELSE "row")
  PROVE  Tidy(x, c.real) /\ Now(x, c.real) = After(RecordOf(c))
<1> DEFINE r == c.real
<1>1. /\ r \in RealIds /\ Fits(x, c)
      /\ c.kind \in {"reinsert", "update"} => c.new # c.real /\ is_update_id(c.new)
  BY CallIds
<1>2. c \in VersionCall \cup InsertCall /\ c.kind \in {"insert", "reinsert", "update"}
  BY DEF VectorCall, DeleteCall, VersionCall, InsertCall
<1> HIDE DEF r
<1>3. /\ resolve_internal(x, r) = c.new /\ c.new \notin x.tomb
      /\ c.new \in DOMAIN x.vecs /\ x.vecs[c.new] = c.vec
      /\ r \in x.tomb <=> c.new # r
      /\ r \in DOMAIN x.vecs
      /\ r \in DOMAIN x.fwd => r \in x.tomb
  <2>1. CASE c.kind = "insert"
    BY <1>1, <2>1 DEF Fits, InsertFits, Holds, resolve_internal, r
  <2>2. CASE c.kind = "reinsert"
    BY <1>1, <2>2 DEF Fits, ReinsertFits, Holds, Maps, resolve_internal, r
  <2>3. CASE c.kind = "update"
    BY <1>1, <2>3 DEF Fits, UpdateFits, Holds, Maps, resolve_internal, r
  <2> QED
    BY <1>2, <2>1, <2>2, <2>3
<1>4. is_alive(x, r)
  BY <1>3 DEF is_alive
<1>5. Tidy(x, r)
  BY <1>3, <1>4 DEF Tidy
<1>6. Now(x, r) = [ver |-> c.new, vec |-> c.vec, dead |-> c.new # r, stored |-> TRUE]
  <2>1. (r \in x.tomb) = (c.new # r) /\ (r \in DOMAIN x.vecs) = TRUE
    BY <1>3
  <2> QED
    BY <1>3, <1>4, <2>1 DEF Now
<1>7. After(RecordOf(c)) = [ver |-> c.new, vec |-> c.vec, dead |-> c.new # r, stored |-> TRUE]
  BY <1>2 DEF After, RecordOf, r
<1> QED
  BY <1>5, <1>6, <1>7 DEF r

\* An upsert begins on an id no other vector call holds.
LEMMA UpsertBegun ==
  ASSUME NEW x \in Index, NEW C \in SUBSET VectorCall, Sound(x, C),
         NEW c \in VectorCall, \A d \in C : d.real # c.real,
         c.pc = "log", c.kind \in {"insert", "reinsert", "update"},
         c.kind = "update" <=> is_alive(x, c.real),
         c.kind = "reinsert" => c.real \in x.tomb,
         c.kind = "insert" => c.real \notin x.tomb,
         c.old = resolve_internal(x, c.real),
         c.new = (IF c.kind = "insert" THEN c.real ELSE x.next),
         NEW y, y = IF c.kind = "insert" THEN x ELSE [x EXCEPT !.next = @ + 1]
  PROVE  /\ Change(x, C, y, C \cup {c}, c.real) /\ Sound(y, C \cup {c})
         /\ Now(y, c.real) = Now(x, c.real)
<1> DEFINE r == c.real
<1>1. r \in RealIds /\ r \in Nat /\ c.new \in Nat /\ x.next \in Nat
  BY VectorCallFacts, IdsAssumption, IndexFields
<1>2. x.next + 1 \in UpdateIds
  <2>1. UpdateBase \in Nat /\ x.next >= UpdateBase
    BY IndexFields, IdsAssumption DEF UpdateIds, is_update_id
  <2> QED
    BY <1>1, <2>1 DEF UpdateIds, is_update_id
<1>3. /\ y \in Index /\ y.vecs = x.vecs /\ y.tomb = x.tomb /\ y.fwd = x.fwd /\ y.rev = x.rev
      /\ y.count = x.count /\ y.next = IF c.kind = "insert" THEN x.next ELSE x.next + 1
  <2>1. CASE c.kind = "insert"
    BY <2>1
  <2>2. CASE c.kind # "insert"
    <3>1. y = [x EXCEPT !.next = x.next + 1]
      BY <2>2
    <3>2. y \in Index
      BY <1>2, <3>1, NextIndex
    <3> QED
      BY <2>2, <3>1, <3>2 DEF Index
  <2> QED
    BY <2>1, <2>2
<1>4. Claims(x, C, r) = {r, resolve_internal(x, r)}
  BY <1>1, ClaimsNone
<1>5. r < x.next /\ resolve_internal(x, r) < x.next /\ resolve_internal(x, r) \in Nat
  BY <1>1, <1>4, ResolveInternal DEF Sound
<1>6. y.next >= x.next /\ c.new < y.next /\ (c.new = r \/ c.new >= x.next)
  BY <1>1, <1>3, <1>5
<1>7. Tidy(x, r)
  BY <1>1 DEF Sound
<1>8. x.next \notin DOMAIN x.vecs \cup x.tomb
  BY <1>1 DEF Sound
<1>9. resolve_internal(y, r) = resolve_internal(x, r) /\ (is_alive(y, r) <=> is_alive(x, r))
  BY <1>3 DEF resolve_internal, is_alive
<1>10. Tidy(y, r)
  BY <1>3, <1>7, <1>9 DEF Tidy
<1>11. Fits(y, c)
  <2>1. CASE c.kind = "insert"
    <3>1. r \notin DOMAIN x.fwd /\ r \notin x.tomb
      BY <1>7, <2>1 DEF Tidy
    <3>2. resolve_internal(x, r) = r /\ r \notin DOMAIN x.vecs
      BY <2>1, <3>1 DEF resolve_internal, is_alive
    <3>3. InsertFits(y, c)
      BY <1>3, <2>1, <3>1, <3>2 DEF InsertFits
    <3> QED
      BY <2>1, <3>3 DEF Fits
  <2>2. CASE c.kind = "reinsert"
    <3>1. r \notin DOMAIN x.fwd /\ r \in x.tomb /\ r \in DOMAIN x.vecs
      BY <1>7, <2>2 DEF Tidy
    <3>2. resolve_internal(x, r) = r
      BY <3>1 DEF resolve_internal
    <3>3. ReinsertFits(y, c)
      BY <1>3, <1>8, <2>2, <3>1, <3>2 DEF ReinsertFits
    <3> QED
      BY <2>2, <3>3 DEF Fits
  <2>3. CASE c.kind = "update"
    <3>1. c.old # c.new
      BY <1>1, <1>5, <2>3
    <3>2. UpdateFits(y, c)
      BY <1>3, <1>8, <1>9, <1>10, <2>3, <3>1 DEF UpdateFits
    <3> QED
      BY <2>3, <3>2 DEF Fits
  <2> QED
    BY <2>1, <2>2, <2>3
<1>12. Change(x, C, y, C \cup {c}, c.real) /\ Sound(y, C \cup {c})
  BY <1>3, <1>6, <1>11, StartStep
<1>13. Now(y, r) = Now(x, r)
  <2>1. SameFwd(x, y, r) /\ \A i : Same(x, y, i)
    BY <1>3 DEF SameFwd, Same
  <2> QED
    BY <1>1, <1>3, <2>1, SameCell
<1> QED
  BY <1>12, <1>13

LEMMA DeleteBegun ==
  ASSUME NEW x \in Index, NEW C \in SUBSET VectorCall, Sound(x, C),
         NEW c \in VectorCall, \A d \in C : d.real # c.real,
         c.pc = "log", c.kind = "delete",
         c.old = resolve_internal(x, c.real), c.new = c.old, c.old \in DOMAIN x.vecs,
         c.alive = is_alive(x, c.real)
  PROVE  Change(x, C, x, C \cup {c}, c.real) /\ Sound(x, C \cup {c})
<1> DEFINE r == c.real
<1>1. r \in RealIds /\ r \in Nat /\ c.new \in Nat /\ x.next \in Nat
  BY VectorCallFacts, IdsAssumption, IndexFields
<1>2. Claims(x, C, r) = {r, resolve_internal(x, r)}
  BY <1>1, ClaimsNone
<1>3. c.new < x.next
  BY <1>1, <1>2 DEF Sound
<1>4. Tidy(x, r)
  BY <1>1 DEF Sound
<1>5. is_alive(x, r) <=> c.old \notin x.tomb
  BY DEF is_alive
<1>6. c.alive = (c.old \notin x.tomb)
  <2>1. is_alive(x, r) = (c.old \notin x.tomb)
    BY DEF is_alive
  <2> QED
    BY <2>1
<1>7. Fits(x, c)
  BY <1>4, <1>6 DEF Fits, DeleteFits
<1> QED
  BY <1>1, <1>3, <1>7, StartStep

\* The record of a call was written for an id in the state it is in.
LEMMA CallFollows ==
  ASSUME NEW x \in Index, NEW C \in SUBSET VectorCall, NEW c \in C, Sound(x, C), c.pc = "log"
  PROVE  Follows(Now(x, c.real), RecordOf(c))
<1> DEFINE r == c.real
           s == Now(x, r)
           rec == RecordOf(c)
<1>1. /\ r \in RealIds /\ Fits(x, c)
      /\ c.kind \in {"reinsert", "update"} => c.new # r /\ is_update_id(c.new)
  BY CallIds
<1>2. c.kind \in VectorKinds
  BY VectorCallFacts
<1>3. /\ s.ver = resolve_internal(x, r)
      /\ s.vec = IF is_alive(x, r) THEN x.vecs[resolve_internal(x, r)] ELSE Gone
      /\ s.dead = (r \in x.tomb) /\ s.stored = (r \in DOMAIN x.vecs)
  BY DEF Now
<1>4. /\ rec.op = (IF c.kind = "reinsert" THEN "insert" ELSE c.kind)
      /\ rec.real = r /\ rec.new = c.new /\ rec.old = c.old
  BY DEF RecordOf
<1> HIDE DEF s, rec, r
<1>5. CASE c.kind = "insert"
  <2>1. c.new = r /\ r \notin DOMAIN x.fwd /\ r \notin x.tomb /\ r \notin DOMAIN x.vecs
    BY <1>1, <1>5 DEF Fits, InsertFits, r
  <2>2. ~s.dead /\ ~s.stored /\ s.ver = r
    BY <1>3, <2>1 DEF resolve_internal
  <2> QED
    BY <1>4, <1>5, <2>1, <2>2 DEF Follows, s, rec, r
<1>6. CASE c.kind = "reinsert"
  <2>1. r \notin DOMAIN x.fwd /\ r \in x.tomb /\ r \in DOMAIN x.vecs
    BY <1>1, <1>6 DEF Fits, ReinsertFits, r
  <2>2. s.dead /\ s.stored /\ s.ver = r /\ s.vec = Gone
    BY <1>3, <2>1 DEF resolve_internal, is_alive
  <2>3. Follows(s, rec)
    BY <1>1, <1>4, <1>6, <2>2 DEF Follows
  <2> QED
    BY <2>3 DEF s, rec, r
<1>7. CASE c.kind = "update"
  <2>1. resolve_internal(x, r) = c.old /\ is_alive(x, r)
    BY <1>1, <1>7 DEF Fits, UpdateFits, r
  <2>2. x.vecs[resolve_internal(x, r)] \in Vecs
    BY <2>1, IndexFields, MapValues DEF is_alive
  <2>3. s.vec # Gone /\ s.ver = c.old
    BY <1>3, <2>1, <2>2, TokensAssumption
  <2>4. Follows(s, rec)
    BY <1>1, <1>4, <1>7, <2>3 DEF Follows
  <2> QED
    BY <2>4 DEF s, rec, r
<1>8. CASE c.kind = "delete"
  <2>1. c.new = c.old /\ resolve_internal(x, r) = c.old /\ c.old \in DOMAIN x.vecs /\ Tidy(x, r)
    BY <1>1, <1>8 DEF Fits, DeleteFits, r
  <2>2. s.vec = Gone => s.stored /\ s.ver = r
    <3>1. CASE is_alive(x, r)
      <4>1. x.vecs[resolve_internal(x, r)] \in Vecs
        BY <3>1, IndexFields, MapValues DEF is_alive
      <4> QED
        BY <1>3, <3>1, <4>1, TokensAssumption
    <3>2. CASE ~is_alive(x, r)
      <4>1. r \notin DOMAIN x.fwd
        BY <2>1, <3>2 DEF Tidy
      <4>2. resolve_internal(x, r) = r
        BY <4>1 DEF resolve_internal
      <4> QED
        BY <1>3, <2>1, <4>2
    <3> QED
      BY <3>1, <3>2
  <2>3. Follows(s, rec)
    BY <1>3, <1>4, <1>8, <2>1, <2>2 DEF Follows
  <2> QED
    BY <2>3 DEF s, rec, r
<1> QED
  BY <1>2, <1>5, <1>6, <1>7, <1>8 DEF VectorKinds

\* Moving on without touching the index keeps what fits.
LEMMA QuietFits ==
  ASSUME NEW x \in Index, NEW c \in VectorCall, NEW d \in VectorCall, Fits(x, c),
         d.real = c.real, d.new = c.new, d.old = c.old, d.kind = c.kind, d.vec = c.vec,
         c.kind = "delete" => d.alive = c.alive,
         \/ c.pc = "log" /\ d.pc = CASE c.kind = "reinsert" -> "map"
                                     [] c.kind = "delete" -> "tomb"
                                     [] OTHER -> "node"
         \/ c.kind = "update" /\ c.pc = "read" /\ d.pc \in {"row", "drop"}
         \/ c.kind = "update" /\ c.pc = "row" /\ d.pc = "drop"
         \/ c.kind = "delete" /\ c.pc = "drop" /\ d.pc = "forget"
  PROVE  /\ Fits(x, d)
         /\ Leaving(d) <=> Leaving(c)
         /\ c.kind = "update" => (c.pc = "map" <=> d.pc = "map") /\ (c.pc = "tomb" <=> d.pc = "tomb")
<1>1. c.kind \in VectorKinds
  BY VectorCallFacts
<1>2. CASE c.kind = "insert"
  BY <1>2 DEF Fits, InsertFits, Leaving
<1>3. CASE c.kind = "reinsert"
  BY <1>3 DEF Fits, ReinsertFits, Leaving
<1>4. CASE c.kind = "update"
  BY <1>4 DEF Fits, UpdateFits, Leaving
<1>5. CASE c.kind = "delete"
  BY <1>5 DEF Fits, DeleteFits, Leaving
<1> QED
  BY <1>1, <1>2, <1>3, <1>4, <1>5 DEF VectorKinds

\* What the fields of Now tell.
LEMMA NowFacts ==
  ASSUME NEW x \in Index, NEW r \in RealIds
  PROVE  /\ Now(x, r) \in Cell
         /\ Now(x, r).ver = resolve_internal(x, r)
         /\ Now(x, r).vec = (IF is_alive(x, r) THEN x.vecs[resolve_internal(x, r)] ELSE Gone)
         /\ Now(x, r).vec # Gone <=> is_alive(x, r)
         /\ Now(x, r).dead <=> r \in x.tomb
         /\ Now(x, r).stored <=> r \in DOMAIN x.vecs
<1>1. is_alive(x, r) => x.vecs[resolve_internal(x, r)] \in Vecs
  BY IndexFields, MapValues DEF is_alive
<1>2. resolve_internal(x, r) \in Nat
  BY ResolveInternal
<1>3. /\ (r \in x.tomb) \in BOOLEAN /\ (r \in DOMAIN x.vecs) \in BOOLEAN
  OBVIOUS
<1>4. (IF is_alive(x, r) THEN x.vecs[resolve_internal(x, r)] ELSE Gone) \in Vecs \cup {Gone}
  BY <1>1
<1>5. /\ Now(x, r).ver = resolve_internal(x, r)
      /\ Now(x, r).vec = (IF is_alive(x, r) THEN x.vecs[resolve_internal(x, r)] ELSE Gone)
      /\ Now(x, r).dead = (r \in x.tomb)
      /\ Now(x, r).stored = (r \in DOMAIN x.vecs)
  BY DEF Now
<1>6. Now(x, r) \in Cell
  BY <1>2, <1>3, <1>4 DEF Now, Cell
<1> QED
  BY <1>1, <1>5, <1>6, TokensAssumption

\* The replay of an insert or update up to the tombstone, field by field.
LEMMA UpsertReplayedAt ==
  ASSUME NEW x \in Index, NEW rec \in UpsertRecord
  PROVE  LET y == UpsertReplayed(x, rec)
         IN /\ y.tomb = x.tomb
            /\ Holds(y, rec.new, rec.vec) /\ DOMAIN y.vecs = DOMAIN x.vecs \cup {rec.new}
            /\ \A j : j # rec.new => Same(x, y, j)
            /\ ~is_update_id(rec.new) => y.fwd = x.fwd /\ y.rev = x.rev
            /\ is_update_id(rec.new) =>
                 /\ Maps(y, rec.real, rec.new)
                 /\ rec.new \in DOMAIN y.rev /\ y.rev[rec.new] = rec.real
            /\ \A q : q # rec.real => SameFwd(x, y, q)
            /\ \A j \in DOMAIN x.rev : j # rec.new /\ ~Maps(x, rec.real, j) =>
                 j \in DOMAIN y.rev /\ y.rev[j] = x.rev[j]
            /\ y.count = IF is_alive(x, rec.real) THEN x.count ELSE x.count + 1
<1>1. rec.new \in Nat /\ rec.real \in RealIds /\ rec.vec \in Vecs
  BY DEF UpsertRecord
<1> DEFINE seen   == observe_update_id(x, rec.new)
           mapped == IF is_update_id(rec.new) THEN record_update_mapping(seen, rec.real, rec.new)
                     ELSE seen
           stored == insertNode(mapped, rec.new, rec.vec)
           y      == UpsertReplayed(x, rec)
<1>2. seen \in Index /\ seen.vecs = x.vecs /\ seen.tomb = x.tomb /\ seen.fwd = x.fwd /\ seen.rev = x.rev
      /\ seen.count = x.count
  <2>1. seen \in Index
    BY <1>1, ObserveIndex
  <2> QED
    BY <2>1 DEF observe_update_id, Index
<1>3. y = IF is_alive(x, rec.real) THEN stored ELSE [stored EXCEPT !.count = @ + 1]
  BY DEF UpsertReplayed
<1> HIDE DEF seen, y
<1>4. /\ mapped \in Index /\ mapped.vecs = x.vecs /\ mapped.tomb = x.tomb /\ mapped.count = x.count
      /\ ~is_update_id(rec.new) => mapped.fwd = x.fwd /\ mapped.rev = x.rev
      /\ is_update_id(rec.new) =>
           /\ Maps(mapped, rec.real, rec.new)
           /\ rec.new \in DOMAIN mapped.rev /\ mapped.rev[rec.new] = rec.real
      /\ \A q : q # rec.real => SameFwd(x, mapped, q)
      /\ \A j \in DOMAIN x.rev : j # rec.new /\ ~Maps(x, rec.real, j) =>
           j \in DOMAIN mapped.rev /\ mapped.rev[j] = x.rev[j]
  <2>1. CASE is_update_id(rec.new)
    <3>1. rec.new \in UpdateIds
      BY <1>1, <2>1 DEF UpdateIds
    <3>2. mapped = record_update_mapping(seen, rec.real, rec.new)
      BY <2>1
    <3>3. mapped \in Index
      BY <1>1, <1>2, <3>1, <3>2, RecordMappingIndex
    <3> HIDE DEF mapped
    <3>4. /\ mapped.vecs = seen.vecs /\ mapped.tomb = seen.tomb /\ mapped.count = seen.count
          /\ Maps(mapped, rec.real, rec.new)
          /\ rec.new \in DOMAIN mapped.rev /\ mapped.rev[rec.new] = rec.real
          /\ \A q : q # rec.real => SameFwd(seen, mapped, q)
          /\ \A j \in DOMAIN seen.rev : j # rec.new /\ ~Maps(seen, rec.real, j) =>
               j \in DOMAIN mapped.rev /\ mapped.rev[j] = seen.rev[j]
      BY <1>2, <3>2, RecordMappingAt
    <3> QED
      BY <1>2, <2>1, <3>3, <3>4 DEF SameFwd, Maps
  <2>2. CASE ~is_update_id(rec.new)
    BY <1>2, <2>2 DEF SameFwd
  <2> QED
    BY <2>1, <2>2
<1> HIDE DEF mapped
<1>5. /\ stored \in Index /\ stored.tomb = mapped.tomb /\ stored.fwd = mapped.fwd /\ stored.rev = mapped.rev
      /\ stored.count = mapped.count
      /\ Holds(stored, rec.new, rec.vec) /\ DOMAIN stored.vecs = DOMAIN mapped.vecs \cup {rec.new}
      /\ \A j : j # rec.new => Same(mapped, stored, j)
  BY <1>1, <1>4, InsertNodeAt, InsertNodeIndex
<1> HIDE DEF stored
<1>6. /\ y.vecs = stored.vecs /\ y.tomb = stored.tomb /\ y.fwd = stored.fwd /\ y.rev = stored.rev
      /\ y.count = IF is_alive(x, rec.real) THEN stored.count ELSE stored.count + 1
  <2>1. CASE is_alive(x, rec.real)
    BY <1>3, <2>1
  <2>2. CASE ~is_alive(x, rec.real)
    <3>1. y = [stored EXCEPT !.count = stored.count + 1]
      BY <1>3, <2>2
    <3> QED
      BY <1>5, <2>2, <3>1 DEF Index
  <2> QED
    BY <2>1, <2>2
<1>7. /\ Holds(y, rec.new, rec.vec) /\ \A j : j # rec.new => Same(x, y, j)
  BY <1>4, <1>5, <1>6 DEF Holds, Same
<1>8. /\ \A q : q # rec.real => SameFwd(x, y, q)
      /\ is_update_id(rec.new) => Maps(y, rec.real, rec.new)
  BY <1>4, <1>5, <1>6 DEF SameFwd, Maps
<1> QED
  BY <1>4, <1>5, <1>6, <1>7, <1>8 DEF y

\* A change to r while no call is in flight.
LEMMA IdleStep ==
  ASSUME NEW x \in Index, NEW y \in Index, NEW r \in RealIds, Sound(x, {}),
         x.next <= y.next, Local(x, y, r, {r, resolve_internal(x, r), resolve_internal(y, r)}),
         resolve_internal(y, r) < y.next,
         resolve_internal(y, r) \in {r, resolve_internal(x, r)} \/
           (resolve_internal(y, r) \notin IdsOf(x) /\ is_update_id(resolve_internal(y, r))),
         Tidy(y, r), r \in DOMAIN y.fwd => y.fwd[r] \in DOMAIN y.rev /\ y.rev[y.fwd[r]] = r,
         \A i \in {r, resolve_internal(x, r)} :
           i \in DOMAIN y.vecs \ y.tomb => i = resolve_internal(y, r),
         (is_alive(x, r) <=> is_alive(y, r)) => y.count = x.count,
         ~is_alive(x, r) /\ is_alive(y, r) => y.count = x.count + 1,
         is_alive(x, r) /\ ~is_alive(y, r) => y.count = x.count - 1
  PROVE  Change(x, {}, y, {}, r) /\ Sound(y, {})
<1> DEFINE i == resolve_internal(x, r)
           j == resolve_internal(y, r)
<1>1. /\ Claims(x, {}, r) = {r, i} /\ Claims(y, {}, r) = {r, j}
      /\ r \in Counted(x, {}) <=> is_alive(x, r)
      /\ r \in Counted(y, {}) <=> is_alive(y, r)
  BY ClaimsNone
<1>2. Own(x, {}, y, {}, r) = {r, i, j}
  BY <1>1 DEF Own
<1>3. r \in Nat /\ i \in Nat /\ j \in Nat /\ r < UpdateBase /\ UpdateBase \in Nat
      /\ x.next \in Nat /\ y.next \in Nat
  BY IdsAssumption, ResolveInternal, IndexFields
<1>4. r < x.next /\ i < x.next
  BY <1>1 DEF Sound
<1>5. j \in {r, i} \/ \A q \in RealIds : q # r => j \notin Claims(x, {}, q)
  <2> SUFFICES ASSUME j \notin IdsOf(x), is_update_id(j), NEW q \in RealIds, q # r
               PROVE  j \notin Claims(x, {}, q)
    OBVIOUS
  <2>1. Claims(x, {}, q) = {q, resolve_internal(x, q)}
    BY ClaimsNone
  <2>2. ~is_update_id(q)
    <3>1. q \in Nat /\ q < UpdateBase
      BY IdsAssumption
    <3> QED
      BY <1>3, <3>1 DEF is_update_id
  <2> QED
    BY <2>1, <2>2, ResolveInternal
<1>6. \A k \in Claims(y, {}, r) :
        /\ k \in Nat /\ k < y.next
        /\ k \in Claims(x, {}, r) \/ k >= x.next \/ \A q \in RealIds : q # r => k \notin Claims(x, {}, q)
  BY <1>1, <1>3, <1>4, <1>5
<1>7. Change(x, {}, y, {}, r)
  BY <1>2, <1>6 DEF Change, SameCalls
<1>8. \A k \in {r, i, j} : k \in DOMAIN y.vecs \ y.tomb => Placed(y, {}, k)
  BY DEF Placed
<1>9. Recount(x, {}, y, {}, r)
  BY <1>1 DEF Recount
<1>10. InOrder(x, {}, y, {}, r)
  BY <1>2, <1>8, <1>9 DEF InOrder
<1> QED
  BY <1>7, <1>10, SoundStep

LEMMA ReplayUpsertSound ==
  ASSUME NEW x \in Index, Sound(x, {}), NEW rec \in UpsertRecord,
         Follows(Now(x, rec.real), rec),
         is_update_id(rec.new) => rec.new \notin IdsOf(x),
         NEW y, y = Replayed(x, rec)
  PROVE  Change(x, {}, y, {}, rec.real) /\ Sound(y, {}) /\ Now(y, rec.real) = After(rec)
<1> DEFINE r == rec.real
           i == resolve_internal(x, r)
           z == UpsertReplayed(x, rec)
<1>1. /\ r \in RealIds /\ r \in Nat /\ ~is_update_id(r)
      /\ rec.new \in Nat /\ rec.old \in Nat /\ rec.vec \in Vecs
      /\ rec.op \in {"insert", "update"}
  <2>1. /\ rec.real \in RealIds /\ rec.new \in Nat /\ rec.old \in Nat /\ rec.vec \in Vecs
        /\ rec.op \in {"insert", "update"}
    BY DEF UpsertRecord
  <2>2. r \in Nat /\ UpdateBase \in Nat /\ r < UpdateBase
    BY <2>1, IdsAssumption
  <2> QED
    BY <2>1, <2>2 DEF is_update_id
<1>2. /\ z \in Index /\ z.next >= x.next /\ rec.new < z.next
  BY UpsertReplayedIndex
<1>3. /\ z.tomb = x.tomb
      /\ Holds(z, rec.new, rec.vec) /\ DOMAIN z.vecs = DOMAIN x.vecs \cup {rec.new}
      /\ \A j : j # rec.new => Same(x, z, j)
      /\ ~is_update_id(rec.new) => z.fwd = x.fwd /\ z.rev = x.rev
      /\ is_update_id(rec.new) =>
           /\ Maps(z, r, rec.new)
           /\ rec.new \in DOMAIN z.rev /\ z.rev[rec.new] = r
      /\ \A q : q # r => SameFwd(x, z, q)
      /\ \A j \in DOMAIN x.rev : j # rec.new /\ ~Maps(x, r, j) =>
           j \in DOMAIN z.rev /\ z.rev[j] = x.rev[j]
      /\ z.count = IF is_alive(x, r) THEN x.count ELSE x.count + 1
  BY UpsertReplayedAt
<1>4. y = IF rec.op = "update" THEN tombstone(z, rec.old) ELSE z
  BY <1>1 DEF Replayed
<1> HIDE DEF z, r, i
<1>5. /\ y \in Index /\ y.vecs = z.vecs /\ y.fwd = z.fwd /\ y.rev = z.rev
      /\ y.next = z.next /\ y.count = z.count
      /\ y.tomb = IF rec.op = "update" THEN x.tomb \cup {rec.old} ELSE x.tomb
  <2>1. CASE rec.op = "update"
    <3>1. y = tombstone(z, rec.old)
      BY <1>4, <2>1
    <3>2. y \in Index
      BY <1>1, <1>2, <3>1, TombstoneIndex
    <3>3. /\ y.vecs = z.vecs /\ y.fwd = z.fwd /\ y.rev = z.rev
          /\ y.next = z.next /\ y.count = z.count /\ y.tomb = z.tomb \cup {rec.old}
      BY <1>2, <3>1, TombstoneAt
    <3> QED
      BY <1>3, <2>1, <3>2, <3>3
  <2>2. CASE rec.op # "update"
    BY <1>2, <1>3, <1>4, <2>2
  <2> QED
    BY <2>1, <2>2
<1>6. /\ Now(x, r).ver = i
      /\ Now(x, r).vec # Gone <=> is_alive(x, r)
      /\ Now(x, r).dead <=> r \in x.tomb
      /\ Now(x, r).stored <=> r \in DOMAIN x.vecs
  BY <1>1, NowFacts DEF i
<1>7. /\ rec.new = r => ~is_update_id(rec.new) /\ rec.op = "insert" /\ r \notin x.tomb
                        /\ r \notin DOMAIN x.vecs /\ i = r /\ r \notin DOMAIN x.fwd
      /\ rec.new # r => is_update_id(rec.new)
      /\ rec.new # r /\ rec.op = "insert" => r \in x.tomb /\ r \in DOMAIN x.vecs /\ i = r /\ ~is_alive(x, r)
      /\ rec.op = "update" => is_update_id(rec.new) /\ is_alive(x, r) /\ rec.old = i
  <2>1. CASE rec.op = "insert" /\ rec.new = r
    <3>1. ~Now(x, r).dead /\ ~Now(x, r).stored /\ Now(x, r).ver = r
      BY <2>1 DEF Follows, r
    <3>2. r \notin DOMAIN x.fwd
      <4>1. r \in DOMAIN x.fwd => x.fwd[r] \in UpdateIds
        BY IndexFields, MapValues
      <4> QED
        BY <1>1, <1>6, <3>1, <4>1 DEF i, resolve_internal, UpdateIds
    <3> QED
      BY <1>1, <1>6, <2>1, <3>1, <3>2
  <2>2. CASE rec.op = "insert" /\ rec.new # r
    <3>1. Now(x, r).dead /\ Now(x, r).stored /\ Now(x, r).ver = r /\ Now(x, r).vec = Gone
          /\ is_update_id(rec.new)
      BY <2>2 DEF Follows, r
    <3> QED
      BY <1>1, <1>6, <2>2, <3>1
  <2>3. CASE rec.op = "update"
    <3>1. Now(x, r).vec # Gone /\ Now(x, r).ver = rec.old /\ is_update_id(rec.new)
      BY <2>3 DEF Follows, r
    <3> QED
      BY <1>1, <1>6, <2>3, <3>1
  <2> QED
    BY <1>1, <2>1, <2>2, <2>3
<1>8. resolve_internal(y, r) = rec.new
  BY <1>3, <1>5, <1>7 DEF resolve_internal, Maps, i
<1>9. i # rec.new \/ rec.new = r
  <2>1. ~is_update_id(i) \/ i \in IdsOf(x)
    BY <1>1, ResolveInternal DEF i
  <2> QED
    BY <1>7, <2>1
<1>10. Tidy(x, r)
  BY <1>1 DEF Sound
<1>11. rec.new # r => rec.new \notin x.tomb
  BY <1>7 DEF IdsOf
<1>12. rec.op = "update" => rec.old # rec.new
  BY <1>1, <1>7, <1>9
<1>13. is_alive(y, r)
  <2>1. rec.new \notin y.tomb
    BY <1>5, <1>7, <1>11, <1>12
  <2> QED
    BY <1>3, <1>5, <1>8, <2>1 DEF is_alive, Holds
<1>14. rec.new # r => r \in y.tomb
  <2>1. CASE rec.op = "insert"
    BY <1>5, <1>7, <2>1
  <2>2. CASE rec.op = "update"
    <3>1. i = r \/ r \in x.tomb
      BY <1>10 DEF Tidy, i, resolve_internal
    <3> QED
      BY <1>5, <1>7, <2>2, <3>1
  <2> QED
    BY <1>1, <2>1, <2>2
<1>15. r \in DOMAIN y.vecs
  <2>1. CASE rec.op = "insert"
    BY <1>3, <1>5, <1>7, <2>1
  <2>2. CASE rec.op = "update"
    <3>1. r \in DOMAIN x.vecs
      BY <1>7, <1>10, <2>2 DEF Tidy, is_alive, i, resolve_internal
    <3> QED
      BY <1>3, <1>5, <3>1
  <2> QED
    BY <1>1, <2>1, <2>2
<1>16. rec.new = r => r \notin y.tomb /\ r \notin DOMAIN y.fwd
  BY <1>3, <1>5, <1>7
<1>17. Tidy(y, r)
  BY <1>13, <1>14, <1>15, <1>16 DEF Tidy
<1>18. r \in DOMAIN y.fwd => y.fwd[r] \in DOMAIN y.rev /\ y.rev[y.fwd[r]] = r
  BY <1>3, <1>5, <1>7, <1>16 DEF Maps
<1>19. Local(x, y, r, {r, i, rec.new})
  <2>1. \A j : Maps(x, r, j) => j = i
    BY DEF Maps, i, resolve_internal
  <2>2. \A j \in DOMAIN x.rev \ {r, i, rec.new} : j \in DOMAIN y.rev /\ y.rev[j] = x.rev[j]
    BY <1>3, <1>5, <2>1
  <2>3. \A q : q # r => SameFwd(x, y, q)
    BY <1>3, <1>5 DEF SameFwd
  <2>4. \A j \in Nat \ {r, i, rec.new} : Same(x, y, j)
    BY <1>3, <1>5, <1>7 DEF Same
  <2>5. x.next <= y.next
    BY <1>2, <1>5, IndexFields
  <2> QED
    BY <2>2, <2>3, <2>4, <2>5 DEF Local
<1>20. \A j \in {r, i} : j \in DOMAIN y.vecs \ y.tomb => j = rec.new
  <2>1. i = r \/ rec.op = "update"
    BY <1>1, <1>7
  <2>2. rec.op = "update" => i \in y.tomb
    BY <1>5, <1>7
  <2> QED
    BY <1>14, <2>1, <2>2
<1>21. rec.new \in {r, i} \/ (rec.new \notin IdsOf(x) /\ is_update_id(rec.new))
  BY <1>7
<1>22. Change(x, {}, y, {}, r) /\ Sound(y, {})
  BY <1>1, <1>2, <1>3, <1>5, <1>8, <1>13, <1>17, <1>18, <1>19, <1>20, <1>21, IdleStep DEF i, Local
<1>23. Now(y, r) = [ver |-> rec.new, vec |-> rec.vec, dead |-> rec.new # r, stored |-> TRUE]
  <2>1. (r \in y.tomb) = (rec.new # r) /\ (r \in DOMAIN y.vecs) = TRUE
    BY <1>14, <1>15, <1>16
  <2>2. y.vecs[rec.new] = rec.vec
    BY <1>3, <1>5 DEF Holds
  <2> QED
    BY <1>8, <1>13, <2>1, <2>2 DEF Now
<1>24. After(rec) = [ver |-> rec.new, vec |-> rec.vec, dead |-> rec.new # r, stored |-> TRUE]
  BY <1>1 DEF After, r
<1> QED
  BY <1>22, <1>23, <1>24 DEF r

LEMMA ReplayDeleteSound ==
  ASSUME NEW x \in Index, Sound(x, {}), NEW rec \in DeleteRecord,
         Follows(Now(x, rec.real), rec),
         NEW y, y = Replayed(x, rec)
  PROVE  Change(x, {}, y, {}, rec.real) /\ Sound(y, {}) /\ Now(y, rec.real) = After(rec)
<1> DEFINE r == rec.real
           i == resolve_internal(x, r)
           z == tombstone(x, rec.new)
           t == forget_update_mapping(z, r)
<1>1. r \in RealIds /\ r \in Nat /\ rec.new \in Nat /\ rec.op = "delete"
  BY IdsAssumption DEF DeleteRecord
<1>2. /\ z \in Index /\ z.vecs = x.vecs /\ z.fwd = x.fwd /\ z.rev = x.rev
      /\ z.next = x.next /\ z.count = x.count /\ z.tomb = x.tomb \cup {rec.new}
  BY <1>1, TombstoneAt, TombstoneIndex
<1> HIDE DEF z
<1>3. /\ t \in Index /\ t.vecs = z.vecs /\ t.tomb = z.tomb
      /\ t.next = z.next /\ t.count = z.count
      /\ r \notin DOMAIN t.fwd
      /\ \A q : q # r => SameFwd(z, t, q)
      /\ \A j \in DOMAIN z.rev : ~Maps(z, r, j) => j \in DOMAIN t.rev /\ t.rev[j] = z.rev[j]
  BY <1>1, <1>2, ForgetMappingAt, ForgetMappingIndex
<1>4. y = IF is_alive(x, r) THEN [t EXCEPT !.count = t.count - 1] ELSE t
  BY <1>1 DEF Replayed, DeleteReplayed, t, z
<1> HIDE DEF t, r, i
<1>5. /\ y \in Index /\ y.vecs = x.vecs /\ y.tomb = x.tomb \cup {rec.new} /\ y.fwd = t.fwd
      /\ y.rev = t.rev /\ y.next = x.next
      /\ y.count = IF is_alive(x, r) THEN x.count - 1 ELSE x.count
  <2>1. CASE is_alive(x, r)
    <3>1. t.count - 1 \in Int
      BY <1>3, IndexFields
    <3> QED
      BY <1>2, <1>3, <1>4, <2>1, <3>1, CountIndex DEF Index
  <2>2. CASE ~is_alive(x, r)
    BY <1>2, <1>3, <1>4, <2>2
  <2> QED
    BY <2>1, <2>2
<1>6. /\ Now(x, r).ver = i
      /\ Now(x, r).vec # Gone <=> is_alive(x, r)
      /\ Now(x, r).dead <=> r \in x.tomb
      /\ Now(x, r).stored <=> r \in DOMAIN x.vecs
  BY <1>1, NowFacts DEF i
<1>7. i = rec.new /\ (~is_alive(x, r) => r \in DOMAIN x.vecs /\ i = r)
  <2>1. Now(x, r).ver = rec.new /\ (Now(x, r).vec = Gone => Now(x, r).stored /\ Now(x, r).ver = r)
    BY <1>1 DEF Follows, r
  <2> QED
    BY <1>6, <2>1
<1>8. Tidy(x, r)
  BY <1>1 DEF Sound
<1>9. r \in DOMAIN x.vecs /\ r \in y.tomb
  <2>1. CASE r \in DOMAIN x.fwd
    BY <1>5, <1>8, <2>1 DEF Tidy
  <2>2. CASE r \notin DOMAIN x.fwd
    BY <1>5, <1>7, <2>2 DEF i, resolve_internal, is_alive
  <2> QED
    BY <2>1, <2>2
<1>10. resolve_internal(y, r) = r /\ ~is_alive(y, r) /\ r \notin DOMAIN y.fwd
  BY <1>3, <1>5, <1>9 DEF resolve_internal, is_alive
<1>11. Tidy(y, r)
  BY <1>5, <1>9, <1>10 DEF Tidy
<1>12. Local(x, y, r, {r, i, r})
  <2>1. \A j : Maps(x, r, j) => j = i
    BY DEF Maps, i, resolve_internal
  <2>2. \A j \in DOMAIN x.rev \ {r, i} : j \in DOMAIN y.rev /\ y.rev[j] = x.rev[j]
    BY <1>2, <1>3, <1>5, <2>1 DEF Maps
  <2>3. \A q : q # r => SameFwd(x, y, q)
    BY <1>2, <1>3, <1>5 DEF SameFwd
  <2>4. \A j \in Nat \ {r, i} : Same(x, y, j)
    BY <1>5, <1>7 DEF Same
  <2>5. x.next <= y.next
    BY <1>5, IndexFields
  <2> QED
    BY <2>2, <2>3, <2>4, <2>5 DEF Local
<1>13. \A j \in {r, i} : j \in DOMAIN y.vecs \ y.tomb => j = r
  BY <1>5, <1>7
<1>14. r < x.next
  BY <1>1, ClaimsIn DEF Sound
<1>15. Change(x, {}, y, {}, r) /\ Sound(y, {})
  BY <1>1, <1>5, <1>10, <1>11, <1>12, <1>13, <1>14, IdleStep DEF i, Local
<1>16. Now(y, r) = [ver |-> r, vec |-> Gone, dead |-> TRUE, stored |-> TRUE]
  BY <1>5, <1>9, <1>10 DEF Now
<1>17. After(rec) = [ver |-> r, vec |-> Gone, dead |-> TRUE, stored |-> TRUE]
  BY <1>1 DEF After, r
<1> QED
  BY <1>15, <1>16, <1>17 DEF r

\* The replay of a record brings an index to where the call left it.
LEMMA ReplaySound ==
  ASSUME NEW x \in Index, Sound(x, {}), NEW rec \in UpsertRecord \cup DeleteRecord,
         Follows(Now(x, rec.real), rec),
         Issues(rec) /\ is_update_id(rec.new) => rec.new \notin IdsOf(x),
         NEW y, y = Replayed(x, rec)
  PROVE  /\ Sound(y, {}) /\ Now(y, rec.real) = After(rec)
         /\ \A q \in RealIds : q # rec.real => Now(y, q) = Now(x, q)
<1>1. Change(x, {}, y, {}, rec.real) /\ Sound(y, {}) /\ Now(y, rec.real) = After(rec)
  <2>1. CASE rec \in UpsertRecord
    <3>1. Issues(rec)
      BY <2>1 DEF Issues, UpsertRecord
    <3> QED
      BY <2>1, <3>1, ReplayUpsertSound
  <2>2. CASE rec \in DeleteRecord
    BY <2>2, ReplayDeleteSound
  <2> QED
    BY <2>1, <2>2
<1> QED
  BY <1>1, OthersApart

IsVector(c) == c.pc # "idle" /\ c.kind \in VectorKinds

LEMMA HoldingFacts ==
  ASSUME Types
  PROVE  /\ Holding \subseteq VectorCall
         /\ \A c : c \in Holding <=> \E w \in Writers : IsVector(local[w]) /\ c = local[w]
<1>1. ASSUME NEW w \in Writers, IsVector(local[w])
      PROVE  local[w] \in VectorCall
  <2>1. local[w] \in Call
    BY DEF Types
  <2> QED
    BY <1>1, <2>1 DEF Call, IsVector, Idle, PayloadCall, VectorKinds, PayloadKinds, VectorCall
<1>2. \A c : c \in Holding <=> \E w \in Writers : IsVector(local[w]) /\ c = local[w]
  BY DEF Holding, IsVector, Busy
<1> QED
  BY <1>1, <1>2

\* What a step of w makes of the vector calls in flight.
LEMMA HoldingStep ==
  ASSUME Types, OneHolder, NEW w \in Writers, NEW d, local' = [local EXCEPT ![w] = d],
         IsVector(local[w]) /\ IsVector(d) => d.real = local[w].real,
         ~IsVector(local[w]) /\ IsVector(d) => ~Locked(d.real)
  PROVE  /\ OneHolder'
         /\ Holding' = (Holding \ (IF IsVector(local[w]) THEN {local[w]} ELSE {}))
                         \cup (IF IsVector(d) THEN {d} ELSE {})
<1>1. /\ local'[w] = d
      /\ \A v \in Writers : v # w => local'[v] = local[v]
  BY DEF Types
<1>2. \A c : c \in Holding <=> \E v \in Writers : IsVector(local[v]) /\ c = local[v]
  BY HoldingFacts
<1>3. \A c : c \in Holding' <=> \E v \in Writers : IsVector(local'[v]) /\ c = local'[v]
  BY DEF Holding, IsVector, Busy
<1>4. ASSUME NEW u \in Writers, NEW v \in Writers, IsVector(local[u]), IsVector(local[v]),
             local[u].real = local[v].real
      PROVE  u = v
  BY <1>4 DEF OneHolder, IsVector, Busy
<1>5. ASSUME NEW v \in Writers, v # w, IsVector(local[v]), IsVector(d)
      PROVE  local[v].real # d.real
  <2>1. CASE IsVector(local[w])
    BY <1>4, <1>5, <2>1
  <2>2. CASE ~IsVector(local[w])
    BY <1>5, <2>2 DEF Locked, IsVector, Busy
  <2> QED
    BY <2>1, <2>2
<1>6. OneHolder'
  <2> SUFFICES ASSUME NEW u \in Writers, NEW v \in Writers, IsVector(local'[u]), IsVector(local'[v]),
                      local'[u].real = local'[v].real
               PROVE  u = v
    BY DEF OneHolder, IsVector, Busy
  <2>1. CASE u = w
    BY <1>1, <1>5, <2>1
  <2>2. CASE v = w
    BY <1>1, <1>5, <2>2
  <2>3. CASE u # w /\ v # w
    BY <1>1, <1>4, <2>3
  <2> QED
    BY <2>1, <2>2, <2>3
<1>7. ASSUME NEW c
      PROVE  c \in Holding' <=> \/ c \in Holding /\ ~(IsVector(local[w]) /\ c = local[w])
                                \/ IsVector(d) /\ c = d
  <2>1. ASSUME NEW v \in Writers, IsVector(local'[v]), c = local'[v]
        PROVE  \/ c \in Holding /\ ~(IsVector(local[w]) /\ c = local[w])
               \/ IsVector(d) /\ c = d
    <3>1. CASE v = w
      BY <1>1, <2>1, <3>1
    <3>2. CASE v # w
      BY <1>1, <1>2, <1>4, <2>1, <3>2
    <3> QED
      BY <3>1, <3>2
  <2>2. ASSUME NEW v \in Writers, IsVector(local[v]), c = local[v],
               ~(IsVector(local[w]) /\ c = local[w])
        PROVE  c \in Holding'
    BY <1>1, <1>3, <2>2
  <2>3. IsVector(d) /\ c = d => c \in Holding'
    BY <1>1, <1>3
  <2> QED
    BY <1>2, <1>3, <2>1, <2>2, <2>3
<1> QED
  BY <1>6, <1>7

\* A call with no other vector call on its id.
LEMMA LockedHolding ==
  ASSUME Types, NEW r, ~Locked(r)
  PROVE  \A c \in Holding : c.real # r
  BY HoldingFacts DEF Locked, IsVector, Busy

LEMMA NoneHeld ==
  ASSUME \A w \in Writers : ~Busy(w)
  PROVE  Holding = {} /\ OneHolder
  BY DEF Holding, OneHolder

\* A bulk loaded store.
LEMMA LoadedSound ==
  ASSUME NEW b \in Loads, NEW x, x = BulkLoaded(b)
  PROVE  Sound(x, {}) /\ \A r \in RealIds : Now(x, r).ver = r
<1>1. /\ DOMAIN b \subseteq RealIds /\ IsFiniteSet(DOMAIN b)
      /\ \A r \in RealIds : r \in Nat /\ r < UpdateBase
  BY LoadsAssumption, IdsAssumption
<1>2. /\ x.vecs = b /\ x.tomb = {} /\ x.fwd = Empty /\ x.rev = Empty
      /\ x.next = UpdateBase /\ x.count = Cardinality(DOMAIN b)
  BY DEF BulkLoaded, EmptyIndex
<1>3. DOMAIN Empty = {}
  BY DEF Empty
<1>4. \A r : resolve_internal(x, r) = r
  BY <1>2, <1>3 DEF resolve_internal
<1>5. \A r : is_alive(x, r) <=> r \in DOMAIN b
  BY <1>2, <1>4 DEF is_alive
<1>6. Reversed(x) /\ \A r : Tidy(x, r)
  BY <1>2, <1>3 DEF Reversed, Tidy
<1>7. \A r : Claims(x, {}, r) = {r}
  BY <1>4 DEF Claims
<1>8. Counted(x, {}) = DOMAIN b
  BY <1>1, <1>5 DEF Counted
<1>9. \A i \in DOMAIN x.vecs \ x.tomb : Placed(x, {}, i)
  BY <1>1, <1>2, <1>4 DEF Placed
<1>10. Sound(x, {})
  BY <1>1, <1>2, <1>6, <1>7, <1>8, <1>9 DEF Sound
<1>11. \A r : Now(x, r).ver = r
  BY <1>4 DEF Now
<1> QED
  BY <1>10, <1>11

\* The call of w goes on as d, or returns, or concerns payloads only.
Advances(w, d) ==
  /\ local[w] \in Holding /\ d \in VectorCall
  /\ local' = [local EXCEPT ![w] = d]
  /\ d.pc # "log" /\ RecordOf(d) = RecordOf(local[w]) /\ d.real = local[w].real
  /\ d.kind = local[w].kind
  /\ Holding' = (Holding \ {local[w]}) \cup {d}
  /\ Change(ix, Holding, ix', Holding', d.real) /\ Sound(ix', Holding')

LogsCall(w) ==
  /\ \E d \in VectorCall : Advances(w, d) /\ d.lsn = Len(log')
  /\ local[w].pc = "log" /\ ix' = ix
  /\ log' = IF enable_oplog THEN Append(log, RecordOf(local[w])) ELSE log
MovesOn(w) ==
  /\ \E d \in VectorCall : Advances(w, d) /\ d.lsn = local[w].lsn
  /\ local[w].pc # "log" /\ log' = log
Returns(w) ==
  /\ local[w] \in Holding /\ local[w].pc # "log" /\ log' = log
  /\ local' = [local EXCEPT ![w] = Idle]
  /\ Holding' = Holding \ {local[w]}
  /\ Change(ix, Holding, ix', Holding', local[w].real) /\ Sound(ix', Holding')
  /\ Now(ix', local[w].real) = After(RecordOf(local[w]))
Aside == ix' = ix /\ Holding' = Holding /\ log' = log

\* Calls are in flight and no call has failed.
Working == IInv /\ OneHolder /\ phase = "open" /\ Sound(ix, Holding)

LEMMA CallOf ==
  ASSUME Working, NEW w \in Writers, IsVector(local[w])
  PROVE  /\ ix \in Index /\ Holding \in SUBSET VectorCall /\ local[w] \in Holding
         /\ local[w] \in VectorCall
         /\ local[w] \in InsertCall \cup VersionCall \cup DeleteCall
         /\ Sound(ix, Holding) /\ Types /\ OneHolder
<1>1. Types /\ ix \in Index
  BY DEF Working, IInv, Types
<1>2. Holding \subseteq VectorCall /\ local[w] \in Holding
  BY <1>1, HoldingFacts
<1> QED
  BY <1>1, <1>2 DEF Working, VectorCall

LEMMA AdvanceStep ==
  ASSUME Working, NEW w \in Writers, IsVector(local[w]),
         NEW d \in VectorCall, local' = [local EXCEPT ![w] = d],
         d.pc # "log", RecordOf(d) = RecordOf(local[w]), d.real = local[w].real,
         d.kind = local[w].kind,
         \A D : D = (Holding \ {local[w]}) \cup {d} =>
                  Change(ix, Holding, ix', D, local[w].real) /\ Sound(ix', D)
  PROVE  OneHolder' /\ Advances(w, d)
<1>1. Types /\ OneHolder /\ local[w] \in Holding
  BY CallOf
<1>2. IsVector(d)
  BY VectorCallFacts DEF IsVector
<1>3. OneHolder' /\ Holding' = (Holding \ {local[w]}) \cup {d}
  BY <1>1, <1>2, HoldingStep
<1> QED
  BY <1>1, <1>3 DEF Advances

LEMMA ReturnHolding ==
  ASSUME Working, NEW w \in Writers, IsVector(local[w]),
         local' = [local EXCEPT ![w] = Idle]
  PROVE  OneHolder' /\ Holding' = Holding \ {local[w]}
<1>1. Types /\ OneHolder /\ local[w] \in Holding
  BY CallOf
<1>2. ~IsVector(Idle)
  BY DEF IsVector, Idle
<1> QED
  BY <1>1, <1>2, HoldingStep

LEMMA SameRecord ==
  ASSUME NEW c \in VectorCall, NEW d \in VectorCall, d.kind = c.kind, d.real = c.real, d.new = c.new,
         d.old = c.old, d.vec = c.vec, d.arg = c.arg
  PROVE  RecordOf(d) = RecordOf(c)
  BY DEF RecordOf

LEMMA LogOpMoves ==
  ASSUME Working, NEW w \in Writers, LogOp(w)
  PROVE  OneHolder' /\ LogsCall(w)
<1> DEFINE c == local[w]
           d == [c EXCEPT !.lsn = Len(log'),
                          !.pc = CASE c.kind = "reinsert" -> "map"
                                   [] c.kind = "delete" -> "tomb"
                                   [] OTHER -> "node"]
<1>1. c.pc = "log" /\ ix' = ix
      /\ log' = IF enable_oplog THEN Append(log, RecordOf(c)) ELSE log
  BY DEF LogOp, RecordOf
<1>a. local \in [Writers -> Call] /\ log \in Seq(Record)
  BY DEF Working, IInv, Types
<1>2. c \in VectorCall /\ c.kind \in VectorKinds
  BY <1>1, <1>a DEF Call, Idle, PayloadCall, VectorCall, VectorKinds, InsertCall, VersionCall, DeleteCall
<1>3. IsVector(c)
  BY <1>1, <1>2 DEF IsVector
<1>4. Len(log') \in Nat
  <2>1. CASE enable_oplog
    BY <1>1, <1>a, <2>1
  <2>2. CASE ~enable_oplog
    BY <1>1, <1>a, <2>2
  <2> QED
    BY <2>1, <2>2
<1>5. local' = [local EXCEPT ![w] = d]
  BY <1>2, <1>a DEF LogOp, VectorCall, InsertCall, VersionCall, DeleteCall
<1>6. /\ d \in VectorCall /\ d.kind = c.kind /\ d.real = c.real /\ d.new = c.new
      /\ d.old = c.old /\ d.vec = c.vec /\ d.arg = c.arg /\ d.lsn = Len(log')
      /\ c.kind = "delete" => d.alive = c.alive
      /\ d.pc = CASE c.kind = "reinsert" -> "map"
                  [] c.kind = "delete" -> "tomb"
                  [] OTHER -> "node"
  <2>1. CASE c \in InsertCall
    BY <1>4, <2>1 DEF InsertCall, VectorCall
  <2>2. CASE c \in VersionCall
    BY <1>4, <2>2 DEF VersionCall, VectorCall
  <2>3. CASE c \in DeleteCall
    BY <1>4, <2>3 DEF DeleteCall, VectorCall
  <2> QED
    BY <1>2, <2>1, <2>2, <2>3 DEF VectorCall
<1> HIDE DEF d
<1>7. ix \in Index /\ Holding \in SUBSET VectorCall /\ c \in Holding /\ Sound(ix, Holding)
  BY <1>3, CallOf
<1>8. Fits(ix, c)
  BY <1>7 DEF Sound
<1>9. /\ Fits(ix, d) /\ (Leaving(d) <=> Leaving(c))
      /\ c.kind = "update" => (c.pc = "map" <=> d.pc = "map") /\ (c.pc = "tomb" <=> d.pc = "tomb")
  BY <1>1, <1>2, <1>6, <1>7, <1>8, QuietFits
<1>10. \A D : D = (Holding \ {c}) \cup {d} =>
                 Change(ix, Holding, ix', D, c.real) /\ Sound(ix', D)
  BY <1>1, <1>6, <1>7, <1>9, QuietMove
<1>11. d.pc # "log" /\ RecordOf(d) = RecordOf(c)
  BY <1>2, <1>6, SameRecord
<1>12. OneHolder' /\ Advances(w, d)
  BY <1>3, <1>5, <1>6, <1>10, <1>11, AdvanceStep
<1>13. \E e \in VectorCall : Advances(w, e) /\ e.lsn = Len(log')
  BY <1>6, <1>12
<1> QED
  BY <1>1, <1>12, <1>13 DEF LogsCall

\* A call that goes on with another pc.
LEMMA GotoMoves ==
  ASSUME Working, NEW w \in Writers, IsVector(local[w]), local[w].pc # "log", log' = log,
         NEW pc, pc # "log", Goto(w, pc),
         \A D, d : /\ d = [local[w] EXCEPT !.pc = pc] /\ D = (Holding \ {local[w]}) \cup {d}
                   => d \in VectorCall /\ Change(ix, Holding, ix', D, local[w].real) /\ Sound(ix', D)
  PROVE  OneHolder' /\ MovesOn(w)
<1> DEFINE c == local[w]
           d == [c EXCEPT !.pc = pc]
<1>1. local \in [Writers -> Call]
  BY DEF Working, IInv, Types
<1>2. local' = [local EXCEPT ![w] = d]
  BY <1>1 DEF Goto
<1>3. c \in InsertCall \cup VersionCall \cup DeleteCall /\ c \in VectorCall
  BY CallOf
<1>4. /\ d.kind = c.kind /\ d.real = c.real /\ d.new = c.new
      /\ d.old = c.old /\ d.vec = c.vec /\ d.arg = c.arg /\ d.lsn = c.lsn /\ d.pc = pc
  BY <1>3 DEF InsertCall, VersionCall, DeleteCall
<1>5. d \in VectorCall
  OBVIOUS
<1>6. \A D : D = (Holding \ {c}) \cup {d} => Change(ix, Holding, ix', D, c.real) /\ Sound(ix', D)
  OBVIOUS
<1> HIDE DEF d
<1>7. RecordOf(d) = RecordOf(c)
  BY <1>3, <1>4, <1>5, SameRecord
<1>8. OneHolder' /\ Advances(w, d)
  BY <1>2, <1>4, <1>5, <1>6, <1>7, AdvanceStep
<1> QED
  BY <1>4, <1>5, <1>8 DEF MovesOn

\* Which pcs are those of vector calls.
LEMMA VectorPc ==
  ASSUME Types, NEW w \in Writers,
         \/ local[w].pc \in {"log", "node", "abort", "map", "tomb", "row", "drop", "forget"}
         \/ local[w].pc # "idle" /\ local[w].kind \in VectorKinds
  PROVE  IsVector(local[w])
<1>1. local[w] \in Call
  BY DEF Types
<1> QED
  BY <1>1 DEF Call, Idle, PayloadCall, VectorKinds, InsertCall, VersionCall, DeleteCall, IsVector

LEMMA InsertNodeMoves ==
  ASSUME Working, IInv', NEW w \in Writers, InsertNode(w)
  PROVE  OneHolder' /\ MovesOn(w)
<1> DEFINE c == local[w]
           pc == IF c.kind = "update" THEN "map" ELSE "row"
<1>1. /\ c.pc = "node" /\ log' = log /\ Goto(w, pc)
      /\ ix' = IF c.kind = "update" THEN insertNode(ix, c.new, c.vec)
               ELSE [insertNode(ix, c.new, c.vec) EXCEPT !.count = @ + 1]
  BY DEF InsertNode, durable
<1>2. IsVector(c)
  BY <1>1, VectorPc DEF Working, IInv
<1>3. ix \in Index /\ Holding \in SUBSET VectorCall /\ c \in Holding /\ Sound(ix, Holding)
      /\ ix' \in Index /\ c \in InsertCall \cup VersionCall \cup DeleteCall
  BY <1>2, CallOf DEF IInv, Types
<1>4. ASSUME NEW D, NEW d, d = [c EXCEPT !.pc = pc], D = (Holding \ {c}) \cup {d}
      PROVE  d \in VectorCall /\ Change(ix, Holding, ix', D, c.real) /\ Sound(ix', D)
  <2>1. d \in VectorCall
    BY <1>1, <1>3, <1>4 DEF InsertCall, VersionCall, DeleteCall, VectorCall
  <2> QED
    BY <1>1, <1>3, <1>4, <2>1, InsertNodeSound
<1>5. c.pc # "log" /\ pc # "log"
  BY <1>1
<1> HIDE DEF pc
<1> QED
  BY <1>1, <1>2, <1>4, <1>5, GotoMoves DEF pc

LEMMA RecordMappingMoves ==
  ASSUME Working, NEW w \in Writers, RecordMapping(w)
  PROVE  OneHolder' /\ MovesOn(w)
<1> DEFINE c == local[w]
           pc == IF c.kind = "update" THEN "tomb" ELSE "node"
<1>1. /\ c.pc = "map" /\ log' = log /\ Goto(w, pc)
      /\ ix' = record_update_mapping(ix, c.real, c.new)
  BY DEF RecordMapping, durable
<1>2. IsVector(c)
  BY <1>1, VectorPc DEF Working, IInv
<1>3. ix \in Index /\ Holding \in SUBSET VectorCall /\ c \in Holding /\ Sound(ix, Holding)
      /\ c \in InsertCall \cup VersionCall \cup DeleteCall
  BY <1>2, CallOf
<1>4. ASSUME NEW D, NEW d, d = [c EXCEPT !.pc = pc], D = (Holding \ {c}) \cup {d}
      PROVE  d \in VectorCall /\ Change(ix, Holding, ix', D, c.real) /\ Sound(ix', D)
  <2>1. d \in VectorCall
    BY <1>1, <1>3, <1>4 DEF InsertCall, VersionCall, DeleteCall, VectorCall
  <2> QED
    BY <1>1, <1>3, <1>4, <2>1, RecordMappingSound
<1>5. c.pc # "log" /\ pc # "log"
  BY <1>1
<1> HIDE DEF pc
<1> QED
  BY <1>1, <1>2, <1>4, <1>5, GotoMoves DEF pc

LEMMA TombstoneMoves ==
  ASSUME Working, NEW w \in Writers, Tombstone(w)
  PROVE  OneHolder' /\ MovesOn(w)
<1> DEFINE c == local[w]
           pc == IF c.kind = "update" /\ c.arg = Absent THEN "read"
                 ELSE IF c.kind = "delete" THEN "drop" ELSE "row"
<1>1. /\ c.pc = "tomb" /\ log' = log /\ Goto(w, pc)
      /\ ix' = tombstone(ix, c.old)
  BY DEF Tombstone, durable
<1>2. IsVector(c)
  BY <1>1, VectorPc DEF Working, IInv
<1>3. ix \in Index /\ Holding \in SUBSET VectorCall /\ c \in Holding /\ Sound(ix, Holding)
      /\ c \in InsertCall \cup VersionCall \cup DeleteCall
  BY <1>2, CallOf
<1>4. ASSUME NEW D, NEW d, d = [c EXCEPT !.pc = pc], D = (Holding \ {c}) \cup {d}
      PROVE  d \in VectorCall /\ Change(ix, Holding, ix', D, c.real) /\ Sound(ix', D)
  <2>1. d \in VectorCall
    <3>1. CASE c \in VersionCall
      BY <1>1, <1>4, <3>1 DEF VersionCall, VectorCall
    <3>2. CASE c \in DeleteCall
      BY <1>1, <1>4, <3>2 DEF DeleteCall, VectorCall
    <3> QED
      BY <1>1, <1>3, <3>1, <3>2 DEF InsertCall
  <2> QED
    BY <1>1, <1>3, <1>4, <2>1, TombstoneSound
<1>5. c.pc # "log" /\ pc # "log"
  BY <1>1
<1> HIDE DEF pc
<1> QED
  BY <1>1, <1>2, <1>4, <1>5, GotoMoves DEF pc

\* A step that leaves the index alone.
LEMMA QuietMoves ==
  ASSUME Working, NEW w \in Writers, IsVector(local[w]), log' = log, ix' = ix,
         NEW d \in VectorCall, local' = [local EXCEPT ![w] = d],
         d.real = local[w].real, d.new = local[w].new, d.old = local[w].old,
         d.kind = local[w].kind, d.vec = local[w].vec, d.arg = local[w].arg, d.lsn = local[w].lsn,
         local[w].kind = "delete" => d.alive = local[w].alive,
         \/ local[w].kind = "update" /\ local[w].pc = "read" /\ d.pc \in {"row", "drop"}
         \/ local[w].kind = "update" /\ local[w].pc = "row" /\ d.pc = "drop"
         \/ local[w].kind = "delete" /\ local[w].pc = "drop" /\ d.pc = "forget"
  PROVE  OneHolder' /\ MovesOn(w)
<1> DEFINE c == local[w]
<1>1. ix \in Index /\ Holding \in SUBSET VectorCall /\ c \in Holding /\ Sound(ix, Holding)
      /\ c \in VectorCall
  BY CallOf
<1>2. Fits(ix, c)
  BY <1>1 DEF Sound
<1>3. /\ Fits(ix, d) /\ (Leaving(d) <=> Leaving(c))
      /\ c.kind = "update" => (c.pc = "map" <=> d.pc = "map") /\ (c.pc = "tomb" <=> d.pc = "tomb")
  BY <1>1, <1>2, QuietFits
<1>4. \A D : D = (Holding \ {c}) \cup {d} =>
                 Change(ix, Holding, ix', D, c.real) /\ Sound(ix', D)
  BY <1>1, <1>3, QuietMove
<1>5. d.pc # "log" /\ c.pc # "log" /\ RecordOf(d) = RecordOf(c)
  BY <1>1, SameRecord
<1>6. OneHolder' /\ Advances(w, d)
  BY <1>4, <1>5, AdvanceStep
<1> QED
  BY <1>5, <1>6 DEF MovesOn

LEMMA ReadOldRowMoves ==
  ASSUME Working, NEW w \in Writers, ReadOldRow(w)
  PROVE  OneHolder' /\ MovesOn(w)
<1> DEFINE c == local[w]
           pc == IF c.old \in DOMAIN rows THEN "row" ELSE "drop"
           read == IF c.old \in DOMAIN rows THEN rows[c.old] ELSE {}
           d == [c EXCEPT !.pc = pc, !.read = read]
<1>1. c.pc = "read" /\ c.kind \in VectorKinds /\ log' = log /\ ix' = ix
  BY DEF ReadOldRow, durable
<1>2. IsVector(c) /\ c \in Call
  BY <1>1, VectorPc DEF Working, IInv, Types
<1>3. c \in VersionCall /\ c \in VectorCall
  BY <1>1, <1>2 DEF Call, Idle, InsertCall, DeleteCall, PayloadCall, PayloadKinds, VectorKinds, VectorCall
<1>4. c.kind = "update"
  BY <1>1, <1>2, <1>3, CallOf DEF Sound, Fits, ReinsertFits, VersionCall
<1>5. local' = [local EXCEPT ![w] = d]
  BY <1>3 DEF ReadOldRow, VersionCall, Working, IInv, Types
<1>6. read \in Payloads
  BY MapValues DEF Working, IInv, Types, Payloads
<1>7. pc \in {"row", "drop"}
  OBVIOUS
<1> HIDE DEF pc, read
<1>8. d \in VectorCall /\ d.real = c.real /\ d.new = c.new /\ d.old = c.old
      /\ d.kind = c.kind /\ d.vec = c.vec /\ d.arg = c.arg /\ d.lsn = c.lsn /\ d.pc = pc
  BY <1>3, <1>6, <1>7 DEF VersionCall, VectorCall
<1> HIDE DEF d
<1> QED
  BY <1>1, <1>2, <1>4, <1>5, <1>7, <1>8, QuietMoves

\* An upsert returns.
LEMMA UpsertReturns ==
  ASSUME Working, NEW w \in Writers, IsVector(local[w]), log' = log, ix' = ix,
         local' = [local EXCEPT ![w] = Idle], local[w].kind # "delete",
         local[w].pc = (IF local[w].kind = "update" THEN "drop" ELSE "row")
  PROVE  OneHolder' /\ Returns(w)
<1> DEFINE c == local[w]
<1>1. ix \in Index /\ Holding \in SUBSET VectorCall /\ c \in Holding /\ Sound(ix, Holding)
      /\ c \in VectorCall
  BY CallOf
<1>2. Tidy(ix, c.real) /\ Now(ix, c.real) = After(RecordOf(c))
  BY <1>1, UpsertDone
<1>3. ~Leaving(c) /\ (c.kind = "update" => c.pc \notin {"map", "tomb"}) /\ c.pc # "log"
  BY DEF Leaving
<1>4. Change(ix, Holding, ix, Holding \ {c}, c.real) /\ Sound(ix, Holding \ {c})
  BY <1>1, <1>2, <1>3, QuietReturn
<1>5. OneHolder' /\ Holding' = Holding \ {c}
  BY ReturnHolding
<1> QED
  BY <1>1, <1>2, <1>3, <1>4, <1>5 DEF Returns

LEMMA WriteRowMoves ==
  ASSUME Working, NEW w \in Writers, WriteRow(w)
  PROVE  OneHolder' /\ (MovesOn(w) \/ Returns(w))
<1> DEFINE c == local[w]
<1>1. c.pc = "row" /\ log' = log /\ ix' = ix
  BY DEF WriteRow, durable
<1>2. IsVector(c)
  BY <1>1, VectorPc DEF Working, IInv
<1>3. c \in InsertCall \cup VersionCall \cup DeleteCall /\ local \in [Writers -> Call]
  BY <1>2, CallOf DEF Types
<1>4. CASE c.kind = "update"
  <2> DEFINE d == [c EXCEPT !.pc = "drop"]
  <2>1. local' = [local EXCEPT ![w] = d]
    BY <1>3, <1>4 DEF WriteRow, Goto
  <2>2. c \in VersionCall
    BY <1>3, <1>4 DEF InsertCall, DeleteCall
  <2>3. d \in VectorCall /\ d.real = c.real /\ d.new = c.new /\ d.old = c.old
        /\ d.kind = c.kind /\ d.vec = c.vec /\ d.arg = c.arg /\ d.lsn = c.lsn /\ d.pc = "drop"
    BY <2>2 DEF VersionCall, VectorCall
  <2> HIDE DEF d
  <2> QED
    BY <1>1, <1>2, <1>4, <2>1, <2>3, QuietMoves
<1>5. CASE c.kind # "update"
  <2>1. local' = [local EXCEPT ![w] = Idle]
    BY <1>5 DEF WriteRow, Acked
  <2>2. c.kind # "delete"
    BY <1>1, <1>3 DEF InsertCall, VersionCall, DeleteCall
  <2> QED
    BY <1>1, <1>2, <1>5, <2>1, <2>2, UpsertReturns
<1> QED
  BY <1>4, <1>5

LEMMA DropRowMoves ==
  ASSUME Working, NEW w \in Writers, DropRow(w)
  PROVE  OneHolder' /\ (MovesOn(w) \/ Returns(w))
<1> DEFINE c == local[w]
<1>1. c.pc = "drop" /\ log' = log /\ ix' = ix
  BY DEF DropRow, durable
<1>2. IsVector(c)
  BY <1>1, VectorPc DEF Working, IInv
<1>3. c \in InsertCall \cup VersionCall \cup DeleteCall /\ local \in [Writers -> Call]
      /\ Fits(ix, c)
  BY <1>2, CallOf DEF Types, Sound
<1>4. CASE c.kind = "delete"
  <2> DEFINE d == [c EXCEPT !.pc = "forget"]
  <2>1. local' = [local EXCEPT ![w] = d]
    BY <1>3, <1>4 DEF DropRow, Goto
  <2>2. c \in DeleteCall
    BY <1>3, <1>4 DEF InsertCall, VersionCall
  <2>3. d \in VectorCall /\ d.real = c.real /\ d.new = c.new /\ d.old = c.old /\ d.alive = c.alive
        /\ d.kind = c.kind /\ d.vec = c.vec /\ d.arg = c.arg /\ d.lsn = c.lsn /\ d.pc = "forget"
    BY <2>2 DEF DeleteCall, VectorCall
  <2> HIDE DEF d
  <2> QED
    BY <1>1, <1>2, <1>4, <2>1, <2>3, QuietMoves
<1>5. CASE c.kind # "delete"
  <2>1. local' = [local EXCEPT ![w] = Idle]
    BY <1>5 DEF DropRow, Acked
  <2>2. c.kind = "update"
    BY <1>1, <1>3, <1>5 DEF InsertCall, VersionCall, DeleteCall, Fits, ReinsertFits
  <2> QED
    BY <1>1, <1>2, <1>5, <2>1, <2>2, UpsertReturns
<1> QED
  BY <1>4, <1>5

LEMMA ForgetMappingReturns ==
  ASSUME Working, NEW w \in Writers, ForgetMapping(w)
  PROVE  OneHolder' /\ Returns(w)
<1> DEFINE c == local[w]
<1>1. /\ c.pc = "forget" /\ log' = log
      /\ local' = [local EXCEPT ![w] = Idle]
      /\ ix' = IF c.alive THEN [forget_update_mapping(ix, c.real) EXCEPT !.count = @ - 1]
               ELSE forget_update_mapping(ix, c.real)
  BY DEF ForgetMapping, Acked, durable
<1>2. IsVector(c)
  BY <1>1, VectorPc DEF Working, IInv
<1>3. ix \in Index /\ Holding \in SUBSET VectorCall /\ c \in Holding /\ Sound(ix, Holding)
  BY <1>2, CallOf
<1>4. /\ Change(ix, Holding, ix', Holding \ {c}, c.real) /\ Sound(ix', Holding \ {c})
      /\ Now(ix', c.real) = After(RecordOf(c))
  BY <1>1, <1>3, ForgetMappingSound
<1>5. OneHolder' /\ Holding' = Holding \ {c}
  BY <1>1, <1>2, ReturnHolding
<1> QED
  BY <1>1, <1>3, <1>4, <1>5 DEF Returns

\* A vector call begins.
Starts(w) ==
  \E c \in VectorCall :
    /\ c.pc = "log" /\ c.lsn = 0 /\ local' = [local EXCEPT ![w] = c]
    /\ \A d \in Holding : d.real # c.real
    /\ Holding' = Holding \cup {c}
    /\ Change(ix, Holding, ix', Holding', c.real) /\ Sound(ix', Holding')
    /\ Now(ix', c.real) = Now(ix, c.real)
    /\ c.kind \in {"reinsert", "update"} => c.new = ix.next
    /\ log' = log

LEMMA PayloadAside ==
  ASSUME Working, NEW w \in Writers, ~IsVector(local[w]), NEW d, ~IsVector(d),
         local' = [local EXCEPT ![w] = d], ix' = ix, log' = log
  PROVE  OneHolder' /\ Aside
<1>1. Types /\ OneHolder
  BY DEF Working, IInv
<1>2. OneHolder' /\ Holding' = Holding
  BY <1>1, HoldingStep
<1> QED
  BY <1>2 DEF Aside

LEMMA PayloadStepAside ==
  ASSUME Working, NEW w \in Writers, ReadRow(w) \/ NoSuchRow(w) \/ PutRow(w)
  PROVE  OneHolder' /\ Aside
<1> DEFINE c == local[w]
<1>1. c \in Call /\ local \in [Writers -> Call]
  BY DEF Working, IInv, Types
<1>2. c \in PayloadCall
  BY <1>1 DEF ReadRow, NoSuchRow, PutRow, Call, Idle, PayloadKinds, InsertCall, VersionCall, DeleteCall
<1>3. ~IsVector(c) /\ ~IsVector(Idle)
  BY <1>2 DEF IsVector, Idle, PayloadCall, PayloadKinds, VectorKinds
<1>4. ix' = ix /\ log' = log
  BY DEF ReadRow, NoSuchRow, PutRow, durable
<1>5. CASE ReadRow(w)
  <2> DEFINE d == [c EXCEPT !.pc = "put", !.read = IF c.new \in DOMAIN rows THEN rows[c.new] ELSE {}]
  <2>1. local' = [local EXCEPT ![w] = d]
    BY <1>1, <1>2, <1>5 DEF ReadRow, PayloadCall
  <2>2. d.kind = c.kind
    BY <1>2 DEF PayloadCall
  <2>3. ~IsVector(d)
    BY <1>2, <2>2 DEF IsVector, PayloadCall, PayloadKinds, VectorKinds
  <2> HIDE DEF d
  <2> QED
    BY <1>3, <1>4, <2>1, <2>3, PayloadAside
<1>6. CASE NoSuchRow(w) \/ PutRow(w)
  <2>1. local' = [local EXCEPT ![w] = Idle]
    BY <1>6 DEF NoSuchRow, PutRow, Acked
  <2> QED
    BY <1>3, <1>4, <2>1, PayloadAside
<1> QED
  BY <1>5, <1>6

LEMMA StepEffect ==
  ASSUME Working, IInv', UsedType, used.failures = 0, used'.failures = 0, NEW w \in Writers, Step(w)
  PROVE  /\ OneHolder' /\ UNCHANGED <<enable_oplog, phase, main, prev>>
         /\ LogsCall(w) \/ MovesOn(w) \/ Returns(w) \/ Aside
<1>1. UNCHANGED <<enable_oplog, phase, main, prev>>
  BY DEF Step, LogOp, LogOpFails, InsertNode, InsertNodeFails, LogAbort, RecordMapping, Tombstone,
         ReadOldRow, ReadOldRowFails, WriteRow, DropRow, RowFails, ForgetMapping, ReadRow, NoSuchRow, PutRow, durable
<1>2. ~Fault
  BY DEF Fault, UsedType
<1>3. ~LogOpFails(w) /\ ~InsertNodeFails(w) /\ ~RowFails(w) /\ ~ReadOldRowFails(w)
  BY <1>2 DEF LogOpFails, InsertNodeFails, RowFails, ReadOldRowFails
<1>4. ~LogAbort(w)
  <2> SUFFICES ASSUME local[w].pc = "abort" PROVE FALSE
    BY DEF LogAbort
  <2>1. IsVector(local[w])
    BY VectorPc DEF Working, IInv
  <2>2. Fits(ix, local[w]) /\ local[w] \in VectorCall
    BY <2>1, CallOf DEF Sound
  <2>3. local[w].kind \in VectorKinds
    BY <2>2, VectorCallFacts
  <2> QED
    BY <2>2, <2>3 DEF Fits, InsertFits, ReinsertFits, UpdateFits, DeleteFits, VectorKinds
<1> QED
  BY <1>1, <1>3, <1>4, LogOpMoves, InsertNodeMoves, RecordMappingMoves, TombstoneMoves, ReadOldRowMoves,
     WriteRowMoves, DropRowMoves, ForgetMappingReturns, PayloadStepAside DEF Step

LEMMA StartHolding ==
  ASSUME Working, NEW w \in Writers, ~Busy(w), NEW c \in VectorCall, ~Locked(c.real),
         local' = [local EXCEPT ![w] = c]
  PROVE  /\ OneHolder' /\ Holding' = Holding \cup {c}
         /\ \A d \in Holding : d.real # c.real
<1>1. Types /\ OneHolder
  BY DEF Working, IInv
<1>2. IsVector(c) /\ ~IsVector(local[w])
  BY VectorCallFacts DEF IsVector, Busy
<1>3. OneHolder' /\ Holding' = Holding \cup {c}
  BY <1>1, <1>2, HoldingStep
<1> QED
  BY <1>1, <1>3, LockedHolding

LEMMA BeginUpsertStarts ==
  ASSUME Working, NEW w \in Writers, NEW r \in RealIds, NEW v \in Vecs,
         NEW p \in Payloads \cup {Absent}, NEW kind \in {"insert", "reinsert", "update"},
         BeginUpsert(w, r, v, p, kind),
         kind = "update" <=> is_alive(ix, r),
         kind = "reinsert" => r \in ix.tomb,
         kind = "insert" => r \notin ix.tomb
  PROVE  OneHolder' /\ Starts(w)
<1> DEFINE c == [pc |-> "log", kind |-> kind, real |-> r, vec |-> v, arg |-> p, lsn |-> 0,
                 new |-> Target(kind, r), old |-> resolve_internal(ix, r), read |-> {}]
<1>1. /\ ~Busy(w) /\ ~Locked(r) /\ log' = log /\ local' = [local EXCEPT ![w] = c]
      /\ ix' = IF kind = "insert" THEN ix ELSE [ix EXCEPT !.next = @ + 1]
  BY DEF BeginUpsert, CanBegin, Begun, durable
<1>2. /\ ix \in Index /\ ix.next \in UpdateIds /\ Holding \in SUBSET VectorCall /\ Sound(ix, Holding)
      /\ resolve_internal(ix, r) \in Nat
  <2>1. Types /\ ix \in Index /\ Sound(ix, Holding)
    BY DEF Working, IInv, Types
  <2> QED
    BY <2>1, HoldingFacts, IndexFields, ResolveInternal
<1>3. r \in Nat
  BY IdsAssumption
<1>4. c \in VectorCall
  <2>1. CASE kind = "insert"
    BY <1>2, <1>3, <2>1 DEF InsertCall, VectorCall, Target, Payloads
  <2>2. CASE kind # "insert"
    BY <1>2, <2>2 DEF VersionCall, VectorCall, Target, Payloads
  <2> QED
    BY <2>1, <2>2
<1>5. /\ c.pc = "log" /\ c.lsn = 0 /\ c.kind = kind /\ c.real = r /\ c.old = resolve_internal(ix, r)
      /\ c.new = IF kind = "insert" THEN r ELSE ix.next
  BY DEF Target
<1> HIDE DEF c
<1>6. OneHolder' /\ Holding' = Holding \cup {c} /\ \A d \in Holding : d.real # c.real
  BY <1>1, <1>4, <1>5, StartHolding
<1>7. /\ Change(ix, Holding, ix', Holding \cup {c}, c.real) /\ Sound(ix', Holding \cup {c})
      /\ Now(ix', c.real) = Now(ix, c.real)
  BY <1>1, <1>2, <1>4, <1>5, <1>6, UpsertBegun
<1>8. c.kind \in {"reinsert", "update"} => c.new = ix.next
  BY <1>5
<1> QED
  BY <1>1, <1>4, <1>5, <1>6, <1>7, <1>8 DEF Starts

LEMMA BeginDeleteStarts ==
  ASSUME Working, NEW w \in Writers, NEW r \in RealIds, BeginDelete(w, r)
  PROVE  OneHolder' /\ Starts(w)
<1> DEFINE i == resolve_internal(ix, r)
           c == [pc |-> "log", kind |-> "delete", real |-> r, vec |-> Gone, arg |-> Absent,
                 lsn |-> 0, new |-> i, old |-> i, read |-> {}, alive |-> is_alive(ix, r)]
<1>1. /\ ~Busy(w) /\ ~Locked(r) /\ log' = log /\ local' = [local EXCEPT ![w] = c]
      /\ ix' = ix /\ i \in DOMAIN ix.vecs
  BY DEF BeginDelete, CanBegin, Begun, durable
<1>2. /\ ix \in Index /\ Holding \in SUBSET VectorCall /\ Sound(ix, Holding) /\ i \in Nat
  <2>1. Types /\ ix \in Index /\ Sound(ix, Holding)
    BY DEF Working, IInv, Types
  <2> QED
    BY <2>1, HoldingFacts, ResolveInternal
<1>3. is_alive(ix, r) \in BOOLEAN
  BY DEF is_alive
<1> HIDE DEF i
<1>4. c \in VectorCall
  BY <1>2, <1>3 DEF DeleteCall, VectorCall, Payloads
<1>5. /\ c.pc = "log" /\ c.lsn = 0 /\ c.kind = "delete" /\ c.real = r /\ c.old = i /\ c.new = i
      /\ c.alive = is_alive(ix, r)
  OBVIOUS
<1> HIDE DEF c
<1>6. OneHolder' /\ Holding' = Holding \cup {c} /\ \A d \in Holding : d.real # c.real
  BY <1>1, <1>4, <1>5, StartHolding
<1>7. Change(ix, Holding, ix, Holding \cup {c}, c.real) /\ Sound(ix, Holding \cup {c})
  BY <1>1, <1>2, <1>4, <1>5, <1>6, DeleteBegun DEF i
<1>8. Now(ix', c.real) = Now(ix, c.real) /\ ~(c.kind \in {"reinsert", "update"})
  BY <1>1, <1>5
<1>9. /\ Change(ix, Holding, ix', Holding', c.real) /\ Sound(ix', Holding')
  BY <1>1, <1>6, <1>7
<1> QED
  BY <1>1, <1>4, <1>5, <1>6, <1>8, <1>9 DEF Starts

LEMMA BeginEffect ==
  ASSUME Working, NEW w \in Writers, Begin(w)
  PROVE  /\ OneHolder' /\ UNCHANGED <<enable_oplog, phase, main, prev>>
         /\ Starts(w) \/ Aside
<1>1. PICK r \in RealIds :
        \/ BeginDelete(w, r) \/ DeleteNothing(w, r)
        \/ \E p \in Payloads :
             \/ \E v \in Vecs, q \in {p, Absent} : BeginInsert(w, r, v, q) \/ BeginUpdate(w, r, v, q)
             \/ \E kind \in PayloadKinds : BeginPayload(w, r, kind, p)
  BY DEF Begin
<1>2. CASE BeginDelete(w, r)
  <2>1. UNCHANGED <<enable_oplog, phase, main, prev>>
    BY <1>2 DEF BeginDelete, durable
  <2> QED
    BY <1>2, <2>1, BeginDeleteStarts
<1>3. CASE DeleteNothing(w, r)
  BY <1>3 DEF DeleteNothing, durable, Aside, Holding, OneHolder, Busy, Working
<1>4. ASSUME NEW p \in Payloads, NEW v \in Vecs, NEW q \in {p, Absent}, BeginInsert(w, r, v, q)
      PROVE  /\ OneHolder' /\ UNCHANGED <<enable_oplog, phase, main, prev>>
             /\ Starts(w) \/ Aside
  <2> DEFINE kind == IF r \in ix.tomb THEN "reinsert" ELSE "insert"
  <2>1. ~is_alive(ix, r) /\ BeginUpsert(w, r, v, q, kind)
    BY <1>4 DEF BeginInsert
  <2>2. q \in Payloads \cup {Absent}
    OBVIOUS
  <2>3. UNCHANGED <<enable_oplog, phase, main, prev>>
    BY <2>1 DEF BeginUpsert, durable
  <2>4. kind \in {"insert", "reinsert"} /\ (kind = "reinsert" <=> r \in ix.tomb)
    OBVIOUS
  <2> HIDE DEF kind
  <2> QED
    BY <2>1, <2>2, <2>3, <2>4, BeginUpsertStarts
<1>5. ASSUME NEW p \in Payloads, NEW v \in Vecs, NEW q \in {p, Absent}, BeginUpdate(w, r, v, q)
      PROVE  /\ OneHolder' /\ UNCHANGED <<enable_oplog, phase, main, prev>>
             /\ Starts(w) \/ Aside
  <2>1. is_alive(ix, r) /\ BeginUpsert(w, r, v, q, "update")
    BY <1>5 DEF BeginUpdate
  <2>2. q \in Payloads \cup {Absent}
    OBVIOUS
  <2>3. UNCHANGED <<enable_oplog, phase, main, prev>>
    BY <2>1 DEF BeginUpsert, durable
  <2> QED
    BY <2>1, <2>2, <2>3, BeginUpsertStarts
<1>6. ASSUME NEW p \in Payloads, NEW kind \in PayloadKinds, BeginPayload(w, r, kind, p)
      PROVE  /\ OneHolder' /\ UNCHANGED <<enable_oplog, phase, main, prev>>
             /\ Starts(w) \/ Aside
  <2> DEFINE c == [pc |-> IF kind = "set" THEN "put" ELSE "read", kind |-> kind, real |-> r,
                   arg |-> p, lsn |-> 0, new |-> resolve_internal(ix, r), read |-> {}]
  <2>1. /\ ~Busy(w) /\ log' = log /\ local' = [local EXCEPT ![w] = c] /\ ix' = ix
        /\ UNCHANGED <<enable_oplog, phase, main, prev>>
    BY <1>6 DEF BeginPayload, CanBegin, Begun, durable
  <2>2. ~IsVector(local[w]) /\ ~IsVector(c)
    BY <2>1 DEF IsVector, Busy, PayloadKinds, VectorKinds
  <2> HIDE DEF c
  <2> QED
    BY <2>1, <2>2, PayloadAside
<1> QED
  BY <1>1, <1>2, <1>3, <1>4, <1>5, <1>6

LEMMA AfterCell ==
  ASSUME NEW rec \in UpsertRecord \cup DeleteRecord
  PROVE  After(rec) \in Cell /\ rec.real \in RealIds /\ rec.op # "abort"
<1>1. /\ rec.new \in Nat /\ rec.real \in RealIds /\ rec.vec \in Vecs \cup {Gone}
      /\ rec.op \in {"insert", "update", "delete"}
  BY DEF UpsertRecord, DeleteRecord
<1>2. rec.real \in Nat
  BY <1>1, IdsAssumption
<1>3. CASE rec.op = "delete"
  BY <1>1, <1>2, <1>3 DEF After, Cell
<1>4. CASE rec.op # "delete"
  <2>1. (rec.new # rec.real) \in BOOLEAN
    OBVIOUS
  <2> QED
    BY <1>1, <1>4, <2>1 DEF After, Cell
<1> QED
  BY <1>1, <1>3, <1>4

\* What Tells says of record k.
LEMMA TellsAt ==
  ASSUME NEW l \in Seq(Record), NEW hist, Tells(l, hist), NEW k \in 1..Len(l)
  PROVE  /\ l[k] \in UpsertRecord \cup DeleteRecord /\ l[k].real \in RealIds
         /\ hist[k][l[k].real] = Step1(hist[k-1][l[k].real], l, k)
         /\ hist[k][l[k].real].now = After(l[k]) /\ hist[k][l[k].real].last = k
         /\ \A r \in RealIds : r # l[k].real => hist[k][r] = hist[k-1][r]
         /\ Follows(hist[k-1][l[k].real].now, l[k])
<1>1. l[k] \in UpsertRecord \cup DeleteRecord
  <2>1. l[k].op # "abort"
    BY DEF Tells
  <2> QED
    BY <2>1 DEF Record, AbortRecord
<1>2. l[k].real \in RealIds
  BY <1>1 DEF UpsertRecord, DeleteRecord
<1>3. k-1 \in 0..Len(l) /\ hist[k-1] \in [RealIds -> Past]
  BY SMTT(30) DEF Tells
<1>4. hist[k] = [hist[k-1] EXCEPT ![l[k].real] = Step1(@, l, k)]
  BY DEF Tells
<1>5. hist[k][l[k].real] = Step1(hist[k-1][l[k].real], l, k)
  BY <1>2, <1>3, <1>4
<1>6. \A r \in RealIds : r # l[k].real => hist[k][r] = hist[k-1][r]
  BY <1>3, <1>4
<1>7. hist[k][l[k].real].now = After(l[k]) /\ hist[k][l[k].real].last = k
  BY <1>5 DEF Step1
<1>8. Follows(hist[k-1][l[k].real].now, l[k])
  BY DEF Tells
<1> QED
  BY <1>1, <1>2, <1>5, <1>6, <1>7, <1>8

\* What Tells says of r after the first k records.
LEMMA TellsFacts ==
  ASSUME NEW l \in Seq(Record), NEW hist, Tells(l, hist)
  PROVE  /\ \A k \in 0..Len(l) : hist[k] \in [RealIds -> Past]
         /\ \A k \in 0..Len(l), r \in RealIds :
              /\ hist[k][r] \in Past
              /\ hist[k][r].last \in 0..k
              /\ hist[k][r] = hist[hist[k][r].last][r]
              /\ hist[k][r].last > 0 => /\ l[hist[k][r].last].real = r
                                        /\ hist[k][r].now = After(l[hist[k][r].last])
<1>1. hist \in [0..Len(l) -> [RealIds -> Past]]
  BY DEF Tells
<1>3. ASSUME NEW k \in 0..Len(l), NEW r \in RealIds
      PROVE  /\ hist[k][r] \in Past
             /\ hist[k][r].last \in 0..k
             /\ hist[k][r] = hist[hist[k][r].last][r]
             /\ hist[k][r].last > 0 => /\ l[hist[k][r].last].real = r
                                       /\ hist[k][r].now = After(l[hist[k][r].last])
  <2> DEFINE m == hist[k][r].last
  <2>1. hist[k][r] \in Past
    BY <1>1
  <2>2. m \in Nat
    BY <2>1 DEF Past
  <2>3. m <= k /\ hist[k][r] = hist[m][r] /\ (m > 0 => l[m].real = r)
    BY DEF Tells
  <2> HIDE DEF m
  <2>4. ASSUME m > 0
        PROVE  hist[k][r].now = After(l[m])
    <3>1. m \in 1..Len(l)
      BY <2>2, <2>3, <2>4
    <3>2. hist[m][l[m].real].now = After(l[m])
      BY <3>1, TellsAt
    <3> QED
      BY <2>3, <2>4, <3>2
  <2> USE DEF m
  <2> QED
    BY <2>1, <2>2, <2>3, <2>4
<1> QED
  BY <1>1, <1>3

\* The record issues an id no record before it has issued.
IssuesAnew(l, rec) ==
  Issues(rec) /\ is_update_id(rec.new) => \A k \in 1..Len(l) : Issues(l[k]) => l[k].new # rec.new

\* m is l with rec added, and new tells of m what hist tells of l.
Grew(l, hist, rec, m, new) ==
  /\ Tells(m, new) /\ Len(m) = Len(l) + 1
  /\ \A k \in 0..Len(l) : new[k] = hist[k]
  /\ new[Len(m)] = [hist[Len(l)] EXCEPT ![rec.real] = Step1(@, m, Len(m))]
  /\ \A k \in 1..Len(l) : m[k] = l[k]

LEMMA TellsGrows ==
  ASSUME NEW l \in Seq(Record), NEW hist, Tells(l, hist),
         NEW rec \in UpsertRecord \cup DeleteRecord, Follows(hist[Len(l)][rec.real].now, rec),
         IssuesAnew(l, rec), NEW m, m = Append(l, rec), NEW new, new = Grown(hist, m)
  PROVE  Grew(l, hist, rec, m, new)
<1> DEFINE n == Len(l)
<1>1. /\ n \in Nat /\ Len(m) = n + 1 /\ m[n+1] = rec /\ \A k \in 1..n : m[k] = l[k]
  OBVIOUS
<1>a. Follows(hist[n][rec.real].now, rec)
      /\ (Issues(rec) /\ is_update_id(rec.new) => \A k \in 1..n : Issues(l[k]) => l[k].new # rec.new)
  BY DEF IssuesAnew
<1>b. /\ \A r \in RealIds : Fresh(hist[0][r], r)
      /\ \A k \in 1..n :
           /\ l[k].op # "abort"
           /\ hist[k] = [hist[k-1] EXCEPT ![l[k].real] = Step1(@, l, k)]
           /\ Follows(hist[k-1][l[k].real].now, l[k])
           /\ \A j \in 1..(k-1) :
                Issues(l[j]) /\ Issues(l[k]) /\ is_update_id(l[k].new) => l[j].new # l[k].new
      /\ \A k \in 0..n, r \in RealIds :
           LET u == hist[k][r].last
           IN /\ u <= k /\ hist[k][r] = hist[u][r]
              /\ u > 0 => l[u].real = r
              /\ \A j \in (u+1)..k : l[j].real # r
  BY DEF Tells
<1>2. hist \in [0..n -> [RealIds -> Past]]
  BY DEF Tells
<1> HIDE DEF n
<1>3. rec.real \in RealIds /\ After(rec) \in Cell /\ rec.op # "abort"
  BY AfterCell
<1>c. new = [k \in 0..(n+1) |-> IF k < n+1 THEN hist[k]
                                 ELSE [hist[k-1] EXCEPT ![m[k].real] = Step1(@, m, k)]]
  BY <1>1 DEF Grown
<1>4. /\ \A k \in 0..n : new[k] = hist[k]
      /\ new[n+1] = [hist[n] EXCEPT ![rec.real] = Step1(@, m, n+1)]
  <2>2. \A k \in 0..n : k \in 0..(n+1) /\ k < n+1
    BY <1>1
  <2>3. n+1 \in 0..(n+1) /\ ~(n+1 < n+1) /\ (n+1)-1 = n
    BY <1>1
  <2>4. \A k \in 0..n : new[k] = hist[k]
    BY <1>c, <2>2
  <2>5. new[n+1] = [hist[(n+1)-1] EXCEPT ![m[n+1].real] = Step1(@, m, n+1)]
    BY <1>c, <2>3, Zenon
  <2> QED
    BY <1>1, <2>3, <2>4, <2>5
<1>5. Step1(hist[n][rec.real], m, n+1) \in Past
  <2>1. Bare(rec, hist[n][rec.real].bare) \in BOOLEAN
    BY DEF Bare
  <2> QED
    BY <1>1, <1>3, <2>1 DEF Step1, Past
<1>6. hist[n] \in [RealIds -> Past]
  BY <1>1, <1>2
<1>7. new[n+1] \in [RealIds -> Past]
  BY <1>4, <1>5, <1>6
<1>8. new \in [0..(n+1) -> [RealIds -> Past]]
  <2>1. \A k \in 0..(n+1) : new[k] \in [RealIds -> Past]
    <3>1. \A k \in 0..(n+1) : k \in 0..n \/ k = n+1
      BY <1>1
    <3> QED
      BY <1>2, <1>4, <1>7, <3>1
  <2>2. new = [k \in 0..(n+1) |-> new[k]]
    BY <1>c
  <2> QED
    BY <2>1, <2>2
<1>9. \A r \in RealIds : Fresh(new[0][r], r)
  BY <1>1, <1>4, <1>b
<1>10. ASSUME NEW k \in 1..(n+1)
       PROVE  /\ m[k].op # "abort"
              /\ new[k] = [new[k-1] EXCEPT ![m[k].real] = Step1(@, m, k)]
              /\ Follows(new[k-1][m[k].real].now, m[k])
              /\ \A j \in 1..(k-1) :
                   Issues(m[j]) /\ Issues(m[k]) /\ is_update_id(m[k].new) => m[j].new # m[k].new
  <2>1. CASE k \in 1..n
    <3>a. k \in 0..n /\ k-1 \in 0..n /\ \A j \in 1..(k-1) : j \in 1..n
      BY <1>1, <2>1
    <3>1. /\ m[k] = l[k] /\ new[k] = hist[k] /\ new[k-1] = hist[k-1]
          /\ \A j \in 1..(k-1) : m[j] = l[j]
      BY <1>1, <1>4, <2>1, <3>a
    <3>2. Step1(hist[k-1][l[k].real], m, k) = Step1(hist[k-1][l[k].real], l, k)
      BY <3>1 DEF Step1
    <3>3. /\ l[k].op # "abort"
          /\ hist[k] = [hist[k-1] EXCEPT ![l[k].real] = Step1(hist[k-1][l[k].real], l, k)]
          /\ Follows(hist[k-1][l[k].real].now, l[k])
          /\ \A j \in 1..(k-1) :
                   Issues(l[j]) /\ Issues(l[k]) /\ is_update_id(l[k].new) => l[j].new # l[k].new
      BY <1>b, <2>1
    <3> QED
      BY <3>1, <3>2, <3>3
  <2>2. CASE k = n + 1
    <3>1. m[k] = rec /\ k - 1 = n /\ new[k-1] = hist[n]
      BY <1>1, <1>4, <2>2
    <3>2. \A j \in 1..(k-1) :
            Issues(m[j]) /\ Issues(m[k]) /\ is_update_id(m[k].new) => m[j].new # m[k].new
      BY <1>1, <1>a, <3>1
    <3> QED
      BY <1>3, <1>4, <1>a, <2>2, <3>1, <3>2
  <2>3. k \in 1..n \/ k = n + 1
    BY <1>1
  <2> QED
    BY <2>1, <2>2, <2>3
<1>11. ASSUME NEW k \in 0..(n+1), NEW r \in RealIds
       PROVE  LET u == new[k][r].last
              IN /\ u <= k /\ new[k][r] = new[u][r]
                 /\ u > 0 => m[u].real = r
                 /\ \A j \in (u+1)..k : m[j].real # r
  <2> DEFINE u == new[k][r].last
  <2>1. ASSUME NEW i \in 0..n, NEW v, v = hist[i][r].last
        PROVE  /\ v \in 0..i /\ hist[i][r] = hist[v][r]
               /\ v > 0 => l[v].real = r
               /\ \A j \in (v+1)..i : l[j].real # r
    <3>1. v \in Nat
      BY <1>1, <1>2, <2>1 DEF Past
    <3> QED
      BY <1>b, <2>1, <3>1
  <2>2. CASE k \in 0..n
    <3>1. u = hist[k][r].last /\ new[k] = hist[k]
      BY <1>4, <2>2
    <3> HIDE DEF u
    <3>2. u \in 0..k /\ hist[k][r] = hist[u][r] /\ (u > 0 => l[u].real = r)
          /\ \A j \in (u+1)..k : l[j].real # r
      BY <2>1, <2>2, <3>1
    <3>3. new[u] = hist[u] /\ (u > 0 => m[u] = l[u]) /\ \A j \in (u+1)..k : m[j] = l[j]
      BY <1>1, <1>4, <2>2, <3>2
    <3>a. new[k][r] = new[u][r]
      BY <3>1, <3>2, <3>3
    <3>4. u <= k /\ new[k][r] = new[u][r]
      BY <1>1, <2>2, <3>2, <3>a
    <3>5. u > 0 => m[u].real = r
      BY <3>2, <3>3
    <3>6. \A j \in (u+1)..k : m[j].real # r
      BY <3>2, <3>3
    <3> QED
      BY <3>4, <3>5, <3>6 DEF u
  <2>3. CASE k = n + 1 /\ r = rec.real
    <3>1. new[k][r] = Step1(hist[n][r], m, n+1)
      BY <1>3, <1>4, <1>6, <2>3
    <3>2. u = n + 1
      BY <3>1 DEF Step1
    <3> QED
      BY <1>1, <2>3, <3>2
  <2>4. CASE k = n + 1 /\ r # rec.real
    <3>1. new[k][r] = hist[n][r] /\ u = hist[n][r].last
      BY <1>3, <1>4, <1>6, <2>4
    <3> HIDE DEF u
    <3>2. u \in 0..n /\ hist[n][r] = hist[u][r] /\ (u > 0 => l[u].real = r)
          /\ \A j \in (u+1)..n : l[j].real # r
      BY <1>1, <2>1, <3>1
    <3>3. new[u] = hist[u] /\ (u > 0 => m[u] = l[u])
      BY <1>1, <1>4, <3>2
    <3>4. \A j \in (u+1)..k : m[j].real # r
      <4> SUFFICES ASSUME NEW j \in (u+1)..k PROVE m[j].real # r
        OBVIOUS
      <4>1. CASE j = n + 1
        BY <1>1, <2>4, <4>1
      <4>2. CASE j # n + 1
        <5>1. j \in (u+1)..n /\ j \in 1..n
          BY <1>1, <2>4, <3>2, <4>2
        <5> QED
          BY <1>1, <3>2, <5>1
      <4> QED
        BY <4>1, <4>2
    <3>5. u <= k
      BY <1>1, <2>4, <3>2
    <3>6. new[k][r] = new[u][r]
      BY <3>1, <3>2, <3>3
    <3>7. u > 0 => m[u].real = r
      BY <3>2, <3>3
    <3> QED
      BY <3>4, <3>5, <3>6, <3>7 DEF u
  <2>5. k \in 0..n \/ k = n + 1
    BY <1>1
  <2> HIDE DEF u
  <2> QED
    BY <2>2, <2>3, <2>4, <2>5 DEF u
<1>12. Tells(m, new)
  <2>1. \A k \in 1..Len(m) :
          /\ m[k].op # "abort"
          /\ new[k] = [new[k-1] EXCEPT ![m[k].real] = Step1(@, m, k)]
          /\ Follows(new[k-1][m[k].real].now, m[k])
          /\ \A j \in 1..(k-1) :
               Issues(m[j]) /\ Issues(m[k]) /\ is_update_id(m[k].new) => m[j].new # m[k].new
    BY <1>1, <1>10
  <2>2. \A k \in 0..Len(m), r \in RealIds :
          LET u == new[k][r].last
          IN /\ u <= k /\ new[k][r] = new[u][r]
             /\ u > 0 => m[u].real = r
             /\ \A j \in (u+1)..k : m[j].real # r
    BY <1>1, <1>11
  <2>3. new \in [0..Len(m) -> [RealIds -> Past]]
    BY <1>1, <1>8
  <2> QED
    BY <1>9, <2>1, <2>2, <2>3, Zenon DEF Tells
<1> QED
  BY <1>1, <1>4, <1>12 DEF n, Grew

\* No call has failed and the log is kept.
Logging(hist) == Working /\ Whole(hist) /\ enable_oplog

LEMMA LoggingFacts ==
  ASSUME NEW hist, Logging(hist)
  PROVE  /\ ix \in Index /\ log \in Seq(Record) /\ Len(log) \in Nat /\ Holding \subseteq VectorCall
         /\ Types /\ phase = "open" /\ Sound(ix, Holding) /\ OneHolder
         /\ Told(hist) /\ Tells(log, hist)
         /\ \A c \in Holding : CallTold(log, hist, ix, c)
         /\ \A r \in RealIds : (\A c \in Holding : c.real # r) => Now(ix, r) = hist[Len(log)][r].now
         /\ \A f \in Loadable : f.lsn \in Nat /\ f.lsn <= Len(log)
         /\ \A f \in Loadable : Abreast(hist, f.ix, f.lsn)
         /\ Reflects(log, ix, Len(log))
<1>1. Types /\ IInv /\ phase = "open" /\ Told(hist)
  BY DEF Logging, Working, Whole, IInv
<1>2. Holding \subseteq VectorCall
  BY <1>1, HoldingFacts
<1>3. \A f \in Loadable : f \in CheckpointFile
  BY <1>1 DEF Types, Loadable
<1>4. \A f \in Loadable : f.lsn \in Nat /\ f.lsn <= Len(log)
  BY <1>1, <1>3 DEF IInv, Control, CheckpointFile
<1>5. Reflects(log, ix, Len(log))
  BY <1>1 DEF IInv, Origins, Horizon, Logging
<1> QED
  BY <1>1, <1>2, <1>4, <1>5 DEF Types, Told, Logging, Working

\* A step that logs nothing: only the calls on r and what it holds count.
LEMMA ToldStep ==
  ASSUME NEW hist, Logging(hist), UNCHANGED <<phase, main, prev>>, log' = log,
         NEW r, Change(ix, Holding, ix', Holding', r),
         \A c \in Holding' : c.real = r => CallTold(log, hist, ix', c),
         (\A c \in Holding' : c.real # r) => Now(ix', r) = hist[Len(log)][r].now
  PROVE  Told(hist)'
<1>1. /\ ix \in Index /\ log \in Seq(Record) /\ Len(log) \in Nat
      /\ Told(hist) /\ Tells(log, hist) /\ phase = "open"
      /\ \A c \in Holding : CallTold(log, hist, ix, c)
      /\ \A q \in RealIds : (\A c \in Holding : c.real # q) => Now(ix, q) = hist[Len(log)][q].now
      /\ \A f \in Loadable : Abreast(hist, f.ix, f.lsn)
  BY LoggingFacts
<1>2. Loadable' = Loadable
  BY DEF Loadable
<1>3. SameCalls(Holding, Holding', r) /\ Holding' \subseteq VectorCall
  BY DEF Change
<1>4. \A q \in RealIds : q # r => Now(ix', q) = Now(ix, q)
  BY OthersApart
<1>5. ASSUME NEW c \in Holding'
      PROVE  CallTold(log, hist, ix', c)
  <2>1. CASE c.real = r
    BY <2>1
  <2>2. CASE c.real # r
    <3>1. c \in Holding /\ c.real \in RealIds
      BY <1>3, <2>2, VectorCallFacts DEF SameCalls
    <3>2. CallTold(log, hist, ix, c) /\ Now(ix', c.real) = Now(ix, c.real)
      BY <1>1, <1>4, <2>2, <3>1
    <3> QED
      BY <3>2 DEF CallTold
  <2> QED
    BY <2>1, <2>2
<1>6. ASSUME NEW q \in RealIds, \A c \in Holding' : c.real # q
      PROVE  Now(ix', q) = hist[Len(log)][q].now
  <2>1. CASE q = r
    BY <1>6, <2>1
  <2>2. CASE q # r
    BY <1>1, <1>3, <1>4, <1>6, <2>2 DEF SameCalls
  <2> QED
    BY <2>1, <2>2
<1>7. \A c \in Holding' : CallTold(log, hist, ix, c)' 
  BY <1>2, <1>5 DEF CallTold
<1>8. main' \in CheckpointFile /\ prev' \in CheckpointFile => prev'.lsn <= main'.lsn
  BY <1>1 DEF Told
<1>9. \A f \in Loadable : Abreast(hist, f.ix, f.lsn)'
  BY <1>1 DEF Abreast
<1> QED
  BY <1>1, <1>2, <1>6, <1>7, <1>8, <1>9 DEF Told

LEMMA MovesOnTold ==
  ASSUME NEW hist, Logging(hist), UNCHANGED <<phase, main, prev>>, NEW w \in Writers, MovesOn(w)
  PROVE  Told(hist)'
<1> DEFINE c == local[w]
<1>1. PICK d \in VectorCall : Advances(w, d) /\ d.lsn = c.lsn
  BY DEF MovesOn
<1>2. c.pc # "log" /\ log' = log
  BY DEF MovesOn
<1>3. /\ c \in Holding /\ d.pc # "log" /\ RecordOf(d) = RecordOf(c) /\ d.real = c.real
      /\ Holding' = (Holding \ {c}) \cup {d}
      /\ Change(ix, Holding, ix', Holding', d.real)
  BY <1>1 DEF Advances
<1>4. CallTold(log, hist, ix, c) /\ Sound(ix, Holding)
  BY <1>3, LoggingFacts
<1>5. \A e \in Holding' : e.real = d.real => e = d
  BY <1>3, <1>4 DEF Sound
<1>6. CallTold(log, hist, ix', d)
  BY <1>1, <1>2, <1>3, <1>4 DEF CallTold
<1> DEFINE r == d.real
<1>7. Change(ix, Holding, ix', Holding', r)
  BY <1>3
<1>8. \A e \in Holding' : e.real = r => CallTold(log, hist, ix', e)
  BY <1>5, <1>6
<1>9. (\A e \in Holding' : e.real # r) => Now(ix', r) = hist[Len(log)][r].now
  BY <1>3
<1> HIDE DEF r
<1> QED
  BY <1>2, <1>7, <1>8, <1>9, ToldStep

\* Once logged, the record of a call is the last about its id.
LEMMA LoggedCall ==
  ASSUME NEW hist, Logging(hist), NEW c \in Holding, c.pc # "log"
  PROVE  /\ c.lsn \in 1..Len(log) /\ log[c.lsn] = RecordOf(c)
         /\ hist[Len(log)][c.real].last = c.lsn
         /\ hist[Len(log)][c.real].now = After(RecordOf(c))
         /\ \A f \in Loadable : f.lsn < c.lsn
<1>1. CallTold(log, hist, ix, c) /\ c \in VectorCall /\ log \in Seq(Record) /\ Tells(log, hist)
  BY LoggingFacts
<1>2. /\ c.lsn \in 1..Len(log) /\ log[c.lsn] = RecordOf(c)
      /\ hist[Len(log)][c.real].last = c.lsn
      /\ \A f \in Loadable : f.lsn < c.lsn
  BY <1>1 DEF CallTold
<1>3. c.real \in RealIds /\ Len(log) \in 0..Len(log) /\ c.lsn > 0
  BY <1>1, <1>2, VectorCallFacts
<1>4. hist[Len(log)][c.real].now = After(log[c.lsn])
  BY <1>1, <1>2, <1>3, TellsFacts
<1> QED
  BY <1>2, <1>4

LEMMA ReturnsTold ==
  ASSUME NEW hist, Logging(hist), UNCHANGED <<phase, main, prev>>, NEW w \in Writers, Returns(w)
  PROVE  Told(hist)'
<1> DEFINE c == local[w]
<1>1. /\ c \in Holding /\ c.pc # "log" /\ log' = log
      /\ Holding' = Holding \ {c}
      /\ Change(ix, Holding, ix', Holding', c.real)
      /\ Now(ix', c.real) = After(RecordOf(c))
  BY DEF Returns
<1>2. hist[Len(log)][c.real].now = After(RecordOf(c)) /\ Sound(ix, Holding)
  BY <1>1, LoggedCall, LoggingFacts
<1>3. \A e \in Holding' : e.real # c.real
  BY <1>1, <1>2 DEF Sound
<1> QED
  BY <1>1, <1>2, <1>3, ToldStep, ZenonT(60)

LEMMA StartsTold ==
  ASSUME NEW hist, Logging(hist), UNCHANGED <<phase, main, prev>>, NEW w \in Writers, Starts(w)
  PROVE  Told(hist)'
<1>1. PICK c \in VectorCall :
        /\ c.pc = "log" /\ c.lsn = 0
        /\ \A d \in Holding : d.real # c.real
        /\ Holding' = Holding \cup {c}
        /\ Change(ix, Holding, ix', Holding', c.real)
        /\ Now(ix', c.real) = Now(ix, c.real)
        /\ c.kind \in {"reinsert", "update"} => c.new = ix.next
        /\ log' = log
  BY DEF Starts
<1>2. /\ ix \in Index /\ Reflects(log, ix, Len(log)) /\ Len(log) \in Nat
      /\ \A r \in RealIds : (\A d \in Holding : d.real # r) => Now(ix, r) = hist[Len(log)][r].now
  BY LoggingFacts
<1>3. c.real \in RealIds
  BY VectorCallFacts
<1>4. Now(ix', c.real) = hist[Len(log)][c.real].now
  BY <1>1, <1>2, <1>3
<1>5. c.kind \in {"reinsert", "update"} =>
        \A k \in 1..Len(log) : Issues(log[k]) => log[k].new # c.new
  <2> SUFFICES ASSUME c.kind \in {"reinsert", "update"}, NEW k \in 1..Len(log), Issues(log[k]),
                      log[k].new = c.new
               PROVE  FALSE
    OBVIOUS
  <2>1. log[k].new < ix.next
    BY <1>2 DEF Reflects
  <2>2. ix.next \in Nat
    BY <1>2, IndexFields
  <2> QED
    BY <1>1, <2>1, <2>2
<1>6. CallTold(log, hist, ix', c)
  BY <1>1, <1>4, <1>5 DEF CallTold
<1>7. \A e \in Holding' : e.real = c.real => e = c
  BY <1>1
<1>8. c \in Holding'
  BY <1>1
<1> QED
  BY <1>1, <1>6, <1>7, <1>8, ToldStep

LEMMA AsideTold ==
  ASSUME NEW hist, Logging(hist), UNCHANGED <<phase, main, prev>>, Aside
  PROVE  Told(hist)'
<1>1. log' = log /\ ix' = ix /\ Holding' = Holding /\ Loadable' = Loadable
  BY DEF Aside, Loadable
<1>2. Told(hist) /\ phase = "open"
  BY LoggingFacts
<1> QED
  BY <1>1, <1>2 DEF Told, CallTold, Abreast

LEMMA LogsTold ==
  ASSUME NEW hist, Logging(hist), UNCHANGED <<phase, main, prev>>, NEW w \in Writers, LogsCall(w),
         NEW new, new = Grown(hist, log')
  PROVE  Told(new)'
<1> DEFINE c == local[w]
           rec == RecordOf(c)
           n == Len(log)
<1>1. PICK d \in VectorCall : Advances(w, d) /\ d.lsn = Len(log')
  BY DEF LogsCall
<1>2. c.pc = "log" /\ ix' = ix /\ log' = Append(log, rec)
  BY DEF LogsCall, Logging
<1>3. /\ c \in Holding /\ d.pc # "log" /\ RecordOf(d) = rec /\ d.real = c.real /\ d.kind = c.kind
      /\ Holding' = (Holding \ {c}) \cup {d}
  BY <1>1 DEF Advances
<1>4. /\ ix \in Index /\ log \in Seq(Record) /\ n \in Nat /\ Holding \subseteq VectorCall
      /\ Told(hist) /\ Tells(log, hist) /\ phase = "open" /\ Sound(ix, Holding)
      /\ \A e \in Holding : CallTold(log, hist, ix, e)
      /\ \A q \in RealIds : (\A e \in Holding : e.real # q) => Now(ix, q) = hist[n][q].now
      /\ \A f \in Loadable : f.lsn \in Nat /\ f.lsn <= n
      /\ \A f \in Loadable : Abreast(hist, f.ix, f.lsn)
  BY LoggingFacts
<1>5. /\ c.lsn = 0 /\ Now(ix, c.real) = hist[n][c.real].now
      /\ c.kind \in {"reinsert", "update"} => \A k \in 1..n : Issues(log[k]) => log[k].new # c.new
  BY <1>2, <1>3, <1>4 DEF CallTold
<1>6. c \in VectorCall /\ c.real \in RealIds /\ rec.real = c.real /\ rec.new = c.new
  BY <1>3, <1>4, VectorCallFacts DEF RecordOf
<1>7. rec \in UpsertRecord \cup DeleteRecord
  <2>1. UpdateIds \subseteq Nat
    BY DEF UpdateIds
  <2>2. CASE c \in InsertCall
    BY <2>2 DEF InsertCall, RecordOf, UpsertRecord
  <2>3. CASE c \in VersionCall
    BY <2>1, <2>3 DEF VersionCall, RecordOf, UpsertRecord
  <2>4. CASE c \in DeleteCall
    BY <2>4 DEF DeleteCall, RecordOf, DeleteRecord
  <2> QED
    BY <1>6, <2>2, <2>3, <2>4 DEF VectorCall
<1>8. Follows(hist[n][rec.real].now, rec)
  BY <1>2, <1>3, <1>4, <1>5, <1>6, CallFollows
<1>9. Issues(rec) /\ is_update_id(rec.new) => c.kind \in {"reinsert", "update"}
  <2>1. Issues(rec) => c.kind \in {"insert", "reinsert", "update"}
    BY <1>6, VectorCallFacts DEF Issues, RecordOf, VectorKinds
  <2>2. c.kind = "insert" => ~is_update_id(rec.new)
    <3>1. Fits(ix, c) /\ ~is_update_id(c.real)
      BY <1>3, <1>4, CallIds
    <3> QED
      BY <1>6, <3>1 DEF Fits, InsertFits
  <2> QED
    BY <2>1, <2>2
<1>a. IssuesAnew(log, rec)
  BY <1>5, <1>6, <1>9 DEF IssuesAnew
<1>b. Follows(hist[Len(log)][rec.real].now, rec) /\ log \in Seq(Record) /\ Tells(log, hist)
  BY <1>4, <1>8
<1> HIDE DEF rec, n
<1>10. /\ Tells(log', new) /\ Len(log') = n + 1
       /\ \A k \in 0..n : new[k] = hist[k]
       /\ new[Len(log')] = [hist[n] EXCEPT ![rec.real] = Step1(@, log', Len(log'))]
       /\ \A k \in 1..n : log'[k] = log[k]
  <2> DEFINE m == log'
  <2>1. m = Append(log, rec) /\ new = Grown(hist, m)
    BY <1>2
  <2> HIDE DEF m
  <2>2. Grew(log, hist, rec, m, new)
    BY <1>7, <1>a, <1>b, <2>1, TellsGrows
  <2> QED
    BY <2>2 DEF n, m, Grew
<1>11. log'[n+1] = rec
  BY <1>2, <1>4 DEF n
<1>12. hist[n] \in [RealIds -> Past]
  BY <1>4 DEF Tells, n
<1>13. \A q \in RealIds : q # c.real => new[n+1][q] = hist[n][q]
  BY <1>6, <1>10, <1>12
<1>14. new[n+1][c.real].last = n + 1
  BY <1>6, <1>10, <1>12 DEF Step1
<1>15. Loadable' = Loadable
  BY DEF Loadable
<1>16. \A f \in Loadable : Abreast(new, f.ix, f.lsn)
  <2>1. \A f \in Loadable : new[f.lsn] = hist[f.lsn]
    BY <1>4, <1>10
  <2> QED
    BY <1>4, <2>1 DEF Abreast
<1>17. ASSUME NEW e \in Holding'
       PROVE  CallTold(log', new, ix', e)
  <2>1. CASE e = d
    <3>1. /\ d.lsn = n + 1 /\ n + 1 \in 1..(n+1) /\ log'[d.lsn] = RecordOf(d)
          /\ new[Len(log')][d.real].last = d.lsn
          /\ \A f \in Loadable : f.lsn < d.lsn
      BY <1>1, <1>3, <1>4, <1>10, <1>11, <1>14 DEF n
    <3> QED
      BY <1>3, <1>10, <2>1, <3>1 DEF CallTold
  <2>2. CASE e # d
    <3>1. e \in Holding /\ e.real # c.real /\ e \in VectorCall /\ e.real \in RealIds
      BY <1>3, <1>4, <2>2, VectorCallFacts DEF Sound
    <3>2. CallTold(log, hist, ix, e) /\ new[Len(log')][e.real] = hist[n][e.real]
      BY <1>4, <1>10, <1>13, <3>1
    <3>3. CASE e.pc = "log"
      <4>1. /\ e.lsn = 0 /\ Now(ix, e.real) = hist[n][e.real].now
            /\ e.kind \in {"reinsert", "update"} => \A k \in 1..n : Issues(log[k]) => log[k].new # e.new
        BY <3>2, <3>3 DEF CallTold, n
      <4>2. e.kind \in {"reinsert", "update"} => e.new # c.new
        <5>1. e.new \in Claims(ix, Holding, e.real) /\ c.new \in Claims(ix, Holding, c.real)
          BY <1>3, <3>1, ClaimsIn
        <5>2. Claims(ix, Holding, e.real) \cap Claims(ix, Holding, c.real) = {}
          BY <1>4, <1>6, <3>1 DEF Sound
        <5> QED
          BY <5>1, <5>2
      <4>3. e.kind \in {"reinsert", "update"} =>
              \A k \in 1..(n+1) : Issues(log'[k]) => log'[k].new # e.new
        <5> SUFFICES ASSUME e.kind \in {"reinsert", "update"}, NEW k \in 1..(n+1), Issues(log'[k])
                     PROVE  log'[k].new # e.new
          OBVIOUS
        <5>1. CASE k = n + 1
          BY <1>6, <1>11, <4>2, <5>1
        <5>2. CASE k # n + 1
          <6>1. k \in 1..n
            BY <1>4, <5>2 DEF n
          <6> QED
            BY <1>10, <4>1, <6>1
        <5> QED
          BY <5>1, <5>2
      <4> QED
        BY <1>2, <1>10, <3>2, <3>3, <4>1, <4>3 DEF CallTold
    <3>4. CASE e.pc # "log"
      <4>1. /\ e.lsn \in 1..n /\ log[e.lsn] = RecordOf(e) /\ hist[n][e.real].last = e.lsn
            /\ \A f \in Loadable : f.lsn < e.lsn
        BY <3>2, <3>4 DEF CallTold, n
      <4>2. e.lsn \in 1..Len(log') /\ log'[e.lsn] = RecordOf(e)
        BY <1>4, <1>10, <4>1 DEF n
      <4> QED
        BY <3>2, <3>4, <4>1, <4>2 DEF CallTold
    <3> QED
      BY <3>3, <3>4
  <2> QED
    BY <2>1, <2>2
<1>18. ASSUME NEW q \in RealIds, \A e \in Holding' : e.real # q
       PROVE  Now(ix', q) = new[Len(log')][q].now
  <2>1. q # c.real /\ \A e \in Holding : e.real # q
    BY <1>3, <1>18
  <2> QED
    BY <1>2, <1>4, <1>10, <1>13, <2>1 DEF n
<1>19. main' \in CheckpointFile /\ prev' \in CheckpointFile => prev'.lsn <= main'.lsn
  BY <1>4 DEF Told
<1>20. \A f \in Loadable' : Abreast(new, f.ix, f.lsn)'
  BY <1>15, <1>16 DEF Abreast
<1>21. \A e \in Holding' : CallTold(log, new, ix, e)'
  <2> SUFFICES ASSUME NEW e \in Holding' PROVE CallTold(log, new, ix, e)'
    OBVIOUS
  <2>1. CallTold(log', new, ix', e)
    BY <1>17
  <2> QED
    BY <2>1, <1>15 DEF CallTold
<1>22. phase' = "open" /\ Tells(log, new)'
  BY <1>4, <1>10
<1>23. \A q \in RealIds : (\A e \in Holding' : e.real # q) => Now(ix', q) = new[Len(log')][q].now
  BY <1>18
<1> QED
  BY <1>19, <1>20, <1>21, <1>22, <1>23 DEF Told

\* What the log tells after a step that may have added a record to it.
Later(hist, l, m) == IF m = l THEN hist ELSE Grown(hist, m)

\* A step of a call, or the start of one.
LEMMA WorkWhole ==
  ASSUME NEW hist, Working, Whole(hist), OneHolder', UNCHANGED <<enable_oplog, phase, main, prev>>,
         NEW w \in Writers, LogsCall(w) \/ MovesOn(w) \/ Returns(w) \/ Starts(w) \/ Aside,
         NEW new, new = Later(hist, log, log')
  PROVE  Whole(new)'
<1>1. Sound(ix', Holding')
  <2>1. Aside => Sound(ix', Holding')
    BY DEF Aside, Working
  <2> QED
    BY <2>1 DEF LogsCall, MovesOn, Returns, Starts, Advances
<1>2. Loadable' = Loadable /\ phase' = "open" /\ \A f \in Loadable : Sound(f.ix, {})
  BY DEF Loadable, Working, Whole
<1>3. ASSUME ~enable_oplog
      PROVE  log' = <<>>
  <2>1. log' = log
    BY <1>3 DEF LogsCall, MovesOn, Returns, Starts, Aside
  <2> QED
    BY <1>3, <2>1 DEF Whole
<1>4. ASSUME enable_oplog
      PROVE  Told(new)'
  <2>1. Logging(hist)
    BY <1>4 DEF Logging
  <2>2. ASSUME LogsCall(w)
        PROVE  Told(new)'
    <3>1. log' = Append(log, RecordOf(local[w])) /\ log \in Seq(Record)
      BY <1>4, <2>2 DEF LogsCall, Working, IInv, Types
    <3>2. log' # log
      <4>1. Len(log') = Len(log) + 1 /\ Len(log) \in Nat
        BY <3>1
      <4> QED
        BY <4>1
    <3>3. new = Grown(hist, log')
      BY <3>2 DEF Later
    <3> QED
      BY <2>1, <2>2, <3>3, LogsTold
  <2>3. ASSUME MovesOn(w) \/ Returns(w) \/ Starts(w) \/ Aside
        PROVE  Told(new)'
    <3>1. log' = log
      BY <2>3 DEF MovesOn, Returns, Starts, Aside
    <3>2. new = hist
      BY <3>1 DEF Later
    <3> QED
      BY <2>1, <2>3, <3>2, MovesOnTold, ReturnsTold, StartsTold, AsideTold
  <2> QED
    BY <2>2, <2>3
<1> QED
  BY <1>1, <1>2, <1>3, <1>4 DEF Whole

LEMMA StepWhole ==
  ASSUME NEW hist, IInv, IInv', UsedType, used.failures = 0, used'.failures = 0, Whole(hist),
         NEW w \in Writers, Step(w), NEW new, new = Later(hist, log, log')
  PROVE  Whole(new)'
<1>1. phase = "open"
  <2>1. local[w] # Idle
    BY DEF Step, LogOp, LogOpFails, InsertNode, InsertNodeFails, LogAbort, RecordMapping, Tombstone,
         ReadOldRow, ReadOldRowFails, WriteRow, DropRow, RowFails, ForgetMapping, ReadRow, NoSuchRow, PutRow, Idle
  <2> QED
    BY <2>1 DEF IInv, Control
<1>2. Working
  BY <1>1 DEF Working, Whole
<1> QED
  BY <1>2, StepEffect, WorkWhole

LEMMA BeginWhole ==
  ASSUME NEW hist, IInv, Whole(hist), NEW w \in Writers, Begin(w),
         NEW new, new = Later(hist, log, log')
  PROVE  Whole(new)'
<1>1. phase = "open"
  BY ZenonT(60) DEF Begin, BeginDelete, DeleteNothing, BeginInsert, BeginUpdate, BeginUpsert, BeginPayload,
         CanBegin
<1>2. Working
  BY <1>1 DEF Working, Whole
<1> QED
  BY <1>2, BeginEffect, WorkWhole

\* Between calls the log tells of every id what the index holds.
LEMMA AtRest ==
  ASSUME NEW hist, IInv, Whole(hist), phase = "open", GateFree
  PROVE  /\ Holding = {} /\ Sound(ix, {})
         /\ enable_oplog => Abreast(hist, ix, Len(log))
<1>1. Holding = {}
  BY NoneHeld DEF GateFree
<1> QED
  BY <1>1 DEF Whole, Told, Abreast

LEMMA InstalledWhole ==
  ASSUME NEW hist, IInv, Whole(hist), phase \in {"open", "replayed"}, GateFree,
         Installed(ix, Len(log)), phase' = "open", UNCHANGED <<enable_oplog, ix, log, local>>,
         Sound(ix, {}), enable_oplog => Abreast(hist, ix, Len(log))
  PROVE  Whole(hist)'
<1>1. Holding' = {} /\ OneHolder'
  BY NoneHeld DEF GateFree, Holding, OneHolder, Busy
<1>2. /\ main' \in CheckpointFile /\ main'.lsn = Len(log) /\ main'.ix = ix
      /\ Loadable' \subseteq Loadable \cup {main'}
  BY InstalledFiles
<1>3. \A f \in Loadable : Sound(f.ix, {})
  BY DEF Whole
<1>4. \A f \in Loadable' : Sound(f.ix, {})
  BY <1>2, <1>3
<1>5. ASSUME enable_oplog
      PROVE  Told(hist)'
  <2>1. Told(hist)
    BY <1>5 DEF Whole
  <2>2. \A f \in Loadable' : Abreast(hist, f.ix, f.lsn)
    BY <1>2, <1>5, <2>1 DEF Told
  <2>3. prev' \in CheckpointFile => prev'.lsn <= main'.lsn
    <3> SUFFICES ASSUME prev' \in CheckpointFile PROVE prev'.lsn <= Len(log)
      BY <1>2
    <3>1. prev' \in Loadable
      <4>1. prev' \in {main, prev}
        BY DEF Installed
      <4> QED
        BY <4>1, Intact DEF Loadable
    <3> QED
      BY <3>1 DEF IInv, Control
  <2>4. \A f \in Loadable' : Abreast(hist, f.ix, f.lsn)'
    BY <2>2 DEF Abreast
  <2>5. \A r \in RealIds : Now(ix', r) = hist[Len(log')][r].now
    BY <1>5 DEF Abreast
  <2> QED
    BY <1>1, <2>1, <2>3, <2>4, <2>5 DEF Told
<1> QED
  BY <1>1, <1>4, <1>5 DEF Whole

LEMMA CheckpointWhole ==
  ASSUME NEW hist, IInv, Whole(hist), Checkpoint
  PROVE  Whole(hist)'
<1>1. /\ phase = "open" /\ GateFree /\ Installed(ix, Len(log))
      /\ phase' = "open" /\ UNCHANGED <<enable_oplog, ix, log, local>>
  BY DEF Checkpoint
<1> QED
  BY <1>1, AtRest, InstalledWhole

\* Outside an open store no call is in flight.
LEMMA NoCalls ==
  ASSUME IInv, phase # "open"
  PROVE  Holding = {} /\ OneHolder /\ GateFree
<1>1. \A w \in Writers : ~Busy(w)
  BY DEF IInv, Control, Busy, Idle
<1> QED
  BY <1>1, NoneHeld DEF GateFree

\* A step to a store that is down with no file that was not there before.
LEMMA DownWhole ==
  ASSUME NEW hist, IInv', Whole(hist), phase' = "down", UNCHANGED <<enable_oplog, log>>,
         Loadable' \subseteq Loadable,
         main' \in CheckpointFile => main' = main, prev' = prev
  PROVE  Whole(hist)'
<1>1. Holding' = {} /\ OneHolder'
  <2>1. (\A w \in Writers : ~Busy(w))'
    BY DEF IInv, Control, Busy, Idle
  <2> QED
    BY <2>1 DEF Holding, OneHolder
<1>2. \A f \in Loadable' : Sound(f.ix, {})
  BY DEF Whole
<1>3. ASSUME enable_oplog
      PROVE  Told(hist)'
  <2>1. Told(hist)
    BY <1>3 DEF Whole
  <2>2. \A f \in Loadable' : Abreast(hist, f.ix, f.lsn)'
    BY <2>1 DEF Told, Abreast
  <2> QED
    BY <2>1, <2>2 DEF Told
<1> QED
  BY <1>1, <1>2, <1>3 DEF Whole

LEMMA CrashWhole ==
  ASSUME NEW hist, IInv', Whole(hist), Crash
  PROVE  Whole(hist)'
<1>1. phase' = "down" /\ UNCHANGED <<enable_oplog, log, main, prev>>
  BY DEF Crash, durable
<1>2. Loadable' = Loadable
  BY <1>1 DEF Loadable
<1> QED
  BY <1>1, <1>2, DownWhole

LEMMA DamageMainWhole ==
  ASSUME NEW hist, IInv', Whole(hist), DamageMain
  PROVE  Whole(hist)'
<1>1. phase' = "down" /\ UNCHANGED <<enable_oplog, log, prev>> /\ main' = Damaged
  BY DEF DamageMain
<1>2. Loadable' \subseteq Loadable
  BY <1>1 DEF Loadable
<1>3. main' \notin CheckpointFile
  BY <1>1, Intact
<1> QED
  BY <1>1, <1>2, <1>3, DownWhole

\* A step of the recovery.
LEMMA RecoveryWhole ==
  ASSUME NEW hist, IInv', Whole(hist), phase' \in {"replaying", "dropping", "replayed"},
         UNCHANGED <<enable_oplog, log, prev>>, Loadable' \subseteq Loadable,
         main' \in CheckpointFile => main' = main, Sound(ix', {}),
         enable_oplog => /\ \A r \in RealIds : Now(ix', r) = hist[Horizon'][r].now
                         /\ \A f \in Loadable' : f.lsn <= Horizon'
  PROVE  Whole(hist)'
<1>1. Holding' = {} /\ OneHolder'
  <2>1. (\A w \in Writers : ~Busy(w))'
    BY DEF IInv, Control, Busy, Idle
  <2> QED
    BY <2>1 DEF Holding, OneHolder
<1>2. \A f \in Loadable' : Sound(f.ix, {})
  BY DEF Whole
<1>3. ASSUME enable_oplog
      PROVE  Told(hist)'
  <2>1. Told(hist)
    BY <1>3 DEF Whole
  <2>2. \A f \in Loadable' : Abreast(hist, f.ix, f.lsn)'
    BY <2>1 DEF Told, Abreast
  <2>3. Abreast(hist, ix, Horizon)'
    BY <1>3 DEF Abreast
  <2>4. \A f \in Loadable' : f.lsn <= Horizon'
    BY <1>3
  <2> QED
    BY <2>1, <2>2, <2>3, <2>4 DEF Told
<1> QED
  BY <1>1, <1>2, <1>3 DEF Whole

LEMMA LoadCheckpointWhole ==
  ASSUME NEW hist, IInv, IInv', Whole(hist), LoadCheckpoint
  PROVE  Whole(hist)'
<1> DEFINE file == IF main \in {NoFile, Damaged} THEN prev ELSE main
<1>1. /\ phase = "down" /\ phase' = "replaying"
      /\ ix' = file.ix /\ at' = file.lsn + 1
      /\ main' = IF main = Damaged THEN NoFile ELSE main
      /\ UNCHANGED <<enable_oplog, log, prev>>
  BY DEF LoadCheckpoint
<1>2. /\ main \in CheckpointFile \cup {NoFile, Damaged} /\ prev \in CheckpointFile \cup {NoFile}
      /\ main \in {NoFile, Damaged} => prev # NoFile
  BY DEF IInv, Types, Control
<1>3. file \in CheckpointFile
  BY <1>2
<1>4. file \in Loadable
  BY <1>2, <1>3, Intact DEF Loadable
<1>5. Loadable' \subseteq Loadable
  BY <1>1 DEF Loadable
<1>6. main' \in CheckpointFile => main' = main
  BY <1>1, Intact
<1>7. file.lsn \in Nat
  BY <1>3 DEF CheckpointFile
<1>8. Horizon' = file.lsn
  BY <1>1, <1>7 DEF Horizon
<1>9. ASSUME enable_oplog
      PROVE  /\ Abreast(hist, file.ix, file.lsn)
             /\ \A f \in Loadable' : f.lsn <= file.lsn
  <2>1. /\ Abreast(hist, file.ix, file.lsn)
        /\ main \in CheckpointFile /\ prev \in CheckpointFile => prev.lsn <= main.lsn
    BY <1>4, <1>9 DEF Whole, Told
  <2>2. ASSUME NEW f \in Loadable'
        PROVE  f.lsn <= file.lsn
    <3>1. CASE f = file
      BY <1>7, <3>1
    <3>2. CASE f # file
      <4>1. main \in CheckpointFile /\ f = prev /\ prev \in CheckpointFile /\ file = main
        BY <1>1, <1>2, <3>2, Intact DEF Loadable
      <4> QED
        BY <2>1, <4>1
    <3> QED
      BY <3>1, <3>2
  <2> QED
    BY <2>1, <2>2
<1>10. Sound(ix', {})
  BY <1>1, <1>4 DEF Whole
<1> HIDE DEF file
<1>11. enable_oplog => /\ \A r \in RealIds : Now(ix', r) = hist[Horizon'][r].now
                       /\ \A f \in Loadable' : f.lsn <= Horizon'
  BY <1>1, <1>8, <1>9 DEF Abreast
<1> QED
  BY <1>1, <1>5, <1>6, <1>10, <1>11, RecoveryWhole

\* While no call has failed no record is skipped.
LEMMA ReplayingFacts ==
  ASSUME NEW hist, IInv, Whole(hist), phase = "replaying", at <= Len(log)
  PROVE  /\ enable_oplog /\ Told(hist) /\ Aborted = {} /\ log[at].op # "abort"
         /\ Sound(ix, {}) /\ ix \in Index /\ log \in Seq(Record) /\ Tells(log, hist)
         /\ at \in 1..Len(log) /\ at \in Nat /\ Horizon = at - 1
         /\ Reflects(log, ix, at - 1)
         /\ \A r \in RealIds : Now(ix, r) = hist[at - 1][r].now
         /\ \A f \in Loadable : f.lsn \in Nat /\ f.lsn <= at - 1
<1>1. log \in Seq(Record) /\ Len(log) \in Nat /\ at \in 1..Len(log) /\ at \in Nat /\ ix \in Index
  BY DEF IInv, Types
<1>2. enable_oplog
  <2>1. CASE ~enable_oplog
    <3>1. log = <<>>
      BY <2>1 DEF Whole
    <3> QED
      BY <1>1, <3>1
  <2> QED
    BY <2>1 DEF IInv, Types
<1>3. Told(hist) /\ Tells(log, hist)
  BY <1>2 DEF Whole, Told
<1>4. \A k \in 1..Len(log) : log[k].op # "abort"
  BY <1>3 DEF Tells
<1>5. Aborted = {} /\ log[at].op # "abort"
  <2>1. DOMAIN log = 1..Len(log)
    BY <1>1
  <2> QED
    BY <1>1, <1>4, <2>1 DEF Aborted
<1>6. Sound(ix, {}) /\ Horizon = at - 1
  BY DEF Whole, Horizon
<1>7. Abreast(hist, ix, at - 1) /\ \A f \in Loadable : f.lsn <= at - 1
  BY <1>3, <1>6 DEF Told
<1>8. Reflects(log, ix, at - 1)
  BY <1>2, <1>6 DEF IInv, Origins
<1>9. \A f \in Loadable : f.lsn \in Nat
  <2> SUFFICES ASSUME NEW f \in Loadable PROVE f.lsn \in Nat
    OBVIOUS
  <2>1. f \in CheckpointFile
    BY DEF IInv, Types, Loadable
  <2> QED
    BY <2>1 DEF CheckpointFile
<1> QED
  BY <1>1, <1>2, <1>3, <1>5, <1>6, <1>7, <1>8, <1>9 DEF Abreast

LEMMA NeverSkipped ==
  ASSUME NEW hist, IInv, Whole(hist)
  PROVE  ~ReplaySkipped
<1> SUFFICES ASSUME ReplaySkipped PROVE FALSE
  OBVIOUS
<1>1. phase = "replaying" /\ at <= Len(log) /\ (at \in Aborted \/ log[at].op = "abort")
  BY DEF ReplaySkipped
<1> QED
  BY <1>1, ReplayingFacts

LEMMA ReplayRecordWhole ==
  ASSUME NEW hist, IInv, IInv', Whole(hist), ReplayRecord
  PROVE  Whole(hist)'
<1> DEFINE rec == log[at]
<1>1. /\ phase = "replaying" /\ at <= Len(log)
      /\ ix' = Replayed(ix, rec)
      /\ IF rec.op = "update" THEN phase' = "dropping" /\ UNCHANGED at
                              ELSE at' = at + 1 /\ UNCHANGED phase
      /\ UNCHANGED <<enable_oplog, log, main, prev>>
  BY DEF ReplayRecord, durable
<1>2. /\ enable_oplog
      /\ Sound(ix, {}) /\ ix \in Index /\ log \in Seq(Record) /\ Tells(log, hist)
      /\ at \in 1..Len(log) /\ at \in Nat
      /\ Reflects(log, ix, at - 1)
      /\ \A r \in RealIds : Now(ix, r) = hist[at - 1][r].now
      /\ \A f \in Loadable : f.lsn \in Nat /\ f.lsn <= at - 1
  BY <1>1, ReplayingFacts
<1>3. /\ rec \in UpsertRecord \cup DeleteRecord /\ rec.real \in RealIds
      /\ hist[at][rec.real].now = After(rec)
      /\ \A r \in RealIds : r # rec.real => hist[at][r] = hist[at-1][r]
      /\ Follows(hist[at-1][rec.real].now, rec)
  <2>1. log \in Seq(Record) /\ Tells(log, hist) /\ at \in 1..Len(log)
    BY <1>2
  <2> QED
    BY <2>1, TellsAt
<1>4. Follows(Now(ix, rec.real), rec)
  BY <1>2, <1>3
<1>5. Issues(rec) /\ is_update_id(rec.new) => rec.new \notin IdsOf(ix)
  <2> SUFFICES ASSUME Issues(rec), is_update_id(rec.new), rec.new \in IdsOf(ix) PROVE FALSE
    OBVIOUS
  <2>1. Logged(log, rec.new, at - 1)
    BY <1>2 DEF Reflects
  <2>2. PICK k \in 1..(at-1) : Issues(log[k]) /\ log[k].new = rec.new
    BY <2>1 DEF Logged
  <2>3. \A j \in 1..(at-1) : Issues(log[j]) => log[j].new # rec.new
    BY <1>2 DEF Tells
  <2> QED
    BY <2>2, <2>3
<1> HIDE DEF rec
<1>6. /\ Sound(ix', {}) /\ Now(ix', rec.real) = After(rec)
      /\ \A q \in RealIds : q # rec.real => Now(ix', q) = Now(ix, q)
  BY <1>1, <1>2, <1>3, <1>4, <1>5, ReplaySound
<1>7. Horizon' = at /\ phase' \in {"replaying", "dropping"}
  <2>1. CASE rec.op = "update"
    BY <1>1, <1>2, <2>1 DEF Horizon
  <2>2. CASE rec.op # "update"
    BY <1>1, <1>2, <2>2 DEF Horizon
  <2> QED
    BY <2>1, <2>2
<1>8. \A r \in RealIds : Now(ix', r) = hist[Horizon'][r].now
  BY <1>2, <1>3, <1>6, <1>7
<1>9. Loadable' = Loadable
  BY <1>1 DEF Loadable
<1>10. \A f \in Loadable' : f.lsn <= Horizon'
  BY <1>2, <1>7, <1>9
<1> QED
  BY <1>1, <1>6, <1>7, <1>8, <1>9, <1>10, RecoveryWhole

\* A step of the recovery that leaves the index.
LEMMA SameIndexWhole ==
  ASSUME NEW hist, IInv', Whole(hist), phase \in {"replaying", "dropping"},
         phase' \in {"replaying", "replayed"}, Horizon' = Horizon,
         UNCHANGED <<enable_oplog, ix, log, main, prev>>
  PROVE  Whole(hist)'
<1>1. Sound(ix', {})
  BY DEF Whole
<1>2. Loadable' = Loadable
  BY DEF Loadable
<1>3. enable_oplog => Abreast(hist, ix, Horizon) /\ \A f \in Loadable : f.lsn <= Horizon
  BY DEF Whole, Told
<1>4. enable_oplog => /\ \A r \in RealIds : Now(ix', r) = hist[Horizon'][r].now
                      /\ \A f \in Loadable' : f.lsn <= Horizon'
  BY <1>2, <1>3 DEF Abreast
<1> QED
  BY <1>1, <1>2, <1>4, RecoveryWhole

LEMMA ReplayDropRowWhole ==
  ASSUME NEW hist, IInv, IInv', Whole(hist), ReplayDropRow
  PROVE  Whole(hist)'
<1>1. /\ phase = "dropping" /\ phase' = "replaying" /\ at' = at + 1
      /\ UNCHANGED <<enable_oplog, ix, log, main, prev>>
  BY DEF ReplayDropRow, durable
<1>2. Horizon' = Horizon
  BY <1>1 DEF Horizon, IInv, Types
<1> QED
  BY <1>1, <1>2, SameIndexWhole

LEMMA ReplayEndWhole ==
  ASSUME NEW hist, IInv, IInv', Whole(hist), ReplayEnd
  PROVE  Whole(hist)'
<1>1. /\ phase = "replaying" /\ phase' = "replayed" /\ at > Len(log)
      /\ UNCHANGED <<enable_oplog, ix, log, main, prev>>
  BY DEF ReplayEnd, durable
<1>2. at \in Nat /\ Len(log) \in Nat /\ at <= Len(log) + 1
  BY DEF IInv, Types
<1>3. Horizon' = Horizon
  BY <1>1, <1>2 DEF Horizon
<1> QED
  BY <1>1, <1>3, SameIndexWhole

LEMMA FinishOpenWhole ==
  ASSUME NEW hist, IInv, Whole(hist), FinishOpen
  PROVE  Whole(hist)'
<1>1. /\ phase = "replayed" /\ phase' = "open"
      /\ IF dirty THEN Installed(ix, Len(log)) ELSE UNCHANGED <<main, prev>>
      /\ UNCHANGED <<enable_oplog, ix, log, local>>
  BY DEF FinishOpen
<1>2. Holding = {} /\ OneHolder /\ GateFree
  BY <1>1, NoCalls
<1>3. Horizon = Len(log) /\ Sound(ix, {})
  BY <1>1 DEF Horizon, Whole
<1>4. enable_oplog => Abreast(hist, ix, Len(log))
  BY <1>1, <1>3 DEF Whole, Told
<1>5. CASE dirty
  BY <1>1, <1>2, <1>3, <1>4, <1>5, InstalledWhole
<1>6. CASE ~dirty
  <2>1. UNCHANGED <<main, prev>> /\ Loadable' = Loadable /\ Holding' = {} /\ OneHolder'
    BY <1>1, <1>2, <1>6 DEF Loadable, Holding, OneHolder, Busy
  <2>2. ASSUME enable_oplog
        PROVE  Told(hist)'
    <3>1. Told(hist)
      BY <2>2 DEF Whole
    <3>2. \A f \in Loadable' : Abreast(hist, f.ix, f.lsn)'
      BY <2>1, <3>1 DEF Told, Abreast
    <3>3. \A r \in RealIds : Now(ix', r) = hist[Len(log')][r].now
      BY <1>1, <1>4, <2>2 DEF Abreast
    <3> QED
      BY <1>1, <2>1, <3>1, <3>2, <3>3 DEF Told
  <2> QED
    BY <1>1, <1>3, <2>1, <2>2 DEF Whole
<1> QED
  BY <1>5, <1>6 DEF IInv, Types

LEMMA WholeInit ==
  ASSUME Init
  PROVE  \E hist : Whole(hist)
<1>1. PICK b \in Loads :
        /\ ix = BulkLoaded(b)
        /\ prev = IF DOMAIN b = {} THEN NoFile ELSE [lsn |-> 0, ix |-> ix]
  BY DEF Init
<1>2. /\ phase = "open" /\ main = [lsn |-> 0, ix |-> ix] /\ log = <<>>
      /\ local = [w \in Writers |-> Idle]
  BY DEF Init
<1>3. Holding = {} /\ OneHolder
  BY <1>2, NoneHeld DEF Busy, Idle
<1>4. Sound(ix, {}) /\ \A r \in RealIds : Now(ix, r).ver = r
  BY <1>1, LoadedSound
<1>5. \A f \in Loadable : f = [lsn |-> 0, ix |-> ix]
  BY <1>1, <1>2 DEF Loadable
<1>6. ix \in Index
  BY InvInit DEF IInv, Types
<1> DEFINE hist == [k \in 0..0 |-> [r \in RealIds |-> [now |-> Now(ix, r), last |-> 0, bare |-> FALSE]]]
<1>7. \A r \in RealIds : Now(ix, r) \in Cell
  BY <1>6, NowFacts
<1>8. Len(log) = 0
  BY <1>2
<1>9. \A r \in RealIds : /\ hist[0][r] = [now |-> Now(ix, r), last |-> 0, bare |-> FALSE]
                         /\ hist[0][r] \in Past
  BY <1>7 DEF Past
<1>a. ASSUME NEW r \in RealIds
      PROVE  hist[0][r].now = Now(ix, r) /\ hist[0][r].last = 0 /\ ~hist[0][r].bare
  BY <1>9
<1>10. hist \in [0..0 -> [RealIds -> Past]]
  BY <1>9
<1> HIDE DEF hist
<1>11. Tells(log, hist)
  <2>1. \A k \in 0..0, r \in RealIds :
          LET m == hist[k][r].last
          IN /\ m <= k /\ hist[k][r] = hist[m][r]
             /\ m > 0 => log[m].real = r
             /\ \A j \in (m+1)..k : log[j].real # r
    <3> SUFFICES ASSUME NEW r \in RealIds
                 PROVE  LET m == hist[0][r].last
                        IN /\ m <= 0 /\ hist[0][r] = hist[m][r]
                           /\ m > 0 => log[m].real = r
                           /\ \A j \in (m+1)..0 : log[j].real # r
      OBVIOUS
    <3>1. hist[0][r].last = 0
      BY <1>a
    <3> QED
      BY <3>1
  <2>2. ASSUME NEW r \in RealIds
        PROVE  Fresh(hist[0][r], r)
    <3>1. /\ Now(ix, r).ver = r /\ Now(ix, r).ver = resolve_internal(ix, r)
          /\ Now(ix, r).vec # Gone <=> is_alive(ix, r)
          /\ Now(ix, r).stored <=> r \in DOMAIN ix.vecs
      BY <1>4, <1>6, NowFacts
    <3>2. Now(ix, r).vec # Gone => Now(ix, r).stored
      BY <3>1 DEF is_alive
    <3> QED
      BY <1>a, <3>1, <3>2 DEF Fresh
  <2> QED
    BY <1>8, <1>10, <2>1, <2>2 DEF Tells
<1>12. Abreast(hist, ix, 0)
  BY <1>a DEF Abreast
<1>13. Told(hist)
  <2>1. \A f \in Loadable : Abreast(hist, f.ix, f.lsn)
    BY <1>5, <1>12
  <2>2. \A r \in RealIds : Now(ix, r) = hist[Len(log)][r].now
    BY <1>8, <1>12 DEF Abreast
  <2>3. prev \in CheckpointFile => prev.lsn <= main.lsn
    <3>1. prev \in CheckpointFile => prev = [lsn |-> 0, ix |-> ix]
      BY <1>1, Intact
    <3> QED
      BY <1>2, <3>1
  <2> QED
    BY <1>2, <1>3, <1>11, <2>1, <2>2, <2>3 DEF Told
<1>14. Whole(hist)
  BY <1>2, <1>3, <1>4, <1>5, <1>13 DEF Whole
<1> QED
  BY <1>14

\* The counters of what a run has used.
LEMMA UsedStep ==
  ASSUME UsedType, [Next]_vars
  PROVE  UsedType' /\ used.failures <= used'.failures
<1> DEFINE Grows == \/ used' = used
                    \/ used' = [used EXCEPT !.calls = @ + 1]
                    \/ used' = [used EXCEPT !.crashes = @ + 1]
                    \/ used' = [used EXCEPT !.failures = @ + 1]
                    \/ used' = [used EXCEPT !.damage = @ + 1]
<1>1. ASSUME NEW w \in Writers, Begin(w)
      PROVE  Grows
  BY <1>1 DEF Begin, BeginDelete, DeleteNothing, BeginInsert, BeginUpdate, BeginUpsert, BeginPayload, Begun
<1>2. ASSUME NEW w \in Writers, Step(w)
      PROVE  Grows
  BY <1>2 DEF Step, LogOp, LogOpFails, InsertNode, InsertNodeFails, LogAbort, RecordMapping, Tombstone,
         ReadOldRow, ReadOldRowFails, WriteRow, DropRow, RowFails, ForgetMapping, ReadRow, NoSuchRow, PutRow,
         Fault, Acked, ghosts
<1>3. Checkpoint \/ Crash \/ DamageMain => Grows
  BY DEF Checkpoint, Crash, DamageMain, ghosts
<1>4. Recover => Grows
  BY DEF Recover, LoadCheckpoint, ReplaySkipped, ReplayRecord, ReplayReadFails, ReplayDropRow, ReplayEnd,
         FinishOpen, RecoveryFails, Fault, ghosts
<1>5. Grows
  BY <1>1, <1>2, <1>3, <1>4 DEF Next, vars
<1> QED
  BY <1>5 DEF UsedType

\* While no call has failed, index, files, log and the calls in flight agree.
Consistent == IInv /\ UsedType /\ (used.failures = 0 => \E hist : Whole(hist))

LEMMA ConsistentInit == Init => Consistent
<1> SUFFICES ASSUME Init PROVE Consistent
  OBVIOUS
<1>1. UsedType
  BY DEF Init, UsedType
<1> QED
  BY <1>1, InvInit, WholeInit DEF Consistent

LEMMA WholeStep ==
  ASSUME NEW hist, IInv, IInv', UsedType, used.failures = 0, used'.failures = 0, Whole(hist), Next,
         NEW new, new = Later(hist, log, log')
  PROVE  Whole(new)'
<1>1. CASE \E w \in Writers : Begin(w)
  BY <1>1, BeginWhole
<1>2. CASE \E w \in Writers : Step(w)
  BY <1>2, StepWhole
<1>3. CASE Checkpoint \/ Crash \/ DamageMain
  <2>1. new = hist
    BY <1>3 DEF Checkpoint, Crash, DamageMain, durable, Later
  <2> QED
    BY <1>3, <2>1, CheckpointWhole, CrashWhole, DamageMainWhole
<1>4. CASE Recover
  <2>1. new = hist
    BY <1>4 DEF Recover, LoadCheckpoint, ReplaySkipped, ReplayRecord, ReplayReadFails, ReplayDropRow,
                ReplayEnd, FinishOpen, RecoveryFails, durable, Later
  <2>2. ~ReplayReadFails /\ ~RecoveryFails
    BY DEF ReplayReadFails, RecoveryFails, Fault, UsedType
  <2> QED
    BY <1>4, <2>1, <2>2, NeverSkipped, LoadCheckpointWhole, ReplayRecordWhole, ReplayDropRowWhole,
       ReplayEndWhole, FinishOpenWhole DEF Recover
<1> QED
  BY <1>1, <1>2, <1>3, <1>4 DEF Next

LEMMA ConsistentStep == Consistent /\ [Next]_vars => Consistent'
<1> SUFFICES ASSUME Consistent, [Next]_vars PROVE Consistent'
  OBVIOUS
<1>1. IInv /\ IInv' /\ UsedType
  BY InvStep DEF Consistent
<1>2. UsedType' /\ used.failures <= used'.failures
  BY <1>1, UsedStep
<1>3. ASSUME used'.failures = 0
      PROVE  \E new : Whole(new)'
  <2>1. used.failures = 0
    BY <1>1, <1>2, <1>3 DEF UsedType
  <2>2. PICK hist : Whole(hist)
    BY <2>1 DEF Consistent
  <2>3. CASE Next
    <3>1. PICK new : new = Later(hist, log, log')
      OBVIOUS
    <3>2. Whole(new)'
      BY <1>1, <1>3, <2>1, <2>2, <2>3, <3>1, WholeStep
    <3> QED
      BY <3>2
  <2>4. CASE UNCHANGED vars
    <3>1. Whole(hist)'
      BY <2>2, <2>4 DEF vars, Whole, OneHolder, Busy, Loadable, Holding, Told, CallTold, Abreast, Horizon
    <3> QED
      BY <3>1
  <2> QED
    BY <2>3, <2>4
<1> QED
  BY <1>1, <1>2, <1>3 DEF Consistent

\* While no call has failed, the index, the checkpoint files and the calls in
\* flight keep the id maps, the tombstones and the live count consistent, and
\* the log tells of every id what the index, each file at its position and
\* the replay at its record hold of it.
THEOREM WriteStateConsistent == Spec => []Consistent
  BY ConsistentInit, ConsistentStep, PTL DEF Spec

\* Between calls the index is sound on its own.
LEMMA SoundAtRest ==
  ASSUME Consistent, used.failures = 0, Running, GateFree
  PROVE  Sound(ix, {}) /\ ix \in Index
<1>1. PICK hist : Whole(hist)
  BY DEF Consistent
<1>2. Holding = {}
  BY NoneHeld DEF GateFree
<1> QED
  BY <1>1, <1>2 DEF Whole, Running, Consistent, IInv, Types

\* While no call has failed, every version a search can return between calls
\* is the current version of exactly one live id and translates back to it.
THEOREM OneLiveVersionUnlessFailed == Spec => [](used.failures = 0 => OneLiveVersion)
<1>1. Consistent => (used.failures = 0 => OneLiveVersion)
  <2> SUFFICES ASSUME Consistent, used.failures = 0, Running, GateFree
               PROVE  /\ Cardinality(LiveVersions \ CurrentVersions) <= used.failures
                      /\ \A r \in RealIds : is_alive(ix, r) => resolve_real(ix, resolve_internal(ix, r)) = r
    BY DEF OneLiveVersion
  <2>1. Sound(ix, {}) /\ ix \in Index
    BY SoundAtRest
  <2>2. ASSUME NEW i \in LiveVersions
        PROVE  i \in CurrentVersions
    <3>1. i \in DOMAIN ix.vecs /\ i \notin ix.tomb
      BY DEF LiveVersions
    <3>2. PICK r \in RealIds : resolve_internal(ix, r) = i
      BY <2>1, <3>1 DEF Sound, Placed
    <3>3. is_alive(ix, r)
      BY <3>1, <3>2 DEF is_alive
    <3> QED
      BY <3>2, <3>3 DEF CurrentVersions
  <2>3. Cardinality(LiveVersions \ CurrentVersions) = 0
    <3>1. LiveVersions \ CurrentVersions = {}
      BY <2>2
    <3> QED
      BY <3>1, FS_EmptySet
  <2>4. ASSUME NEW r \in RealIds
        PROVE  resolve_real(ix, resolve_internal(ix, r)) = r
    <3>1. CASE r \in DOMAIN ix.fwd
      <4>1. ix.fwd[r] \in DOMAIN ix.rev /\ ix.rev[ix.fwd[r]] = r
        BY <2>1, <3>1 DEF Sound, Reversed
      <4>2. ix.fwd[r] \in UpdateIds
        BY <2>1, <3>1, IndexFields, MapValues
      <4> QED
        BY <3>1, <4>1, <4>2 DEF resolve_real, resolve_internal, UpdateIds
    <3>2. CASE r \notin DOMAIN ix.fwd
      <4>1. ~is_update_id(r)
        BY IdsAssumption DEF is_update_id
      <4> QED
        BY <3>2, <4>1 DEF resolve_real, resolve_internal
    <3> QED
      BY <3>1, <3>2
  <2> QED
    BY <2>3, <2>4
<1> QED
  BY <1>1, WriteStateConsistent, PTL

\* While no call has failed, live_count_ is the number of live ids between
\* calls, also after crashes, damaged checkpoints and replays.
THEOREM CountExactUnlessFailed == Spec => [](used.failures = 0 => CountWithinFaults)
<1>1. Consistent => (used.failures = 0 => CountWithinFaults)
  <2> SUFFICES ASSUME Consistent, used.failures = 0, Running, GateFree
               PROVE  ix.count - Cardinality({r \in RealIds : is_alive(ix, r)})
                        \in (-used.failures)..used.failures
    BY DEF CountWithinFaults
  <2>1. Sound(ix, {}) /\ ix \in Index
    BY SoundAtRest
  <2>2. Counted(ix, {}) = {r \in RealIds : is_alive(ix, r)}
    BY DEF Counted
  <2>3. ix.count = Cardinality({r \in RealIds : is_alive(ix, r)}) /\ ix.count \in Int
    BY <2>1, <2>2, IndexFields DEF Sound
  <2> QED
    BY <2>3
<1> QED
  BY <1>1, WriteStateConsistent, PTL
=============================================================================
