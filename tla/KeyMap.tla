------------------------------- MODULE KeyMap -------------------------------
(***************************************************************************)
(* What a keyed store promises about its point ids (the comments of        *)
(* AsterVecDB::resolveId and of PointId): a key has at most one dense id,  *)
(* no two keys share one, and an assignment never changes.  A power loss   *)
(* may undo assignments, but only those no checkpoint has made durable.    *)
(* PointKeys implements this.                                              *)
(***************************************************************************)
EXTENDS Integers

CONSTANT Keys

VARIABLES map,     \* the dense id of each key, or NoId
          kept,    \* the keys whose assignment a checkpoint has made durable
          serving  \* the store is open

NoId == -1
Assigned(m) == {k \in Keys : m[k] # NoId}

Init == map = [k \in Keys |-> NoId] /\ kept = {} /\ serving = TRUE

\* New keys get ids no other key has (one of them, or all those of a bulk load).
Assign == /\ serving
          /\ map' \in [Keys -> Nat \cup {NoId}]
          /\ \A k \in Assigned(map) : map'[k] = map[k]
          /\ \A j, k \in Assigned(map') : map'[j] = map'[k] => j = k
          /\ UNCHANGED <<kept, serving>>

Keep == serving /\ kept' = Assigned(map) /\ UNCHANGED <<map, serving>>

\* A crash, or a power loss; a crash loses nothing.
Fail == /\ serving' = FALSE
        /\ \E S \in SUBSET Assigned(map) :
             /\ kept \subseteq kept' /\ kept' \subseteq S
             /\ map' = [k \in Keys |-> IF k \in S THEN map[k] ELSE NoId]

Recover == serving' = TRUE /\ UNCHANGED <<map, kept>>

Next == Assign \/ Keep \/ Fail \/ Recover

Spec == Init /\ [][Next]_<<map, kept, serving>>
=============================================================================
