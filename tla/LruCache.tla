------------------------------ MODULE LruCache ------------------------------
(***************************************************************************)
(* What a shard of the edge cache promises (src/include/astervec_index.h,  *)
(* EdgeLRUCache): a list of at most Cap entries, the latest put first; a   *)
(* put that finds it full drops the last; a get copies an entry and leaves *)
(* the order alone.                                                        *)
(***************************************************************************)
EXTENDS Integers, Sequences, SequencesExt

CONSTANTS Keys, Lists, Cap, Miss

VARIABLES order,  \* the entries, latest put first
          got     \* what the last get returned

vars == <<order, got>>

Init == order = <<>> /\ got = Miss

Without(k) == LET o == order IN SelectSeq(o, LAMBDA e : e.key # k)
Of(k) == {e \in ToSet(order) : e.key = k}

Put(k, l) ==
  /\ UNCHANGED got
  /\ LET s == <<[key |-> k, list |-> l]>> \o Without(k) IN
     order' = IF Len(s) > Cap THEN Front(s) ELSE s

Erase(k) == UNCHANGED got /\ order' = Without(k)

Get(k) ==
  /\ got' = IF Of(k) = {} THEN Miss ELSE (CHOOSE e \in Of(k) : TRUE).list
  /\ UNCHANGED order

Next == \E k \in Keys : (\E l \in Lists : Put(k, l)) \/ Erase(k) \/ Get(k)

Spec == Init /\ [][Next]_vars
=============================================================================
