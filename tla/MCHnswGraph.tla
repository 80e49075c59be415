---------------------------- MODULE MCHnswGraph ----------------------------
\* HnswGraph for TLC: ids are points on a line, writers alike.
EXTENDS HnswGraph, TLC

Abs(x) == IF x < 0 THEN -x ELSE x
Symmetry == Permutations(Writers)
\* The ends of the line see no ties, those between see their neighbours tie.
ByDistance == [n \in Ids |-> [x \in Ids |-> Abs(x - n)]]

\* Ids begin in their order and draw these levels.
Draws == <<0, 1, 2, 1>>
Scenario ==
  \A w \in Writers : Busy(w) =>
    /\ call[w].high = Draws[call[w].id]
    /\ \A i \in 1..(call[w].id - 1) : i \in located \/ \E v \in Writers : Busy(v) /\ call[v].id = i
=============================================================================
