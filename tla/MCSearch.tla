------------------------------ MODULE MCSearch ------------------------------
EXTENDS Search, TLC

\* Real id 1 was updated, 2 deleted, 3 inserted once, 4 is still free.
StartPoints == 1 :> 1 @@ 2 :> 2 @@ 3 :> 3 @@ 11 :> 2 @@ [n \in Versions |-> None]
StartVersions == 1 :> 11 @@ [r \in Reals |-> None]

\* A cycle through a tombstoned node, and another tombstone hanging on it.
EdgeChoices == {{{1, 2}, {2, 11}, {11, 3}, {2, 3}}}
RowChoices == {{11}}
UpperChoices == {{2, 11}}

\* Two probes per id; neighbours share one.
TwoProbes(r, c) == {r % (2 * c), (r + 1) % (2 * c)}

\* The filter lets a row through unless its value is 1, and so a missing row.
NotOne == [kind |-> "and", children |-> {[kind |-> "ne", value |-> 2],
                                         [kind |-> "nin", values |-> {1}]}]
RequestChoices == {[k |-> 2, filter |-> NoFilter, maxScan |-> 0],
                   [k |-> 4, filter |-> NotOne, maxScan |-> 0],
                   [k |-> 1, filter |-> NotOne, maxScan |-> 1]}
OneHit == {[k |-> 1, filter |-> NotOne, maxScan |-> 0]}
=============================================================================
