---------------------------- MODULE MCEdgeCache -----------------------------
EXTENDS EdgeCache

\* Homes at the end of the table, so that probe chains wrap around: two keys
\* share the last cell, one has the cell before it, one the first.
Homes(k) == CASE k = 1 -> 14 [] k = 4 -> 16 [] OTHER -> 15

\* At the one-byte and the two-byte boundary.
ListChoices == {<<>>, <<16384, 128, 1>>}
=============================================================================
