--------------------------- MODULE MCVectorPages ---------------------------
\* VectorPages for TLC, with the ways threads may share sections.
EXTENDS VectorPages

CONSTANTS t1, t2, s1, s2
OneWriter == [t \in Threads |-> IF t = t1 THEN {s1, s2} ELSE {}]
SameSection == [t \in Threads |-> {s1}]
Shared == [t \in Threads |-> IF t = t1 THEN {s1, s2} ELSE {s1}]
=============================================================================
