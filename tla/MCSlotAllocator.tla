-------------------------- MODULE MCSlotAllocator --------------------------
\* SlotAllocator for TLC: two writers that share a section and one that
\* also stores into a second.
EXTENDS SlotAllocator

CONSTANTS t1, t2, s1, s2
Shared == [t \in {t1, t2} |-> IF t = t1 THEN {s1} ELSE {s1, s2}]
=============================================================================
