--------------------------- MODULE MCAsterVecDB ---------------------------
\* AsterVecDB for TLC: threads and vectors are interchangeable.
EXTENDS AsterVecDB, TLC

NewStore == {[r \in {} |-> r]}
NewOrLoaded == NewStore \cup {[r \in RealIds |-> v] : v \in Vecs}

Symmetry == Permutations(Writers) \cup Permutations(Vecs)
=============================================================================
