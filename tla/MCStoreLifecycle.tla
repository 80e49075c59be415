-------------------------- MODULE MCStoreLifecycle --------------------------
EXTENDS StoreLifecycle, TLC

Symmetry == Permutations(Encodings)
=============================================================================
