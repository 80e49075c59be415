---------------------------- MODULE MCPointKeys ----------------------------
EXTENDS PointKeys, TLC

CONSTANTS k1, k2, k3, s1, s2

\* Two keys share a shard.
TwoShards == k1 :> s1 @@ k2 :> s2 @@ k3 :> s1

Symmetry == Permutations(Writers)
=============================================================================
