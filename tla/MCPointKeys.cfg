SPECIFICATION Spec
CONSTANTS
  k1 = k1
  k2 = k2
  k3 = k3
  s1 = s1
  s2 = s2
  Keys = {k1, k2, k3}
  None = None
  Writers = {w1, w2}
  Shards = {s1, s2}
  ShardOf <- TwoShards
  MaxRealId = 1
  MaxCalls = 3
  MaxCrashes = 2
  MaxFailures = 1
CHECK_DEADLOCK FALSE
SYMMETRY Symmetry
INVARIANTS MapsInverse HitsAreTheLiveKeys
PROPERTY KeyMapSpec
