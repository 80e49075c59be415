SPECIFICATION Spec
CONSTANTS
  Writers = {w1, w2}
  Ids = {1, 2, 3}
  Levels = {0, 1, 2}
  M = 1
  MMax = 1
  Rank <- ByDistance
  None = None
  MaxFailures = 1
CHECK_DEADLOCK FALSE
SYMMETRY Symmetry
INVARIANTS ReachableAreLocated NeverStranded UpperDegreeBounded
