SPECIFICATION Spec
CONSTANTS
  Writers = {w1, w2}
  Ids = {1, 2, 3}
  Levels = {0, 1, 2}
  M = 2
  MMax = 2
  Rank <- ByDistance
  None = None
  MaxFailures = 0
CHECK_DEADLOCK FALSE
INVARIANT EntryAtMaxLayer
