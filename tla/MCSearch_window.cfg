SPECIFICATION Spec
CONSTANTS
  Reals = {1, 2, 3, 4}
  UpdateIds = {11, 12}
  Points = {1, 2, 3}
  Queries = {1}
  NewPoints = {1}
  MaxLinks = 1
  Start <- StartPoints
  StartMap <- StartVersions
  StartDead = {1, 2}
  StartEdges <- EdgeChoices
  StartUpper <- UpperChoices
  StartRows <- RowChoices
  Values = {1}
  Requests <- RequestChoices
  Ef = 5
  Hash <- TwoProbes
  BloomCapacity = 2
  DenseStamps = 3
  MapStamps = 3
  None = None
  MaxSearches = 1
  MaxWrites = 1
  MaxLoads = 1
CHECK_DEADLOCK FALSE
INVARIANT HitsHaveMappings
