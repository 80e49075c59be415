SPECIFICATION Spec
CONSTANTS
  Workers = {w1}
  Dims = {2}
  Metrics = {"l2"}
  Ids = {1}
  Envs <- EnvChoices
  Interval = FALSE
  NoFile = NoFile
  Torn = Torn
  None = None
  MaxCalls = 1
  MaxSignals = 0
  MaxFaults = 1
CHECK_DEADLOCK FALSE
INVARIANT ExistingIndexReopens
