SPECIFICATION FairSpec
CONSTANTS
  Workers = {w1}
  Dims = {2}
  Metrics = {"l2"}
  Ids = {1, 2}
  Envs <- EnvChoices
  Interval = FALSE
  NoFile = NoFile
  Torn = Torn
  None = None
  MaxCalls = 1
  MaxSignals = 1
  MaxFaults = 0
CHECK_DEADLOCK FALSE
PROPERTY RunsUntilSignal
