SPECIFICATION Spec
CONSTANTS
  Workers = {w1, w2}
  Dims = {2}
  Metrics = {"l2"}
  Ids = {1, 2}
  Envs <- EnvChoices
  Interval = FALSE
  NoFile = NoFile
  Torn = Torn
  None = None
  MaxCalls = 2
  MaxSignals = 0
  MaxFaults = 0
CHECK_DEADLOCK FALSE
INVARIANT NoFalseDelete
