SPECIFICATION FairSpec
CONSTANTS
  Workers = {w1, w2}
  Dims = {2, 3}
  Metrics = {"l2"}
  Ids = {1, 2}
  Envs <- EnvChoices
  Interval = TRUE
  NoFile = NoFile
  Torn = Torn
  None = None
  MaxCalls = 3
  MaxSignals = 1
  MaxFaults = 1
CHECK_DEADLOCK FALSE
INVARIANTS RestartReopens ShutdownKeepsAnswers
PROPERTIES EveryRequestAnswered SignalStopsRunningServer
