SPECIFICATION Spec
CONSTANTS
  Writers = {t1, t2}
  RealIds = {1}
  UpdateBase = 10
  Vecs = {x}
  Keys = {k}
  Absent = Absent
  Gone = Gone
  LogModes = {TRUE, FALSE}
  Loads <- NewStore
  MaxCalls = 3
  MaxCrashes = 2
  MaxFailures = 1
  MaxDamage = 1
  MaxFaults = 2
CHECK_DEADLOCK FALSE
INVARIANTS AckedWritesSurvive RowsBelongToLiveIds CountWithinFaults OneLiveVersion
