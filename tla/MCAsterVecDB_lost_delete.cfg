SPECIFICATION Spec
CONSTANTS
  Writers = {t1}
  RealIds = {1}
  UpdateBase = 10
  Vecs = {x}
  Keys = {}
  Absent = Absent
  Gone = Gone
  LogModes = {TRUE}
  Loads <- NewStore
  MaxCalls = 2
  MaxCrashes = 1
  MaxFailures = 2
  MaxDamage = 0
  MaxFaults = 3
CHECK_DEADLOCK FALSE
INVARIANT AckedDeletesSurvive
