SPECIFICATION Spec
CONSTANTS
  Writers = {t1, t2}
  RealIds = {1}
  UpdateBase = 10
  Vecs = {x}
  Keys = {k}
  Absent = Absent
  Gone = Gone
  LogModes = {TRUE}
  Loads <- NewStore
  MaxCalls = 3
  MaxCrashes = 0
  MaxFailures = 0
  MaxDamage = 0
  MaxFaults = 0
CHECK_DEADLOCK FALSE
INVARIANT PayloadWritesSerialized
