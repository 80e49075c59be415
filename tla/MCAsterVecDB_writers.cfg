SPECIFICATION Spec
CONSTANTS
  Writers = {t1, t2}
  RealIds = {0, 1}
  UpdateBase = 10
  Vecs = {x, y}
  Keys = {}
  Absent = Absent
  Gone = Gone
  LogModes = {TRUE, FALSE}
  Loads <- NewOrLoaded
  MaxCalls = 3
  MaxCrashes = 1
  MaxFailures = 0
  MaxDamage = 1
  MaxFaults = 2
CHECK_DEADLOCK FALSE
SYMMETRY Symmetry
INVARIANTS AckedWritesSurvive UpdateIdsFresh
