SPECIFICATION AllocSpec
CONSTANTS
  t1 = t1
  t2 = t2
  s1 = s1
  s2 = s2
  Threads = {t1, t2}
  SectionsOf <- Shared
  DirectIds = {0, 1, 2}
  UpdateIds = {u1}
  SlotsPerPage = 2
  Capacities = {2}
  NoLoc = NoLoc
  MaxPages = 4
  MaxFailures = 1
INVARIANTS SlotsNotShared OpenPagesHaveRoom NoSlotLeaks
