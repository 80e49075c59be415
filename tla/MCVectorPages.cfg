SPECIFICATION Spec
CONSTANTS
  t1 = t1
  t2 = t2
  s1 = s1
  s2 = s2
  Threads = {t1, t2}
  SectionsOf <- Shared
  Readers = {t1, t2}
  DirectIds = {0}
  UpdateIds = {u1}
  SlotsPerPage = 3
  Capacities = {2}
  NoLoc = NoLoc
  MaxPages = 3
  MaxFailures = 1
  BufferCap = 1
  MaxCached = 1
  Zero = Zero
  NoBuffer = NoBuffer
  MaxTorn = 1
INVARIANTS PublishedReadable CheckpointedOnDisk CapsHold
