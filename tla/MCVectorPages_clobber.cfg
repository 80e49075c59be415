SPECIFICATION Spec
CONSTANTS
  t1 = t1
  t2 = t2
  s1 = s1
  s2 = s2
  Threads = {t1, t2}
  SectionsOf <- SameSection
  Readers = {}
  DirectIds = {0, 1, 2}
  UpdateIds = {u1}
  SlotsPerPage = 3
  Capacities = {4}
  NoLoc = NoLoc
  MaxPages = 3
  MaxFailures = 0
  BufferCap = 1
  MaxCached = 0
  Zero = Zero
  NoBuffer = NoBuffer
  MaxTorn = 0
INVARIANT AlwaysReadable
