SPECIFICATION Spec
CONSTANTS
  Ops = {a, b}
  SegmentBytes = 2
  MaxLsn = 3
  MaxDamage = 1
  NoFile = NoFile
INVARIANTS
  ScanComplete
  LogCoversCheckpoints
  NoStaleReplay
