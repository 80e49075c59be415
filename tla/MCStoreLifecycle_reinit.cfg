SPECIFICATION Spec
CONSTANTS
  Encodings = {varint, raw}
  Modes = {"dense", "keyed"}
  NoFile = NoFile
  None = None
  MaxLives = 2
  MaxWrites = 2
  MaxCrashes = 2
  MaxDamage = 1
  MaxFailures = 1
CHECK_DEADLOCK FALSE
SYMMETRY Symmetry
INVARIANT ReinitRecoverable
