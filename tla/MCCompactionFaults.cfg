SPECIFICATION Spec
CONSTANTS
  Keys = {k1}
  ShortKeys = {}
  Absent = Absent
  k1 = k1
  TargetChunks = 3
  Levels = 2
  Faults = {"crash", "io_error", "torn_flush"}
  MaxFlushes = 5
  MaxCompactions = 1
CHECK_DEADLOCK FALSE
INVARIANTS TypeOK UnitKeepsOrder NothingErased
