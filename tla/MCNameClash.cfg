SPECIFICATION Spec
CONSTANTS
  Keys = {k1, k2}
  ShortKeys = {}
  Absent = Absent
  k1 = k1
  k2 = k2
  TargetChunks = 2
  Levels = 2
  Faults = {}
  MaxFlushes = 4
  MaxCompactions = 2
CHECK_DEADLOCK FALSE
INVARIANT NothingErased
