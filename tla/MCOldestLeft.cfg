SPECIFICATION Spec
CONSTANTS
  Keys = {k1}
  ShortKeys = {}
  Absent = Absent
  k1 = k1
  TargetChunks = 4
  Levels = 2
  Faults = {}
  MaxFlushes = 5
  MaxCompactions = 1
CHECK_DEADLOCK FALSE
INVARIANT UpperLevelNewerEntries
