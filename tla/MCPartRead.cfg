SPECIFICATION Spec
CONSTANTS
  Keys = {k1}
  ShortKeys = {}
  Absent = Absent
  k1 = k1
  TargetChunks = 2
  Levels = 2
  Faults = {"part_read"}
  MaxFlushes = 2
  MaxCompactions = 1
CHECK_DEADLOCK FALSE
INVARIANT FlushesKept
