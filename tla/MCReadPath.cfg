SPECIFICATION FairStoreSpec
CONSTANTS
  Keys = {k1}
  ShortKeys = {}
  Absent = Absent
  k1 = k1
  TargetChunks = 3
  Levels = 1
  Faults = {}
  MaxFlushes = 3
  MaxCompactions = 2
  FilesPerSecond = 1
  DeletesIn = {2}
  MaxReloads = 1
CHECK_DEADLOCK FALSE
INVARIANTS StoreTypeOK ViewKept UpperLevelNewerEntries ReloadLosesNothing GetIsAtomic
PROPERTY FlushedBecomesReadable
