SPECIFICATION Spec
CONSTANTS
  Keys = {1, 2}
  Values = {1, 3}
  Tombstone = Tombstone
  Absent = Absent
  KeyLen <- LengthOfKey
  ValLen <- LengthOfValue
  StartupConfigs <- JustOn
  ReloadConfigs <- OnOrTight
  U32 = 1000
  Faults = {"io_error"}
  MaxBatch = 2
  MaxWal = 2
  MaxTables = 2
CHECK_DEADLOCK FALSE
INVARIANTS FlushNeverPanics LogIsMemtable
PROPERTY CrashKeepsWrites
