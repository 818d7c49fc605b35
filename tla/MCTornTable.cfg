SPECIFICATION Spec
CONSTANTS
  Keys = {1, 2}
  Values = {1}
  Tombstone = Tombstone
  Absent = Absent
  KeyLen <- LengthOfKey
  ValLen <- LengthOfValue
  StartupConfigs <- JustOn
  ReloadConfigs <- NoReload
  U32 = 1000
  Faults = {}
  MaxBatch = 1
  MaxWal = 2
  MaxTables = 2
CHECK_DEADLOCK FALSE
INVARIANT TablesOpen
