SPECIFICATION FairSpec
CONSTANTS
  Keys = {1, 2}
  Values = {3}
  Tombstone = Tombstone
  Absent = Absent
  KeyLen <- LengthOfKey
  ValLen <- LengthOfValue
  StartupConfigs <- JustOn
  ReloadConfigs <- OnOffOrTight
  U32 = 1000
  Faults = {}
  MaxBatch = 2
  MaxWal = 2
  MaxTables = 2
CHECK_DEADLOCK FALSE
INVARIANT LogInMemory
PROPERTIES ImplementsKVStore OverLimitDrains
