SPECIFICATION Spec
CONSTANTS
  Keys = {1, 2}
  Values = {3}
  Tombstone = Tombstone
  Absent = Absent
  KeyLen <- LengthOfKey
  ValLen <- LengthOfValue
  StartupConfigs <- OnOrOff
  ReloadConfigs <- OnOffOrRemote
  U32 = 1000
  Faults = {"io_error", "short_write", "power_loss"}
  MaxBatch = 2
  MaxWal = 2
  MaxTables = 2
CHECK_DEADLOCK FALSE
INVARIANTS TypeOK SizeCoversEntries FlushInv
PROPERTY FlushKeepsView
