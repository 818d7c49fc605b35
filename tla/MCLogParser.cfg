SPECIFICATION Spec
CONSTANTS
  LogKeys <- MCLogKeys
  LogEntries <- MCLogEntries
  Tombstone = Tombstone
  NoMeta = NoMeta
  LenSize = 2
  ShortWrites = FALSE
  MaxRecords = 2
INVARIANTS TypeOK ParserInStep TakesWholeLogsOnly
