SPECIFICATION Spec
CONSTANTS
  x = x
  y = y
  z = z
  NULL = NULL
  Files = {x, y, z}
  Sources = {z}
  Length <- MCLength
  Gaps <- MCGaps
  InitialFiles <- MCInitialFiles
  MaxEntries = 2
  MaxReaders = 1
  MaxSessions = 1
CONSTRAINT NotStale
CHECK_DEADLOCK FALSE
PROPERTIES
  CommitStoresView
