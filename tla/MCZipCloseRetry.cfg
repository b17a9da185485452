SPECIFICATION Spec
CONSTANTS
  x = x
  y = y
  z = z
  NULL = NULL
  Files = {x, y, z}
  Sources = {z}
  Length <- MCLength
  Gaps <- MCGaps
  InitialFiles <- MCOrderedFile
  MaxEntries = 3
  MaxReaders = 0
  MaxSessions = 1
CHECK_DEADLOCK FALSE
PROPERTIES
  RetriedCloseStoresView
