SPECIFICATION MCSpec
CONSTANTS
  a = a
  b = b
  d = d
  x = x
  y = y
  c1 = c1
  NULL = NULL
  Programs = {"careful"}
  Empty = Empty
  Names = {a, b}
  DirNames = {}
  Rank <- MCRank
  Contents = {x, y}
  Sources = {y}
  NoData = y
  Comments = {}
  Attrs = {}
  DefaultAttr = attrDefault
  DirAttr = attrDir
  ZeroAttr = attrZero
  UserFlags = {"RDONLY"}
  MaxEntries = 3
  InitialDisk <- MCDisks
INVARIANTS
  TypeOK
  LocateFindsEveryName
  LocateFindsOnlyThatName
  RevertGivesOpenedNames
  DiskNamesUnique
PROPERTIES
  ImplementsStore
