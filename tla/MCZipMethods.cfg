SPECIFICATION MCSpec
CONSTANTS
  a = a
  b = b
  d = d
  x = x
  y = y
  c1 = c1
  NULL = NULL
  Programs = {"any"}
  Empty = Empty
  Names = {a, b}
  DirNames = {}
  Rank <- MCRank
  Contents = {x, y}
  Sources = {y}
  NoData = y
  Comments = {}
  Attrs = {}
  DefaultAttr = attrDefault
  DirAttr = attrDir
  ZeroAttr = attrZero
  UserFlags = {"RDONLY"}
  MaxEntries = 2
  InitialDisk <- MCDisks
INVARIANTS
  DiskNamesUnique
