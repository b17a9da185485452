SPECIFICATION MCSpec
CONSTANTS
  a = a
  b = b
  d = d
  x = x
  y = y
  c1 = c1
  NULL = NULL
  Programs = {"metadata", "names"}
  Empty = Empty
  Names = {b, d}
  DirNames = {b, d}
  Rank <- MCRank
  Contents = {x, y}
  Sources = {y}
  NoData = y
  Comments = {c1}
  Attrs = {attrDefault}
  DefaultAttr = attrDefault
  DirAttr = attrDir
  ZeroAttr = attrZero
  UserFlags = {"RDONLY", "CREATE_OR_KEEP", "WANT_TORRENTZIP"}
  MaxEntries = 2
  InitialDisk <- MCCommentedDisks
INVARIANTS
  TorrentzipIsNormalised
PROPERTIES
  ReadOnlyArchiveNeverWritten
  CloseStoresWhatWasSeen
