SPECIFICATION MCSpec
CONSTANTS
  Processes = {p, q}
  Temps = {s, t}
  Archive = archive
  NONE = NONE
  Parts = 2
  MaxInode = 2
  MaxLength = 2
  MaxFiles = 2
  MaxReaders = 2
  NOSOURCE = NOSOURCE
SYMMETRY Symmetry
INVARIANTS
  ReadersSeeWhole
  NoTempLeft
PROPERTIES
  SourceReadsItsPart
  ImplementsAtomicFile
