SPECIFICATION Spec
CONSTANTS
    Rank <- NameRank
    FoldedRank <- NameFolded
    DirNames = {"d/"}
    Base <- BaseName
    Inside <- NamesInside
    Crc <- Checksum
    Now = 3
    Word = 8
    Scenarios <- AllScenarios
    NULL = NULL
    Memory = "memory"
    MaxBuffers = 2
INVARIANTS VerdictIsRight MergeIsComplete ZiptoolObeys ProgressTellsTheTruth FailuresLeaveArchives
PROPERTY EveryRunEnds
CHECK_DEADLOCK FALSE
