SPECIFICATION Spec
CONSTANTS
    NULL = NULL
    MaxWord = 120
    MaxCount = 1
    CDBUFSIZE = 150
    LatestTime = 100
    MaxFields = 30
    MaxEntries = 2
    MaxEdits = 3
    MaxCloses = 2
    Additions <- MCAdditions
    Fields <- MCFields
    Times <- MCTimes
    Comments <- MCComments
    PrefixSizes <- MCPrefixes
    Numbers <- MCNumbers
    Deflated <- MCDeflated
    MaxDeflated <- MCMaxDeflated
CHECK_DEADLOCK FALSE
INVARIANTS
    OwnArchivesOpen
    ArchiveIsAsEdited
    PiecesAreRefused
    DamageIsDetected
