SPECIFICATION Spec
CONSTANTS
    BUFSIZE = 2
    CheckCons = TRUE
    Lucky = {"wrong"}
    Contents <- MCContents
    Readers = {"r1","r2"}
    Programs <- MCPrograms
    ReadSizes = {2}
    SeekTo = {1}
    AE2_SIZE = 3
    Password = "key"
    Damages = {"flip","cut"}
INVARIANTS
    ArchiveSourceBalanced
    ReadersUndisturbed
    NoSilentDamage
    SourceErrorsFailTheClose
    NoFailureWithoutCause
    EntriesDescribeData
PROPERTIES
    Terminates
CHECK_DEADLOCK FALSE
