SPECIFICATION MCSpec
CONSTANTS
    MaxAddress = 11
    Byte = {1, 2, 3, 4, 5}
    UserFragments <- MCUserFragments
    Written <- MCWritten
    Seeks <- MCSeeks
    MaxLeft = 5
    MaxSize = 3
    MaxOpens = 2
    MaxWrites = 3
    FragmentSize = 2
    FirstCapacity = 1
    NULL = NULL
    CORRUPT = CORRUPT
    UNDEFINED = UNDEFINED
    NONE = NONE
    DAMAGED = DAMAGED
INVARIANTS
    MemoryIsOwned
PROPERTIES
    UserMemoryUntouched
    ImplementsByteSource
    HoleKeepsBytes
CHECK_DEADLOCK FALSE
