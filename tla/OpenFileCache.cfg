SPECIFICATION Spec
CONSTANTS
    NULL = NULL
    Paths = {p1, p2}
    Streams = {s1, s2, s3}
    MaxOpenFiles = 2
    TimeModulus = 3
    MaxInit = 2
    MaxNow = 3
SYMMETRY Symmetry
INVARIANTS
    TypeOK
    FlagsMatchSlots
    StreamsOwned
    ReadsItsOwnFile
PROPERTIES
    EvictsOldest
    KeepsPromise
CHECK_DEADLOCK FALSE
