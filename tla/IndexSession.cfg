SPECIFICATION FairSpec
CONSTANTS
    NONE = NONE
    TORN = TORN
    BITCOIND = BITCOIND
    Sessions = {s1, s2}
    BlocksPerFile = 1
    MaxTip = 1
    MaxRuns = 2
INVARIANTS
    NoChangeUnderReader
    FreshWhenAlone
    ListCoversIndex
    LeavesNoCopy
PROPERTY
    Ends
CHECK_DEADLOCK FALSE
