SPECIFICATION FairSpec
CONSTANTS
    NONE = NONE
    Blocks = {b1, b2, b3, b4}
    FileKeys = {f1}
    OtherKeys = {l1}
    MaxHeight = 4
    Statuses <- MCStatuses
INVARIANTS
    TypeOK
    StaysInArray
    NoHoles
    OneChain
PROPERTY
    Terminates
CHECK_DEADLOCK FALSE
