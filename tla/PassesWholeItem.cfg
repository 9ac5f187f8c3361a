SPECIFICATION Spec
CONSTANTS
    GARBAGE = GARBAGE
    Base = 8
    HeaderVersionSize = 2
    HashSize = 2
    TailSize = 1
    VersionSize = 1
    OutpointSize = 2
    SequenceSize = 1
    AmountSize = 2
    LocktimeSize = 1
    ByteXor <- MCXor
    Cases <- MCCasesLarge
PROPERTY PassesWholeItem
CHECK_DEADLOCK FALSE
