SPECIFICATION MatchSpec
CONSTANTS
    Alphabet = {"a", "b"}
    MaxStr = 4
    MaxPattern = 4
INVARIANTS
    DecidesThePattern
    StaysInside
PROPERTY
    Returns
CHECK_DEADLOCK FALSE
