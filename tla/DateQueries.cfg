SPECIFICATION Spec
CONSTANTS
    Factor1 = 3
    Factor2 = 2
    Factor3 = 2
    U32Range = 64
    Limit = 3
    MaxCount = 4
    Times = {1, 23, 24, 26, 31, 35, 36}
INVARIANTS
    WindowHoldsTimestamp
    FirstIsLowest
    LastIsHighest
    DayIsExact
PROPERTY
    Answers
CHECK_DEADLOCK FALSE
