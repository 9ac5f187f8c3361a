SPECIFICATION Spec
CONSTANTS
    NONE = NONE
    Numbers = {0, 1, 2, 3}
    OtherNames = {rev0, xordat}
    AllocationSize = 1
    PathNumbers = {0, 7}
INVARIANT StartsAtFileZero
CHECK_DEADLOCK FALSE
