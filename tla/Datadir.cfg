SPECIFICATION Spec
CONSTANTS
    d1 = d1
    d2 = d2
    u1 = u1
    Dirs = {d1, d2}
    Users = {u1}
    Keys = {key}
    ZERO = ZERO
    ABSENT = ABSENT
    SHORT = SHORT
    NONE = NONE
    DefaultDatadirs <- MCDefaultDatadirs
    Layouts <- MCLayouts
    MaxInit = 2
    MaxChanges = 1
INVARIANTS
    BitsWereSeen
    UsesFirstFound
    
CHECK_DEADLOCK FALSE
