SPECIFICATION Spec
CONSTANTS
    Slots = {s1, s2}
    Limit = 1
    Minute = 2
    MaxTime = 4
    MaxArrivals = 4
CHECK_DEADLOCK FALSE
INVARIANTS
    WindowLimit
    MinuteLimit
    Accounted
SYMMETRY Symmetry
