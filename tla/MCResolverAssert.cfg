SPECIFICATION Spec
CONSTANTS
    Sockets = {s1, s2}
    MaxLookups = 2
CHECK_DEADLOCK FALSE
INVARIANTS
    TimerAssertHolds
