SPECIFICATION FairSpec
CONSTANTS
    Procs = {p1, p2}
    Names <- MCNames
    MaxSegments = 2
    IdModulus = 3
    Room = 2
    Asked <- MCAsked
    MaxTime = 1
CHECK_DEADLOCK FALSE
INVARIANTS
    OneContainer
    NullOnlyIfEarly
    Conserved
PROPERTIES
    AttachResolves
