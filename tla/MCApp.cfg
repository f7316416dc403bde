SPECIFICATION AppFairSpec
CONSTANTS
    FDs = {s1, s2}
    Callbacks = {}
    Requests = {}
    Conditions = {"READ"}
    EventsNum = 1
    PollCap = 2
    MaxTime = 2
    MaxPending = 0
    IdModulus = 4
    Never = 99
    Delays = {0, 1, 3}
    MaxAdds = 4
CHECK_DEADLOCK FALSE
PROPERTIES
    SigtermEnds
    EndsStopped
