SPECIFICATION TcpFairSpec
CONSTANTS
    FDs = {f1, f2, f3}
    Callbacks = {}
    Requests = {}
    Conditions = {"READ"}
    EventsNum = 2
    PollCap = 1
    MaxTime = 0
    MaxPending = 0
    IdModulus = 2
    Never = 99
    Delays = {}
    MaxAdds = 0
    MaxConnections = 2
CHECK_DEADLOCK FALSE
INVARIANTS
    HandlersOwnTheirFiles
PROPERTIES
    BacklogServed
    SigtermStops
