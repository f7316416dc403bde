SPECIFICATION FairSpec
CONSTANTS
    f1 = f1
    f2 = f2
    c1 = c1
    c2 = c2
    FDs <- MCFDs
    Callbacks <- MCCallbacks
    Requests <- MCRequests
    Conditions = {"READ"}
    EventsNum = 1
    PollCap = 2
    MaxTime = 2
    MaxPending = 2
    IdModulus = 2
    Never = 99
    Delays = {1}
    MaxAdds = 1
INVARIANTS
    HandlersCounted
    NoOversleep
PROPERTIES
    CallbacksFIFO
    CallbackRuns
    TimerFires
    ReadyIsDispatched
