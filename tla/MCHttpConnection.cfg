SPECIFICATION FairSpec
CONSTANTS
    Capacity = 4
    ReadChunk = 2
    WriteChunk = 1
    SendBuffer = 1
    PeerBytes = 3
    Delimiters = {1}
    ContentLength = 1
    ContinueLen = 1
    HeaderLen = 1
    BodyLens = {0, 1, 2}
INVARIANTS
    AssertsHold
    OwnedUntilWritten
PROPERTIES
    ResponseNotCut
    FinishedCloses
CHECK_DEADLOCK FALSE
