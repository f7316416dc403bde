SPECIFICATION FairSpec
CONSTANTS
    Capacity = 4
    ReadChunk = 2
    WriteChunk = 1
    SendBuffer = 1
    PeerBytes = 3
    Delimiters = {2}
    ReadSizes = {2}
    WriteSizes = {2, 5}
    MaxReads = 2
    MaxWrites = 1
INVARIANTS
    NoLostInterest
    OneAnswerPerRead
    
    IntactUnlessOverlaid
PROPERTIES
    
    CloseIsFinal
    ReadResolves
    WriteResolves
    PeerCloseNoticed
CHECK_DEADLOCK FALSE
