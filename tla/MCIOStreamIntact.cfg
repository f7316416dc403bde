SPECIFICATION Spec
CONSTANTS
    Capacity = 5
    ReadChunk = 2
    WriteChunk = 1
    SendBuffer = 1
    PeerBytes = 3
    Delimiters = {2}
    ReadSizes = {2}
    WriteSizes = {2}
    MaxReads = 1
    MaxWrites = 1
INVARIANT DeliveredIntact
CHECK_DEADLOCK FALSE
