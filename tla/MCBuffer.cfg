SPECIFICATION Spec
CONSTANTS
    a = a
    b0 = b0
    Junk = Junk
    Byte <- MCByte
    Delimiters <- MCDelimiters
    Capacity = 4
    ReadChunk = 2
    MaxLen = 2
PROPERTY RefinesByteQueue
