SPECIFICATION FairSpec
CONSTANTS
    Streams <- MCStreams
    FirstSeq = 12
    SeqRange = 16
    BufferSize = 4
    Window = 2
    HighWater = 3
    BaseLen = 3
    MaxLen = 5
    MaxChunk = 3
INVARIANTS
    InOrder
    AccessUnitWhole
    KeyFrameFirst
    TcpPacketsWhole
PROPERTIES
    EndsAfterClose
CHECK_DEADLOCK FALSE
