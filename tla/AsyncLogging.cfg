\* Buffers of two or three lines, cut when more than two are queued.
CONSTANTS
    Buffers = {b1, b2, b3, b4, b5, b6, b7, b8, b9}
    Capacity = 4
    MaxLen = 2
    MaxQueued = 2
    MaxLines = 5
    NULL = NULL
SPECIFICATION FairSpec
INVARIANTS
    TypeOK
    AssertsHold
    NoSharing
    LogFaithful
PROPERTIES
    LinesReachFile
CHECK_DEADLOCK FALSE
