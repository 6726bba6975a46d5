\* Three clients, two reactors, tables of two descriptors, of which the
\* system allows one or three; the clock starts again after five units.
CONSTANTS
    Clients = {c1, c2, c3}
    NumThreads = 2
    MAXFDS = 2
    Limits = {1, 3}
    Wrap = 5
    Expired = 1
    KeepAlive = 2
    Delay = 1
    MaxTime = 6
SPECIFICATION Spec
INVARIANTS
    TypeOK
    FdsAccounted
    ClosedInTime
PROPERTIES
    AllAccepted
CHECK_DEADLOCK FALSE
