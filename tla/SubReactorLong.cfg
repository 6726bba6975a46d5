\* One connection that sends several chunks: keep-alive, and its end.
CONSTANTS
    Conns = {c1}
    Fds = {5}
    MaxChunks = 3
    PartialWrites = TRUE
    None = None
SPECIFICATION FairSpec
INVARIANTS
    OneDeadline
    NothingUnheard
PROPERTIES
    EventuallyClosed
