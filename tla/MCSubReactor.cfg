\* Two connections, two descriptors, one chunk each: batches of two, and a
\* descriptor that is closed and accepted again.
CONSTANTS
    Conns = {c1, c2}
    Fds = {5, 6}
    MaxChunks = 1
    PartialWrites = TRUE
    None = None
SPECIFICATION Spec
SYMMETRY ConnSymmetry
INVARIANTS
    TypeOK
    OneDeadline
    TablesFollowLife
    BatchAlive
    NothingUnheard
