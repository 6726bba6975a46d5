\* A response larger than the room in the send buffer.
CONSTANTS
    Conns = {c1}
    Fds = {5}
    MaxChunks = 1
    PartialWrites = TRUE
    None = None
SPECIFICATION Spec
INVARIANT
    ResponsesComplete
