\* A client that closes its side while a response is still being sent.
CONSTANTS
    Conns = {c1}
    Fds = {5}
    MaxChunks = 2
    PartialWrites = TRUE
    None = None
SPECIFICATION FairSpec
PROPERTIES
    ClientCloseHonoured
