\* A client with three requests, in all possible pieces.
CONSTANTS
    Requests <- MCRequests
    Hello <- MCHello
    Named = {"n@x", "m@x"}
    Listings = {"0@5"}
    MaxRequests = 3
SPECIFICATION Spec
INVARIANTS
    TypeOK
    StoredAsSent
    NoneWaiting
PROPERTIES
    WholeServed
CHECK_DEADLOCK FALSE
