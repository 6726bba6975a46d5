\* Four messages, three keys, levels 0 to 2.
CONSTANTS
    Nodes = {1, 2, 3, 4}
    KeyOf <- MCKeyOf
    MaxLevel = 2
    MaxItems = 2
    Header = Header
    NULL = NULL
SPECIFICATION Spec
INVARIANTS
    TypeOK
    WellLinked
    ReaderStaysInList
    NoGaps
    LatestReturned
PROPERTIES
    IsMessageSet
