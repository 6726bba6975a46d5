\* Two reactors, four names for three slots, two messages, two starts.
CONSTANTS
    Reactors = {r1, r2}
    a = a
    f = f
    Messages = {a, f}
    Broken <- MCBroken
    Own = Own
    Keys <- MCKeys
    Capacity = 3
    MaxItems = 2
    MaxTime = 2
    MaxStarts = 2
    MaxAsked = 4
    None = None
    Blank = Blank
    Index = Index
    NoFile = NoFile
SPECIFICATION Spec
SYMMETRY Symmetry
INVARIANTS
    TypeOK
    ListIsOrder
    KeysDistinct
    CacheWasTrue
    AckedListed
PROPERTIES
    SavedComesBack
    SaveIsComplete
    IsBoundedMap
CHECK_DEADLOCK FALSE
