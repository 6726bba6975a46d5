\* A message of an earlier second is inserted during a search.
CONSTANTS
    Nodes = {1, 2, 3, 4}
    KeyOf <- MCKeyOf
    MaxLevel = 2
    MaxItems = 2
    Header = Header
    NULL = NULL
SPECIFICATION Spec
INVARIANT
    FindsStored
