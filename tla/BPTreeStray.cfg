CONSTANTS
    Keys <- MCKeys
    MAX_KEY = 5
    Tags = {1}
    Loads <- MCLoads
    MaxOps = 1
SPECIFICATION Spec
INVARIANT KeysBelowPointers
CHECK_DEADLOCK FALSE
