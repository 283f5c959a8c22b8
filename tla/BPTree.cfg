CONSTANTS
    Keys <- MCKeys
    MAX_KEY = 5
    Tags = {1}
    Loads <- MCLoads
    MaxOps = 3
SPECIFICATION Spec
INVARIANT QueryCorrect
INVARIANT TreeSound
CHECK_DEADLOCK FALSE
