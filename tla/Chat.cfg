SPECIFICATION Spec
CONSTANTS
    Sides <- MCSides
    Modes <- MCModes
    BUFFER_LENGTH = 3
    Base = 2
    Lengths <- MCLengths
    MaxLines <- MCMaxLines
INVARIANTS
    RecordsKept
    LeavesForReason
PROPERTIES
    EndsTogether
CHECK_DEADLOCK FALSE
