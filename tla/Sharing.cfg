\* Four processes, with and without a FIFO at the start; one may be killed.
\* Four copying processes; 9 bytes are two bytes each and three for the parent.
CONSTANTS
    p1 = p1
    p2 = p2
    c1 = c1
    c2 = c2
    Producers <- TwoProducers
    Consumers <- TwoConsumers
    N = 2
    Rounds = 2
    MaxCrashes = 1
    CopyN = 4
    Size = 9
SPECIFICATION MCSpec
INVARIANTS
    NothingOverwritten
    OneInside
    UndisturbedCopyExact
PROPERTIES
    ImplementsWarehouse
    ProcessesDone
    WrittenOnce
\* Processes end, or wait for ever for what a dead one held.
CHECK_DEADLOCK FALSE
