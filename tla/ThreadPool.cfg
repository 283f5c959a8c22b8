\* 3 slots, 2 threads at most, 4 tasks.
CONSTANTS
    w1 = w1
    w2 = w2
    w3 = w3
    Workers <- Slots3
    MaxThreads = 2
    NumTasks = 4
SPECIFICATION Spec
INVARIANTS
    CountersMatch
    NoStrandedTask
    ListIntact
PROPERTIES
    FifoOnce
    TasksRun
    DestroyReturns
