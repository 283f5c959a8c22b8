\* What the pool's readme says of threadpool_destroy.
CONSTANTS
    w1 = w1
    w2 = w2
    w3 = w3
    Workers <- Slots2
    MaxThreads = 2
    NumTasks = 3
SPECIFICATION Spec
PROPERTY DestroyWaitsForBusyThreads
