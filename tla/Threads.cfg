\* A ring of three slots; MaxTotal exceeds the number of consumers; the
\* Python programs with 2 and 3 additions, and five threads on a queue.
CONSTANTS
    Producers = {p1, p2, p3}
    Consumers = {c1, c2}
    CondProducers = {p1, p2}
    CondConsumers = {c1, c2, c3}
    N = 3
    Ids = 5
    MaxTotal = 4
    NoOwner = NoOwner
    Programs = {"global_alter", "lock_my", "lock_mutex", "deadlock", "deadlock_timeout", "synchronize", "producer_consumer"}
    Typing = 2
    Watering = 3
    Low = 5
    High = 6
    GetSize = 2
    PutSize = 3
    Cooks = 2
    Eaters = 3
    Initial = 8
SPECIFICATION MCSpec
INVARIANTS
    TokensConserved
    NoLostWakeup
    UpdatesKept
    StuckOnlyInEmbrace
PROPERTIES
    ImplementsWarehouse
    ProductsConsumed
    WaitersServed
    EndsOrGoesRound
