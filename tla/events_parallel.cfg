SPECIFICATION FairSpec
CONSTANTS
    k1 = k1
    k2 = k2
    NoKey = NoKey
    QueueKey = {k1, k2}
    MgmtKey = k1
    PoolSize = 2
    MaxEvents = 3
    Duration = 1
INVARIANTS
    TypeOK
    UsageCountsInFlight
    BindingsCounted
PROPERTIES
    ImplementsEventOrder
    ShutdownDrains
