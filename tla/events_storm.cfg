SPECIFICATION Spec
CONSTANTS
    k1 = k1
    NoKey = NoKey
    QueueKey = {k1}
    MgmtKey = k1
    PoolSize = 1
    MaxEvents = 1
    Duration = 2
INVARIANT
    StormAfterDuration
