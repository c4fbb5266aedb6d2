SPECIFICATION FairSpec
CONSTANTS
    t1 = t1
    t2 = t2
    k1 = k1
    None = None
    Thread = {1, 2, 3}
    FirstThread = {1}
    Task = {t1, t2}
    Key = {k1}
    MinThreads = 1
    MaxThreads = 2
    MaxStops = 1
INVARIANTS
    TypeOK
    ActiveRequestsExact
    OneProcessor
    DestroyWaits
PROPERTIES
    ImplementsSerialExecution
    AcceptedRuns
    DestroyReturns
