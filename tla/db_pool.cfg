SPECIFICATION FairSpec
CONSTANTS
    Thread = {t1, t2}
    t1 = t1
    t2 = t2
    Maint = Maint
    Addresses = 3
    Sessions = 3
    BasePoolSize = 1
    MaxPoolSize = 2
    MaxAcquires = 3
    MaxFailures = 2
    MaxRounds = 2
INVARIANTS TypeOK SessionExclusive SessionsBounded NoLostPlace
PROPERTIES AcquireReturns
CHECK_DEADLOCK FALSE
