SPECIFICATION FairSpec
CONSTANTS
    Alarm = {a1}
    a1 = a1
    Object = {o1, o2}
    o1 = o1
    o2 = o2
    None = None
    MaxChanges = 3
    MaxFailures = 2
    MaxCrashes = 1
INVARIANTS TypeOK 
PROPERTIES ShutdownEnds RowNeverGoesBack 
