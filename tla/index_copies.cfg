SPECIFICATION FairSpec
CONSTANTS
    o1 = o1
    r1 = r1
    r2 = r2
    Key = {0, 1, 2}
    Object = {o1}
    Reader = {r1, r2}
    MaxSize = 3
INVARIANTS
    TypeOK
    LookupExact
    CopiesAgree
    RedoExcludesReaders
PROPERTIES
    ImplementsIndexMap
    WriteCompletes
