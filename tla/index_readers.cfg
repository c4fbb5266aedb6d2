SPECIFICATION Spec
CONSTANTS
    o1 = o1
    r1 = r1
    Key = {0, 1}
    Object = {o1}
    Reader = {r1}
    MaxSize = 2
INVARIANT
    ModifyExcludesReaders
