SPECIFICATION Spec
CONSTANTS
    c1 = c1
    c2 = c2
    None = None
    Client = {c1, c2}
    MaxRequests = 2
    OutputLength = 3
SYMMETRY Symmetry
INVARIANTS
    TypeOK
    NoMissedMatch
    WaitersAlive
    OwnMessages
    OutputComplete
