SPECIFICATION Spec
CONSTANTS
    t1 = t1
    t2 = t2
    k1 = k1
    o1 = o1
    o2 = o2
    NoKey = NoKey
    NoThread = NoThread
    Thread = {t1, t2}
    Object = {o1, o2}
    Key = {k1}
    Severity = {1, 4}
    MaxAlarms = 2
    HelpdeskResults = {"ignored", "open"}
    RcaScripts = {FALSE}
    Timeouts = {FALSE}
    Parents = "none"
    Cascades = {FALSE}
    Deletable = {o2}
    Managed = {}
    Polled = {}
    ModuleStatus = {}
    IgnoreHelpdeskState = FALSE
    ResolveExpiration = TRUE
SYMMETRY Symmetry
INVARIANTS
    TypeOK
    MostCriticalIsMax
    KeyIndexSound
    NoGhostSeverity
