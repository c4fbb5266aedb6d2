SPECIFICATION Spec
CONSTANTS
    t1 = t1
    t2 = t2
    k1 = k1
    o1 = o1
    o2 = o2
    NoKey = NoKey
    NoThread = NoThread
    Thread = {t1, t2}
    Object = {o1}
    Key = {k1}
    Severity = {1}
    MaxAlarms = 2
    HelpdeskResults = {"ignored"}
    RcaScripts = {TRUE, FALSE}
    Timeouts = {FALSE}
    Parents = "earlier"
    Cascades = {TRUE, FALSE}
    Deletable = {}
    Managed = {}
    Polled = {}
    ModuleStatus = {}
    IgnoreHelpdeskState = FALSE
    ResolveExpiration = FALSE
SYMMETRY Symmetry
INVARIANTS
    ParentKnowsSubordinate
    RcaNotForgotten
