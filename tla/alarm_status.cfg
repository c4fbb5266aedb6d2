SPECIFICATION FairSpec
CONSTANTS
    t1 = t1
    t2 = t2
    k1 = k1
    o1 = o1
    o2 = o2
    NoKey = NoKey
    NoThread = NoThread
    Thread = {t1, t2}
    Object = {o1}
    Key = {k1}
    Severity = {1, 4}
    MaxAlarms = 1
    HelpdeskResults = {"ignored"}
    RcaScripts = {FALSE}
    Timeouts = {TRUE, FALSE}
    Parents = "none"
    Cascades = {FALSE}
    Deletable = {}
    Managed = {o1}
    Polled = {o1}
    ModuleStatus = {0}
    IgnoreHelpdeskState = FALSE
    ResolveExpiration = TRUE

PROPERTY
    StatusConverges
