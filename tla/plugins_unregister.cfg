SPECIFICATION Spec
CONSTANTS
    p1 = p1
    p2 = p2
    own = own
    Plugins = {p1, p2}
    Names = {p1, p2, own}
    Requires <- MCRequires
    Suggests <- MCSuggests
    Order <- MCOrder
    c1 = c1
    c2 = c2
    Callers = {c1, c2}
    Configs <- MCConfigs
    MaxClientCalls = 1
    RunsAfterFailure = FALSE
    MaxInstances = 2
    MaxUses = 3
PROPERTY RemovedIsUninstalled
CHECK_DEADLOCK FALSE
