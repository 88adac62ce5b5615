SPECIFICATION Spec
CONSTANTS
    p1 = p1
    p2 = p2
    p3 = p3
    p4 = p4
    n1 = n1
    n2 = n2
    a = a
    b = b
    e = e
    u = u
    Phases <- MCPhases
    Namespaces = {n1, n2}
    Ids = {a, b, e, u}
    NamespaceList <- MCNamespaceList
    ObjectBundle <- MCObjectBundle
    Steps <- MCSteps
    UnknownIds = {u}
    EmptyTemplates = {e}
    ParallelismLimit = 2
    RetrySteps = 2
    MaxReplicas = 2
    MaxFaults = 1
INVARIANTS  BundleOrderRespected 
PROPERTY AllStepsExecuted
