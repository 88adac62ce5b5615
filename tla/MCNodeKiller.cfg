SPECIFICATION Spec
CONSTANTS
    n1 = n1
    n2 = n2
    n3 = n3
    n4 = n4
    Nodes <- AllNodes
    PrometheusNodes <- WithPrometheus
    Killers <- TwoStarts
    Limit <- Half
CHECK_DEADLOCK FALSE
INVARIANTS
    NodeFailsOnce
    
PROPERTIES
    ImplementsMonkey
