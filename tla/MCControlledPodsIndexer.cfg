SPECIFICATION Spec
CONSTANTS
    Pods = {p1, p2}
    ReplicaSets = {r1, r2}
    Deployments = {d1}
    NoOwner = NoOwner
    Absent = Absent
    MaxChanges = 1
    MaxRelists = 1
SYMMETRY Symmetry
INVARIANTS PendingHasReason PodsStayTraceable LookupExact NothingLeaks
CHECK_DEADLOCK FALSE
