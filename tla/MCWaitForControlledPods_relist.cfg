SPECIFICATION Spec
CONSTANTS
    k1 = k1
    k2 = k2
    Keys <- MCKeys
    Specs = {"s1", "s2"}
    InitialSpec = "s1"
    Gone = "gone"
    MaxVersion = 3
    MaxStarts = 1
    MaxRelists = 1
    MaxFaults = 0
INVARIANT GatherIsSound

