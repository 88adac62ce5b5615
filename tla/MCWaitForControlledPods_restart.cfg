SPECIFICATION Spec
CONSTANTS
    k1 = k1
    k2 = k2
    Keys <- MCKeys
    Specs = {"s1", "s2"}
    InitialSpec = "s1"
    Gone = "gone"
    MaxVersion = 2
    MaxStarts = 2
    MaxRelists = 0
    MaxFaults = 0
INVARIANT GatherIsSound

