SPECIFICATION Spec
CONSTANTS
    t1 = t1
    t2 = t2
    c1 = c1
    c2 = c2
    d1 = d1
    d2 = d2
    v1 = v1
    v2 = v2
    Threads <- MCThreads
    Contexts <- MCContexts
    Displays <- MCDisplays
    Values <- MCValues
    Tracker = "client"
    Faults = {"malloc", "key"}
    GrowthAt = 3
    MaxPuts = 2
SYMMETRY Symmetry
INVARIANT FailureIsNull
