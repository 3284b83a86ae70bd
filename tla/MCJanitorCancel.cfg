SPECIFICATION Spec
CONSTANTS
    Clients <- MCClients
    Regions <- MCRegions
    ServiceFirst = TRUE
    Releases = TRUE
    Faults = {}
    MaxThreads = 3
INVARIANTS
    UsedOnce
CHECK_DEADLOCK FALSE
