SPECIFICATION Spec
CONSTANTS
    Clients <- MCClients
    Regions <- MCRegions
    ServiceFirst = FALSE
    Releases = FALSE
    Faults = {}
    MaxThreads = 2
INVARIANTS
    ReadyBeforeUse
CHECK_DEADLOCK FALSE
