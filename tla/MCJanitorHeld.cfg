SPECIFICATION FairSpec
CONSTANTS
    Clients <- MCClients
    Regions <- MCRegions
    ServiceFirst = TRUE
    Releases = TRUE
    Faults = {}
    MaxThreads = 3
PROPERTY
    CallsReturn
CHECK_DEADLOCK FALSE
