SPECIFICATION Spec
CONSTANTS
    Clients <- MCClients
    Regions <- MCRegions
    ServiceFirst = TRUE
    Releases = TRUE
    Faults = {}
    MaxThreads = 3
PROPERTY
    OwnCommands
CHECK_DEADLOCK FALSE
