SPECIFICATION FairSpec
CONSTANTS
    Clients <- MCClients
    Regions <- MCRegions
    ServiceFirst = TRUE
    Releases = TRUE
    Faults = {"transport", "dispatch", "put", "stop"}
    MaxThreads = 3
INVARIANTS
    TypeOK
    ReadyBeforeUse
    OffsetsUnique
    OneServer
PROPERTIES
    ContextServed
    ImplementsContextService
CHECK_DEADLOCK FALSE
