SPECIFICATION Spec
CONSTANTS
    Mortal = {2}
    MayStop = FALSE
    Clients <- MCClients
    Pid <- MCPid
    Tid <- MCTid
    UlongSize = 65536
    IntSize = 256
    Capacity = 2
    Pages = {1, 2}
    Lengths = {1, 2}
INVARIANTS
    TypeOK
    WellFramed
    ReplyIsMine
    NoDoubleAlloc
PROPERTY
    ImplementsAllocator
CHECK_DEADLOCK FALSE
