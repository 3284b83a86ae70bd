SPECIFICATION FairSpec
CONSTANTS
    Threads <- MCThreads
    MaxContexts = 2
    NoContextToo = TRUE
    MayRefuse = TRUE
INVARIANTS
    TypeOK
    InitOnce
    ThreadTransport
    MarkedIsCurrent
    DrawsInCurrent
    WholeBeyondDefault
PROPERTY
    Initialised
