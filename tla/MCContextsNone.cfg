SPECIFICATION Spec
CONSTANTS
    Threads <- MCOneThread
    MaxContexts = 2
    NoContextToo = TRUE
    MayRefuse = FALSE
INVARIANTS
    MarkedDespiteFailure
