SPECIFICATION Spec
CONSTANTS
    Threads <- MCOneThread
    MaxContexts = 2
    NoContextToo = FALSE
    MayRefuse = TRUE
INVARIANTS
    DrawsWhenRefused
