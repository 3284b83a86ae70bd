SPECIFICATION Spec
CONSTANTS
    Threads <- MCThreads
    MaxContexts = 2
    NoContextToo = FALSE
    MayRefuse = FALSE
INVARIANTS
    WholeCommands
