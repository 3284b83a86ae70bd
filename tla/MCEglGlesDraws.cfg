SPECIFICATION FairSpec
CONSTANTS
    Capacity = 3
    AppCalls <- MCDraws
    NumAttribs = 2
    NumConfigs = 2
    EglVersion <- MCVersion11
    LogLengths = {1, 3}
    Liberties = {}
INVARIANTS
    DrawArraysFreed
PROPERTIES
    ImplementsCommandStream
    CallReturns
