SPECIFICATION Spec
CONSTANTS
    Capacity = 3
    AppCalls <- MCElements
    NumAttribs = 2
    NumConfigs = 2
    EglVersion <- MCVersion11
    LogLengths = {1, 3}
    Liberties = {}
INVARIANTS
    ArraysFreed
