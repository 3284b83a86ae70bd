SPECIFICATION FairSpec
CONSTANTS
    Capacity = 3
    AppCalls <- MCShaderInfoLog
    NumAttribs = 1
    NumConfigs = 2
    EglVersion <- MCVersion14
    LogLengths = {0}
    Liberties = {}
PROPERTY
    CallReturns
CHECK_DEADLOCK FALSE
