SPECIFICATION FairSpec
CONSTANTS
    Capacity = 3
    AppCalls <- MCGetConfigs
    NumAttribs = 1
    NumConfigs = 2
    EglVersion <- MCVersion14
    LogLengths = {1, 3}
    Liberties = {}
PROPERTY
    CallReturns
CHECK_DEADLOCK FALSE
