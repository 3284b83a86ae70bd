SPECIFICATION Spec
CONSTANTS
    Capacity = 3
    AppCalls <- MCGaps
    NumAttribs = 2
    NumConfigs = 2
    EglVersion <- MCVersion14
    LogLengths = {1, 3}
    Liberties = {"gaps"}
PROPERTY
    ImplementsCommandStream
