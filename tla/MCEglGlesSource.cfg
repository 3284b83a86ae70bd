SPECIFICATION Spec
CONSTANTS
    Capacity = 3
    AppCalls <- MCShaderSource
    NumAttribs = 1
    NumConfigs = 2
    EglVersion <- MCVersion14
    LogLengths = {1, 3}
    Liberties = {}
PROPERTY
    ImplementsCommandStream
