SPECIFICATION Spec
CONSTANTS
    Capacity = 3
    AppCalls <- MCProgramInfoLog
    NumAttribs = 1
    NumConfigs = 2
    EglVersion <- MCVersion11
    LogLengths = {1, 3}
    Liberties = {}
PROPERTY
    ImplementsCommandStream
