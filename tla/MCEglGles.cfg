SPECIFICATION Spec
CONSTANTS
    Capacity = 3
    AppCalls <- MCAll
    NumAttribs = 1
    NumConfigs = 2
    EglVersion <- MCVersion11
    LogLengths = {1, 3}
    Liberties = {}
INVARIANTS
    TypeOK
    Framed
    ResultIsGls
PROPERTY
    ImplementsCommandStream
