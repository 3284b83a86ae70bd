SPECIFICATION FairSpec
CONSTANTS
    Mortal = {1, 2}
    MayStop = TRUE
    Clients <- MCTwo
    Pid <- MCTwoPids
    Tid <- MCTwoTids
    UlongSize = 65536
    IntSize = 256
    Capacity = 2
    Pages = {1}
    Lengths = {1}
PROPERTY
    CallReturns
CHECK_DEADLOCK FALSE
