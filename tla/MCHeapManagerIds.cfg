SPECIFICATION Spec
CONSTANTS
    Mortal = {}
    MayStop = FALSE
    Clients <- MCTwo
    Pid <- MCTwoPid
    Tid <- MCAddressTid
    UlongSize = 65536
    IntSize = 256
    Capacity = 2
    Pages = {1, 2}
    Lengths = {1, 2}
INVARIANT
    CallIdsDistinct
