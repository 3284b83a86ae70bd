SPECIFICATION FairSpec
CONSTANTS
    Size = 3
    WriteLengths <- MCWriteLengths
    ReadLengths <- MCReadLengths
    PeekLengths <- MCPeekLengths
    MaxBytes = 7
    SizeValues = 65536
INVARIANTS
    TypeOK
    StreamIntact
    NoDataRace
    CopyInWindow
    NoVrbError
    NoLostWakeup
PROPERTIES
    ImplementsByteStream
    ReaderServed
    WriterServed
