SPECIFICATION Spec
CONSTANTS
    MaxSize <- MCMaxSize
    MaxChunks <- MCMaxChunks
INVARIANTS
    TypeOK
    InOrder
    NoLostWakeup
    Backpressure
    EndIsComplete
PROPERTIES
    ImplementsByteStream
CHECK_DEADLOCK FALSE
