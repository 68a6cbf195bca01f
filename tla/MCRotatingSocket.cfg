SPECIFICATION Spec
CONSTANTS
    MaxSize <- MCMaxSize
    MaxChunks <- MCMaxChunks
    MaxSends <- MCMaxSends
    HighWater <- MCHighWater
INVARIANTS
    TypeOK
    FinIsComplete
    PauseAgrees
    DroppedSocketIsEnded
PROPERTIES
    ImplementsProxiedStream
CHECK_DEADLOCK FALSE
