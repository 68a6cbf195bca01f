SPECIFICATION Spec
CONSTANTS
    MaxSize <- MCMaxSize
    MaxChunks <- MCMaxChunks
    MaxSends <- MCMaxSends
    HighWater <- MCHighWater
INVARIANT EndIsComplete
CHECK_DEADLOCK FALSE
