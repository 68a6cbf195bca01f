SPECIFICATION Spec
CONSTANTS
    MaxChunks <- MCMaxChunks
    Window <- MCWindow
INVARIANTS
    TypeOK
    PreambleFirst
    OverMeansNoTarget
    FirstFinIsComplete
    DoneMeansBothClosed
PROPERTY EndReleasesBoth
CHECK_DEADLOCK FALSE
