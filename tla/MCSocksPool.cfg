SPECIFICATION Spec
CONSTANTS
    live = live
    dead = dead
    bad = bad
    blank = blank
    s1 = s1
    s2 = s2
    Hosts <- MCHosts
    Dead <- MCDead
    Malformed = bad
    Blank = blank
    Streams <- MCStreams
    MaxTokens <- MCMaxTokens
    MaxPicks <- MCMaxPicks
INVARIANTS
    TypeOK
    RotationCovers
CHECK_DEADLOCK FALSE
