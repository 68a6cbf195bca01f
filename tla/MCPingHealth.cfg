SPECIFICATION Spec
CONSTANTS
    x = x
    y = y
    Addrs <- MCAddrs
    Interval <- MCInterval
    SecondTicks <- MCSecondTicks
    Epoch <- MCEpoch
    MaxTime <- MCMaxTime
INVARIANT
    TypeOK
PROPERTIES
    OkMeansFresh
    UnavailableMeansSilent
SYMMETRY MCSymmetry
CHECK_DEADLOCK FALSE
