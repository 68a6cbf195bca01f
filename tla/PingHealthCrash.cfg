SPECIFICATION Spec
CONSTANTS
    x = x
    y = y
    Addrs <- MCAddrs
    Interval <- MCInterval
    SecondTicks <- MCSecondTicks
    Epoch <- MCEpoch
    MaxTime <- MCMaxTime
INVARIANT ReadyzAnswers
SYMMETRY MCSymmetry
CHECK_DEADLOCK FALSE
