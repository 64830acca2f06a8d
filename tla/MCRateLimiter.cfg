SPECIFICATION LimiterSpec
CONSTANTS
    Key = {k1}
    Check = {r1, r2, r3}
    maxRequests = 2
    windowMs = 2
    LastTick = 4
SYMMETRY MCSymmetry
INVARIANTS
    DeniedForCause
    LimitHoldsAgain
    WaitIsEnough
CHECK_DEADLOCK FALSE
