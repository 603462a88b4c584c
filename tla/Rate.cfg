SPECIFICATION LimiterSpec
CONSTANTS
    ann = ann
    None = None
    Keys <- MCKeys
    Steps <- MCSteps
    MaxTime = 7920
    MaxStart = 800
INVARIANT RateBound
PROPERTY ImplementsIdeal
CHECK_DEADLOCK FALSE
