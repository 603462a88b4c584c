SPECIFICATION FairSpec
CONSTANTS
    MaxAttempts = 5
    MaxDelay = 8
INVARIANTS NoTimerUnlessWanted NeverStranded ConnectedIsOpen
PROPERTY Reconnects
CHECK_DEADLOCK FALSE
