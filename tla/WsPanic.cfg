SPECIFICATION ConnSpec
CONSTANTS
    timer = timer
    handler = handler
    Senders <- MCSenders
    BufSize = 2
    MaxSends = 4
INVARIANT NoPanic
CHECK_DEADLOCK FALSE
