SPECIFICATION ConnFairSpec
CONSTANTS
    timer = timer
    handler = handler
    Senders <- MCSenders
    BufSize = 2
    MaxSends = 4
INVARIANT NoSilentLoss
PROPERTY Released
CHECK_DEADLOCK FALSE
