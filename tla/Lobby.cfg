SPECIFICATION MCSpec
CONSTANTS
    ann = ann
    bob = bob
    a1 = a1
    a2 = a2
    b1 = b1
    None = None
    Clients <- MCClients
    Conns <- MCAnnTwice
    IdOf <- MCIdOf
    NameOf <- MCNameOf
    MaxCalls <- MCMaxCalls
    MaxJoins = 2
INVARIANTS PendingHasTimer DisconnectedHasGrace OneStartPerCall
PROPERTY PendingResolved
CHECK_DEADLOCK FALSE
