SPECIFICATION Spec
CONSTANTS
    ann = ann
    bob = bob
    a1 = a1
    a2 = a2
    b1 = b1
    None = None
    Clients <- MCClients
    Conns <- MCOneEach
    IdOf <- MCIdOf
    NameOf <- MCNameOf
    MaxCalls <- MCMaxCalls
    MaxJoins = 1
INVARIANT HubNeverHangs
CHECK_DEADLOCK FALSE
