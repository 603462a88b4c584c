SPECIFICATION MCSpec
CONSTANTS
    ann = ann
    bob = bob
    a1 = a1
    a2 = a2
    b1 = b1
    page = page
    uuid = uuid
    abc = abc
    None = None
    Clients <- MCClients
    Conns <- MCAnnTwice
    IdOf <- MCIdOf
    NameOf <- MCNameOf
    RoomIds <- MCPageCall
    CodeOf <- MCCodeOf
    CallRooms <- MCCalls
    MaxObjs = 3
    MaxJoins = 1
INVARIANTS LostHasGrace Greeted ByCodeSound
PROPERTY RoomsDestroyed
CHECK_DEADLOCK FALSE
