SPECIFICATION Spec
CONSTANTS
    Cams = {front, back}
    NoCam = NoCam
    MaxAsked = 3
    MaxVisits = 2
    MaxQueue = 2
SYMMETRY Symmetry
INVARIANTS Released MuteHonest PeerTold SelfIsSent
CHECK_DEADLOCK FALSE
