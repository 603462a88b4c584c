SPECIFICATION MCSpec
CONSTANTS
    Tabs = {t1, t2}
    Codes = {red, green, blue}
    CallCodes = {red}
    None = None
    MAX_ENTRIES = 2
    MaxMsgs = 1
SYMMETRY Symmetry
INVARIANTS CountRight NoOrphans 
CHECK_DEADLOCK FALSE
