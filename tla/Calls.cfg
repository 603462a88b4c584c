SPECIFICATION FairSpec
CONSTANTS
    ann = ann
    bob = bob
    cat = cat
    None = None
    Clients <- MCClients
    Budgets <- MCBudgets
INVARIANTS RingHasTimer AcceptedNotMissed Consent NotAlone
PROPERTY RingTraced
CHECK_DEADLOCK FALSE
