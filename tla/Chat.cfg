SPECIFICATION FairSpec
CONSTANTS
    None = None
    People <- MCPeople
    Texts = {"hi", "yo"}
    Langs = {"EN", "DE"}
    Speaks <- MCSpeaks
    MaxHistory = 2
    Budgets <- MCBudgets
INVARIANTS InOrder EchoMeansShown OwnStaysOwn BadgeRight HistoryNewest
PROPERTIES TypingEnds
CHECK_DEADLOCK FALSE
