SPECIFICATION Spec
CONSTANTS
    None = None
    Budgets <- MCBudgets
INVARIANTS TypeOK Joined NoCallAlone Agreed CandidatesKept NoneRefused
CHECK_DEADLOCK FALSE
