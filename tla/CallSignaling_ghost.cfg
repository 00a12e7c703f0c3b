SPECIFICATION LiveSpec
CONSTANTS
    Budgets <- MCBudgets
CHECK_DEADLOCK FALSE
INVARIANT NoGhostRing
