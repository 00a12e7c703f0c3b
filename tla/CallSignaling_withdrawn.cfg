SPECIFICATION LiveSpec
CONSTANTS
    Budgets <- MCLongBudgets
CHECK_DEADLOCK FALSE
INVARIANT RecordingAlwaysAgreed
