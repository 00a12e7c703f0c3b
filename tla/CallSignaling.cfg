SPECIFICATION LiveSpec
CONSTANTS
    Budgets <- MCBudgets
INVARIANTS NoSilentRecording SidesAgree
PROPERTIES CallsEnd
CHECK_DEADLOCK FALSE
