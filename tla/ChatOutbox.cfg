SPECIFICATION FairSpec
CONSTANTS
    MaxMsgs = 3
    MaxPending = 2
    FlushBatch = 2
    Actions = {"edit", "delete", "add"}
    Budgets <- MCBudgets
INVARIANTS AcceptedIsKept ViewsAgree
PROPERTIES OutboxDrains
