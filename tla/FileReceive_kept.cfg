SPECIFICATION LiveSpec
CONSTANTS
    d1 = d1
    d2 = d2
    Deliveries = {d1, d2}
    Chunks = 2
    None = None
    MaxWriters = 5
    Scenarios <- MCScenarios
CHECK_DEADLOCK FALSE
INVARIANT CompletedLetsGo
