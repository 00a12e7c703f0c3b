SPECIFICATION Spec
CONSTANTS
    Ids = {d1}
    Requests = {r1, r2}
    MaxRecords = 1
    Legacy = {}
    FaultKinds = {"cancel", "ledger"}
    MaxFaults = 2
    MaxMints = 2
INVARIANTS InProgressIsTrue
