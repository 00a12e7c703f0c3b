SPECIFICATION Spec
CONSTANTS
    Ids = {d1, d2}
    Requests = {r1, r2, r3}
    MaxRecords = 1
    Legacy = {d1, d2}
    FaultKinds = {"cancel", "ledger", "store", "restart", "network", "source", "user"}
    MaxFaults = 3
    MaxMints = 2
SYMMETRY MCSymmetry
INVARIANTS SoleOwner OneTransfer AnswersAgree AcceptedIsQueued
    ReconciledIsTrue
