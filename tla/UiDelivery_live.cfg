SPECIFICATION FairSpec
CONSTANTS
    Ids = {d1}
    Requests = {r1, r2}
    MaxRecords = 1
    Legacy = {}
    FaultKinds = {"cancel", "restart", "network"}
    MaxFaults = 3
    MaxMints = 2
PROPERTIES BoundIsSent
