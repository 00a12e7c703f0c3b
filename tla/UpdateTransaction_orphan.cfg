SPECIFICATION FairSpec
CONSTANTS
    MaxVersion = 2
    MaxTxns = 1
    MaxFaults = 0
    MaxCrashes = 1
PROPERTY ExpiryRestores
CHECK_DEADLOCK FALSE
