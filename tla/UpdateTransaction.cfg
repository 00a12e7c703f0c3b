SPECIFICATION FairSpec
CONSTANTS
    MaxVersion = 3
    MaxTxns = 2
    MaxFaults = 2
    MaxCrashes = 2
INVARIANTS BundleKept HealthIsFinal SettledClean
PROPERTIES OnlyForward Recovers
CHECK_DEADLOCK FALSE
