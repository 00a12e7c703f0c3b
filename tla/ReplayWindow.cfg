SPECIFICATION WindowSpec
CONSTANTS
    WindowSize = 3
    MaxAge = 1
    MaxSkew = 1
    Seqs <- MCSeqs
    Times <- MCTimes
INVARIANTS WindowExact NoFalseReject
PROPERTY NoReplay
