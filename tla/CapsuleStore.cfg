SPECIFICATION StoreSpec
CONSTANTS
    o1 = o1
    o2 = o2
    in1 = in1
    Ids = {i1, i2}
    Outbound = {o1, o2}
    Inbound = {in1}
    None = None
    MaxAttempts = 1
    MaxStoreFaults = 3
SYMMETRY MCSymmetry
INVARIANTS ReadyIsReadable KeepsPromises StagingHasOwner
CHECK_DEADLOCK FALSE
