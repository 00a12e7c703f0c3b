SPECIFICATION Spec
CONSTANTS
    Files = {a, b}
    Uploads = {u}
    Owner <- MCOwner
    None = None
    Sizes = {1, 2}
    Capacity = 4
    MinFree = 1
    MaxPerPeer = 2
    MaxBytesPerPeer = 3
    MaxActive = 2
    MaxBytes = 4
    MaxForeign = 1
    MaxRestarts = 1
SYMMETRY MCSymmetry
INVARIANT EveryWriterCovered
CHECK_DEADLOCK FALSE
