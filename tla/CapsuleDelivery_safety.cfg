SPECIFICATION Spec
CONSTANTS
    c1 = c1
    c2 = c2
    p1 = p1
    p2 = p2
    Capsules = {c1, c2}
    Channels = {k1, k2}
    Peers = {p1}
    NoCapsule = NoCapsule
    Owner <- MCOnePeer
    NChunks <- MCOneChunk
    Size <- MCSize
    InboundMax = 2
    PerPeerMax = 1
    BytesMax = 3
    BytesPerPeerMax = 2
    ReplayMax = 1
    MaxFaults = 2
    RollbackCanFail = TRUE
SYMMETRY MCSymmetry
INVARIANTS DeliveredIsDurable AnnouncedOnceAndTrue SlotsBounded
    NoStrandedAssembler
PROPERTIES ImplementsContract
CHECK_DEADLOCK FALSE
