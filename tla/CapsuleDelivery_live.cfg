SPECIFICATION FairSpec
CONSTANTS
    c1 = c1
    c2 = c2
    p1 = p1
    p2 = p2
    Capsules = {c1, c2}
    Channels = {k1, k2}
    Peers = {p1, p2}
    NoCapsule = NoCapsule
    Owner <- MCTwoPeers
    NChunks <- MCNChunks
    Size <- MCSize
    InboundMax = 2
    PerPeerMax = 1
    BytesMax = 2
    BytesPerPeerMax = 2
    ReplayMax = 1
    MaxFaults = 1
    RollbackCanFail = FALSE

INVARIANTS BytesBounded
PROPERTIES EventuallyDelivered
CHECK_DEADLOCK FALSE
