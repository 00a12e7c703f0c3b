SPECIFICATION RegistrySpec
CONSTANTS
    CallIds = {c1, c2, c3}
    RemotePeers = {p1, p2}
    NoPeer = NoPeer
    MaxCalls = 3
    MaxCallsPerPeer = 2
    PreInviteMax = 2
    PreInvitePerPeer = 1
SYMMETRY MCSymmetry
INVARIANTS RegistryBounded OneDialledCall
CHECK_DEADLOCK FALSE
