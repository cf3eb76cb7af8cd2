\* Three requests, two of one peer and one of another, at a pool of one thread.
SPECIFICATION FairSpec
CONSTANTS
    c1 = c1
    c2 = c2
    c3 = c3
    p = p
    q = q
    Callers <- MCCallers
    Peers = {p, q}
    Peer <- MCPeer
    MaxRequests = 1
    WindowSeconds = 2
    Permits = 1
    MaxCalls = 2
    MaxTime = 3
CHECK_DEADLOCK FALSE
INVARIANTS
    PeerRate
    PermitMeansThread
PROPERTIES
    EveryRequestAnswered
