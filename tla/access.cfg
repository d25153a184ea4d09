SPECIFICATION FairSpec
CONSTANTS
    p1 = p1
    p2 = p2
    Peer <- MCPeer
    WaysOf <- MCWaysOf
    MAX_CONCURRENT_SESSIONS = 1
    MaxFailures = 1
INVARIANT AccessSafety
PROPERTIES PermitsReturn ClientAnswered
CHECK_DEADLOCK FALSE
