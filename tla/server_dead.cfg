SPECIFICATION Spec
CONSTANTS
    NConn = 3
    MaxCmds = 1
    MaxPeers = 1
    Uses <- ServerOnly
INVARIANTS
    ServerAlive
CHECK_DEADLOCK FALSE
