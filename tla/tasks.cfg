SPECIFICATION FairSpec
CONSTANTS
    NConn = 3
    MaxCmds = 3
    MaxPeers = 2
    Uses <- Ordinary
INVARIANTS
    SignalsMatch
    NoUseAfterFree
    NoSocketLost
    ConnectIsHonest
PROPERTIES
    CallsReturn
CHECK_DEADLOCK FALSE
