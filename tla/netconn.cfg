\* A listener and two connections, some of them perhaps the client's; mailboxes
\* that fill, sockets refused.
SPECIFICATION Spec
CONSTANTS
    NConn = 3
    NEvent = 6
    MaxQueues = 3
    QSize = 3
    PoolSize = 3
    CloseListener = FALSE
    CloseFails = TRUE
    PcbFails = TRUE
    Client = TRUE
VIEW UpToEvents
INVARIANTS FreeListsSound OnlyFullLeaks HandlesExclusive PendingOnce NoAlienUse
CHECK_DEADLOCK FALSE
