\* Rings of three and two, so that both fill and wrap; a mailbox and a pool that
\* run out.
SPECIFICATION FairSpec
CONSTANTS
    RxN = 3
    TxN = 2
    MboxSize = 2
    PoolSize = 2
    MaxLate = 1
    MaxFrames = 5
    MaxSent = 3
INVARIANTS FramesInOrder NoLostWakeup OnlyLateLeft
PROPERTIES InterruptEnds
CHECK_DEADLOCK FALSE
