SPECIFICATION FairSpec
CONSTANTS
    Hdr = 2
    FullLen = 3
    LastIdx = 3
    LastLen = 2
    WordLen = 2
    Width = 16
    Client = TRUE
    File = {"fits", "over"}
    Frames <- MCFrames
    TailLen <- MCTail
    MaxIdx = 4
    Budgets <- ClientBudgets
INVARIANTS
    AckedIsStored
    SectorHeld
PROPERTIES
    NoOverprogramming
    NeverStuck
CHECK_DEADLOCK FALSE
