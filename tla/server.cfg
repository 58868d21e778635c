SPECIFICATION Spec
CONSTANTS
    Hdr = 2
    FullLen = 3
    LastIdx = 3
    LastLen = 2
    WordLen = 2
    Width = 16
    Client = FALSE
    File = {"fits", "fills", "over"}
    Frames <- MCFrames
    TailLen <- MCTail
    MaxIdx = 4
    Budgets <- ServerBudgets
INVARIANTS
    Aligned
    OneAnswer
PROPERTIES
    ImplementsTransfer
CHECK_DEADLOCK FALSE
