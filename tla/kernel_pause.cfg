SPECIFICATION Spec
CONSTANTS
    N = 3
    Event = {1, 2}
    MaxCount = 1
    MaxDly = 1
    WaitsOn <- WaitsOnOne
    IsrEvents = {1}
    Timed = {1, 2}
    Suspendable = {3}
    Mortal = {2, 3}
    None = 0
    Uses <- Both
INVARIANTS
    SuspendedRests
CHECK_DEADLOCK FALSE
