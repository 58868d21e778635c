SPECIFICATION FairSpec
CONSTANTS
    N = 3
    Event = {1, 2}
    MaxCount = 2
    MaxDly = 2
    WaitsOn <- WaitsOnOne
    IsrEvents = {1}
    Timed = {1, 2}
    Suspendable = {3}
    Mortal = {2, 3}
    None = 0
    Uses <- Apart
INVARIANTS
    TablesAgree
    RunsHighest
PROPERTIES
    ImplementsSemaphores
    HighestReturns
