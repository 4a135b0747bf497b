\* Waits never time out; callers die and their directories grow stale.
CONSTANTS
    Procs = {p1, p2}
    Targets <- Paths2
    Free = Free
    Orphan = Orphan
    MaxCalls = 2
    OrphansAge = TRUE
    Crashes = TRUE
    Faults = TRUE
    Timeouts = FALSE
SPECIFICATION FairSpec
PROPERTIES
    EveryCallReturns
