\* Two waiters find the directory of a dead process stale.
CONSTANTS
    Procs = {p1, p2}
    Targets <- Paths1
    Free = Free
    Orphan = Orphan
    MaxCalls = 2
    OrphansAge = TRUE
    Crashes = TRUE
    Faults = FALSE
    Timeouts = FALSE
SPECIFICATION Spec
INVARIANT
    MutualExclusion
