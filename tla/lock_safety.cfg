\* Everything may fail or die, but no lock directory reaches the stale age.
CONSTANTS
    Procs = {p1, p2, p3}
    Targets <- Paths2
    Free = Free
    Orphan = Orphan
    MaxCalls = 2
    OrphansAge = FALSE
    Crashes = TRUE
    Faults = TRUE
    Timeouts = TRUE
SYMMETRY ProcSymmetry
SPECIFICATION Spec
INVARIANTS
    TypeOK
    MutualExclusion
    OnlyFaultsLeak
    WaitsAscend
PROPERTIES
    ImplementsExclusiveSections
