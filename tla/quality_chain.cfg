\* Two processes sample, accept, supersede, reject and refresh one audit.
SPECIFICATION Spec
CONSTANTS
    Procs = {p1, p2}
    Blocks = {b1}
    Words = {v, w}
    Days = {d1, d2}
    MaxCommands = 3
    MaxEdits = 1
    None = None
SYMMETRY Symmetry
INVARIANTS
    TypeOK
    OneVerdict
    RejectedHaveEvidence
PROPERTIES
    ImplementsAuditChain
    FailuresLeaveNoTrace
CHECK_DEADLOCK FALSE
