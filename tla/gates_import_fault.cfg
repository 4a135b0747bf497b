\* A rewrite import fails after it has written the ledger.
SPECIFICATION Spec
CONSTANTS
    Procs = {p1, p2}
    Drafts = {"u"}
    Starts <- OneBlock
    Size = 1
    Failing = {"rewrite"}
    Dying = {}
    MaxCommands = 2
    MaxCrashes = 0
INVARIANT
    SupersededIsKept
CHECK_DEADLOCK FALSE
