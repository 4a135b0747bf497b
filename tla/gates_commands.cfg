\* Two processes run every gate; all but rewrites may fail, decisions may die.
SPECIFICATION Spec
CONSTANTS
    Procs = {p1, p2}
    Drafts = {"u"}
    Starts <- EarlyAndLate
    Size = 1
    Failing = {"draft", "repair", "mend", "review", "reconsider", "acceptance", "remove", "reanchor"}
    Dying = {"review", "reconsider", "acceptance"}
    MaxCommands = 5
    MaxCrashes = 1
SYMMETRY ProcSymmetry
INVARIANTS
    TypeOK
    UniqueOrdinals
    SupersededIsKept
    DecisionsHaveReceipts
    DecisionsMatchSubmission
    NextStepIsNotBlocked
    DraftsImportedOnce
PROPERTIES
    FailuresLeaveNoTrace
CHECK_DEADLOCK FALSE
