\* One audit, from its reviews to its acceptance and once more with final
\* adjustments, with two edits; an edit, a failure or a death falls between any
\* two writes of a command.
SPECIFICATION Spec
CONSTANTS
    None = None
    plain = plain
    revised = revised
    leaking = leaking
    edge = edge
    Reviewers = {a, b, c}
    Words <- MCWords
    Leaks <- MCLeaks
    Baseline <- MCBaseline
    Corpora <- MCCorpora
    Readings <- MCReadings
    MaxCommands = 5
    MaxEdits = 2
    MaxFaults = 1
SYMMETRY Symmetry
INVARIANTS
    TypeOK
    AuthorityIsEarned
    CanBeClosed
CHECK_DEADLOCK FALSE
