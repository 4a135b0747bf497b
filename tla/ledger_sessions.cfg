\* Extractors, adjudicators, whole-page ingests or reviewers share a ledger.
CONSTANTS
    s1 = s1
    s2 = s2
    s3 = s3
    a = a
    b = b
    c = c
    Sessions = {s1, s2, s3}
    Starts <- CooperatingStarts
    MaxId = 3
    Anchors = {a, b, c}
    Statuses = {"unreviewed", "accepted"}
    Unreviewed = "unreviewed"
    Batches <- SmallBatches
    Pages <- SmallPages
    Correctable = {a}
    NoFile = NoFile
    NoDraft = NoDraft
    Nobody = Nobody
SPECIFICATION Spec
INVARIANTS
    TypeOK
    UniqueIds
    CandidatesJudgedOnce
PROPERTIES
    RecordsSurvive
    ReviewsKeepIds
    WritesAreSourced
    ImplementsAtomicLedger
