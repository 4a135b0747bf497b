\* A segmented ingest and reviewers of observations share a ledger.
CONSTANTS
    s1 = s1
    s2 = s2
    s3 = s3
    a = a
    b = b
    c = c
    Sessions = {s1, s2, s3}
    Starts <- MixedStart
    MaxId = 4
    Anchors = {a, b, c}
    Statuses = {"unreviewed", "accepted"}
    Unreviewed = "unreviewed"
    Batches <- SmallBatches
    Pages <- SmallPages
    Correctable = {}
    NoFile = NoFile
    NoDraft = NoDraft
    Nobody = Nobody
SPECIFICATION Spec
PROPERTIES
    ReviewKeepsRecords
