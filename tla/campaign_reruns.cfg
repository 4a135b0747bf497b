\* Two runs one after the other and retries, with two crashes or failed writes.
SPECIFICATION FairSpec
CONSTANTS
    Runs = {r1, r2}
    Jobs = {a, b}
    Place <- TwoJobs
    Stage = "audit"
    Concurrency = 2
    Limit <- OneAndTwo
    Versions = {v1}
    Canonical <- NoAudit
    Overlap = FALSE
    MaxEdits = 0
    MaxAccidents = 2
    Unlimited = Unlimited
    NoFile = NoFile
    NoJob = NoJob
    Nobody = Nobody
    a = a
    b = b
    r1 = r1
    r2 = r2
    v1 = v1
    v2 = v2
INVARIANTS
    TypeOK
    RequestsHaveTheirSchema
    SpendingIsBounded
    AttemptsAreRecorded
    ReportsAreTrue
PROPERTIES
    StopIsObeyed
    BlockOutlivesOlderRequests
    EveryRunEnds
    EvidenceIsKept
CHECK_DEADLOCK FALSE
