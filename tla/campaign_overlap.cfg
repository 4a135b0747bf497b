SPECIFICATION Spec
CONSTANTS
    Runs = {r1, r2}
    Jobs = {a}
    Place <- OneJob
    Stage = "audit"
    Concurrency = 1
    Limit <- OneAndTwo
    Versions = {v1}
    Canonical <- NoAudit
    Overlap = TRUE
    MaxEdits = 0
    MaxAccidents = 0
    Unlimited = Unlimited
    NoFile = NoFile
    NoJob = NoJob
    Nobody = Nobody
    a = a
    b = b
    r1 = r1
    r2 = r2
    v1 = v1
    v2 = v2
PROPERTIES
    EvidenceIsKept
CHECK_DEADLOCK FALSE
