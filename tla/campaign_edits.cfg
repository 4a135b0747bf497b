SPECIFICATION Spec
CONSTANTS
    Runs = {r1, r2}
    Jobs = {a}
    Place <- OneJob
    Stage = "audit"
    Concurrency = 1
    Limit <- NoneAndTwo
    Versions = {v1, v2}
    Canonical <- AuditOfFirst
    Overlap = TRUE
    MaxEdits = 2
    MaxAccidents = 1
    Unlimited = Unlimited
    NoFile = NoFile
    NoJob = NoJob
    Nobody = Nobody
    a = a
    b = b
    r1 = r1
    r2 = r2
    v1 = v1
    v2 = v2
INVARIANTS
    AuditsMatchTheirInput
    NeverStuck
CHECK_DEADLOCK FALSE
