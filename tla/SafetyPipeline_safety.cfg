SPECIFICATION FairSpec
CONSTANTS
    JudgeRoles = {"critic", "judge"}
    Threshold = 70
    Pipelines = {p1, p2}
    Settings <- MCSettings
    MaxRuns = 1
INVARIANTS
    ValidMeansComplete
    ValidMeansUntouched
    AuditedAreCertified
    CertificatesHold
    JudgesIsolated
PROPERTIES
    RequestsAreSent
CHECK_DEADLOCK FALSE
