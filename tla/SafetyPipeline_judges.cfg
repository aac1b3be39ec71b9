SPECIFICATION Spec
CONSTANTS
    JudgeRoles = {"critic", "judge"}
    Threshold = 70
    Pipelines = {p1, p2}
    Settings <- MCSettings
    MaxRuns = 1
INVARIANTS
    JudgeRequestsApart
CHECK_DEADLOCK FALSE
