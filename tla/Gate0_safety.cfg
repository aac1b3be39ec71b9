SPECIFICATION RunSpec
CONSTANTS
    JudgeRoles = {"critic"}
    Threshold = 70
    Roles <- MCRoles
    Tails = 2
    NRequests = 3
    Seed = 0
    NoSalt = NoSalt
    Null = Null
    MinRequests = 2
    MaxControlHits = 40
    MaxLocalHits = 30
    KVUse <- MCKVUse
    Weights = 60
    Slacks = {0}
    Exposures = {{"usage", "num_gpu_blocks", "block_size", "bytes_per_token"}}
    MaxPolls = 1
    MaxRuns = 2
    MaxFaults = 1
INVARIANTS
    NothingLeftRunning
    ArmsKeepApart
    DecidedOnSoundEvidence
    CutsFollowTruth
PROPERTIES
    RunsEnd
CHECK_DEADLOCK FALSE
