SPECIFICATION FairSpec
CONSTANTS
    i1 = i1
    i2 = i2
    p1 = p1
    p2 = p2
    p3 = p3
    NoPassword = NoPassword
    NoCluster = NoCluster
    MaxWorkers = 2
    Images <- MCImages
    Passwords <- MCPasswords
    Scenarios <- MCScenarios
INVARIANTS
    PasswordsAgree
PROPERTIES
    Settles
    StatusFollowsPods
    NothingOutlivesCluster
CHECK_DEADLOCK FALSE
