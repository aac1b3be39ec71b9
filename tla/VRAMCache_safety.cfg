SPECIFICATION FairSpec
CONSTANTS
    Keys = {k1, k2, k3}
    TokenCounts = {1, 3}
    \* One reading in each band
    Pressures = {0, 70, 85, 92, 96}
    IdleShort = 0
    IdleLong = 1
    ShareNum = 2
    ShareDen = 3
    MaxAccesses = 2
    MaxTokenBudget = 100
INVARIANTS
    TokenAccounting
PROPERTIES
    EvictionJustified
    ImplementsContract
    EmergencyEnds
