SPECIFICATION FairSpec
CONSTANTS
    a1 = a1
    a2 = a2
    h1 = h1
    h2 = h2
    t1 = t1
    t2 = t2
    t3 = t3
    NoTask = NoTask
    Agents <- MCAgents
    Hashes <- MCHashes
    Prompts <- MCPrompts
    Tasks <- MCTasks2
    Texts <- MCTexts
    VectorsFit = TRUE
    OneCallPerAgent = TRUE
INVARIANTS
    RegistrationIsWhole
PROPERTIES
    CallsReturn
