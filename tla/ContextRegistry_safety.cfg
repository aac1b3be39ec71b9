SPECIFICATION Spec
CONSTANTS
    a1 = a1
    a2 = a2
    h1 = h1
    h2 = h2
    t1 = t1
    t2 = t2
    t3 = t3
    NoTask = NoTask
    Agents <- MCAgents
    Hashes <- MCHashes
    Prompts <- MCPrompts
    Tasks <- MCTasks3
    Texts <- MCText
    VectorsFit = TRUE
    OneCallPerAgent = FALSE
SYMMETRY CallerSymmetry
INVARIANTS
    RegisteredIffIndexed
    NothingLeftBehind
