SPECIFICATION Spec
CONSTANTS
    a1 = a1
    a2 = a2
    t1 = t1
    t2 = t2
    t3 = t3
    NoTask = NoTask
    Agents <- MCAgents
    Tasks <- MCTasks2
    MinTrain = 2
    MaxVectors = 3
    WithReset = FALSE
    WithCancel = TRUE
INVARIANTS
    PositionsAgree
