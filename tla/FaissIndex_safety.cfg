SPECIFICATION Spec
CONSTANTS
    a1 = a1
    a2 = a2
    t1 = t1
    t2 = t2
    t3 = t3
    NoTask = NoTask
    Agents <- MCAgents
    Tasks <- MCTasks3
    MinTrain = 2
    MaxVectors = 2
    WithReset = FALSE
    WithCancel = FALSE
SYMMETRY TaskSymmetry
INVARIANTS
    PositionsAgree
    AnswersNameTheVectorRead
