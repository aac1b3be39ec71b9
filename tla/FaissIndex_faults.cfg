SPECIFICATION FairSpec
CONSTANTS
    a1 = a1
    a2 = a2
    t1 = t1
    t2 = t2
    t3 = t3
    NoTask = NoTask
    Agents <- MCAgent
    Tasks <- MCTasks2
    MinTrain = 1
    MaxVectors = 2
    WithReset = TRUE
    WithCancel = TRUE
PROPERTIES
    CallsReturn
