SPECIFICATION FairSpec
CONSTANTS
    MaxTasks = 1
    MainFuel = 2
    TaskFuel = 1
    Loopers <- MainLoops
    JoinSizes <- OnlyTwo
PROPERTIES
    SpawnedTaskGetsATurn
