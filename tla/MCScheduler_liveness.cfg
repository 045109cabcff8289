SPECIFICATION FairSpec
CONSTANTS
    MaxTasks = 3
    MainFuel = 1
    TaskFuel = 1
    Loopers <- OneLooper
    JoinSizes <- OneOrTwo
PROPERTIES
    StatementEnds
    FiniteTasksFinish
    RaceIsDecided
