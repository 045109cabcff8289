SPECIFICATION FairSpec
CONSTANTS
    MaxTasks = 1
    MainFuel = 1
    TaskFuel = 1
    Loopers <- NoLoopers
    JoinSizes <- OnlyEmpty
PROPERTIES
    RaceEnds
