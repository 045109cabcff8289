SPECIFICATION Spec
CONSTANTS
    MaxTasks = 2
    MainFuel = 1
    TaskFuel = 1
    Loopers <- NoLoopers
    JoinSizes <- OneOrTwo
INVARIANTS
    ErrorsDontKillTheSession
