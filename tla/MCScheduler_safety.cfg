SPECIFICATION Spec
CONSTANTS
    MaxTasks = 3
    MainFuel = 2
    TaskFuel = 2
    Loopers <- NoLoopers
    JoinSizes <- UpToTwo
INVARIANTS
    TypeOK
    NoTaskLost
    IInv
    RoundRobin
    RaceIsEven
PROPERTIES
    InnerWalkNeverEnds
    CancelledStaysStopped
    DrainLeavesNothing
    Implements
