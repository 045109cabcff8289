SPECIFICATION Spec
CONSTANTS
    Names = {"A"}
    Indexes = {0, 1}
    MaxScopes = 3
    MaxThreads = 3
    MaxFrames = 1
    MaxHandlers = 0
    MaxWrites = 3
INVARIANTS
    LosersWritesStand
