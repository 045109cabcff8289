SPECIFICATION Spec
CONSTANTS
    Names = {"A"}
    Indexes = {0, 1}
    MaxScopes = 3
    MaxThreads = 2
    MaxFrames = 2
    MaxHandlers = 1
    MaxWrites = 3
INVARIANTS
    TypeOK
    FramesOwnScopes
    LocalUpdatesReturn
    PrivateWritesStand
