SPECIFICATION Spec
CONSTANTS
    Programs <- MCPrograms
    MaxEvents = 6
    MaxCalls = 3
    BreaksFor = TRUE
INVARIANTS
    ForIteratesItsCollection
