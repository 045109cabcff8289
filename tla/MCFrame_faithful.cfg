SPECIFICATION Spec
CONSTANTS
    Programs <- MCPrograms
    MaxEvents = 6
    MaxCalls = 3
    BreaksFor = FALSE
INVARIANTS
    TypeOK
    CompilerVerifies
    VerifiedStaysTyped
    VerifiedNeverCrashes
    Faithful
