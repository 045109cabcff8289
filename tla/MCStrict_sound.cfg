CONSTANT Programs <- MCPrograms
SPECIFICATION Spec
INVARIANTS TypeOK SoundMeansTyped WrongIsExplained FailureIsDeclared PromiseKept
PROPERTY PrivateIsPrivate
CHECK_DEADLOCK FALSE
