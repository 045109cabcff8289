SPECIFICATION Spec
CONSTANTS
    Vocabularies <- MCVocabularies
    Symbols <- MCSymbols
    ProgramOf <- Parse
    NoProgram <- None
    Accepts <- Compilable
INVARIANTS
    TypeOK
    SessionIsFile
    LayoutNests
    LayoutIsOffSide
    ReadsBack
    NoWordLost
    AnnotationsAreTypes
CHECK_DEADLOCK FALSE
