SPECIFICATION Spec
CONSTANTS
    MaxHistory = 2
    MaxCalls = 4
    DirSyncs = TRUE
INVARIANTS
    TypeOK
    NeverHalf
    NothingHalfApplied
    AckedSurvives
    Bounded
PROPERTIES
    NewerNeverOverwritten
    ImplementsAtomicStore
