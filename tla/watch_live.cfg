SPECIFICATION FairSpec
CONSTANTS
    Paths = {t1, t2}
    NoPath = none
    MaxEdits = 4
    Hazards = {}
INVARIANTS
    NoEditUnnoticed OnlyCurrentTokens
PROPERTIES
    Converges
CHECK_DEADLOCK FALSE
