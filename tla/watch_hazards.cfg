SPECIFICATION Spec
CONSTANTS
    Paths = {t1, t2}
    NoPath = none
    MaxEdits = 3
    Hazards = {"startup", "vanish", "signals"}
INVARIANTS
    TypeOK StoreOnlyIfConfigured PreviewNeverMutates
PROPERTIES
    NoRollback
CHECK_DEADLOCK FALSE
