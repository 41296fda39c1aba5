SPECIFICATION FairSpec
CONSTANTS
    Paths = {t1}
    NoPath = none
    MaxEdits = 1
    Hazards = {"signals"}
PROPERTIES
    SighupReloads
CHECK_DEADLOCK FALSE
