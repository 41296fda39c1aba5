SPECIFICATION Spec
CONSTANTS
    Pkgs = {p, q}
    Unlisted = {q}
    Readers = {r1}
    Intervals = {2, 3}
    Retry = 1
    CheckTime = 1
    MaxTime = 5
    MaxApplies = 2
INVARIANTS
    ChecksOnTime DegradedIsRetried StatusAfterApply ListIsOffered
PROPERTIES
    SinceStable
