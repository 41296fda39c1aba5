SPECIFICATION FairSpec
CONSTANTS
    Pkgs = {p}
    Callers = {c1}
    Scheduler = scheduler
    Configs <- ManualOnly
    Times <- OpenWindow
    MaxIds = 2
    MaxHistory = 2
    MaxPackages = 1
    Faults = {}
PROPERTIES
    PendingClears
