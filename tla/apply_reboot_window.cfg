SPECIFICATION Spec
CONSTANTS
    Pkgs = {p}
    Callers = {c1}
    Scheduler = scheduler
    Configs <- ManualOnly
    Times <- TwoTimes
    MaxIds = 1
    MaxHistory = 2
    MaxPackages = 1
    Faults = {}
PROPERTIES
    NoRebootOutsideWindow
