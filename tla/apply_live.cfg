SPECIFICATION FairClientSpec
CONSTANTS
    Pkgs = {p}
    Callers = {c1}
    Scheduler = scheduler
    Configs <- NeverRebootOrDisabled
    Times <- TwoTimes
    MaxIds = 2
    MaxHistory = 2
    MaxPackages = 1
    Faults = {"missed"}
INVARIANTS
    HistoryInOrder
PROPERTIES
    EveryRequestAnswered EveryResultRecorded
