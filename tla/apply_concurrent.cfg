SPECIFICATION ClientSpec
CONSTANTS
    Pkgs = {p, q}
    Callers = {c1}
    Scheduler = scheduler
    Configs <- AutomaticOrBroken
    Times <- OpenWindow
    MaxIds = 2
    MaxHistory = 1
    MaxPackages = 1
    Faults = {"age", "missed"}
INVARIANTS
    TypeOK OnlyListedInstalled NothingUnconfirmed NothingShadowed
PROPERTIES
    NoReplay
