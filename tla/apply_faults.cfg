SPECIFICATION ClientSpec
CONSTANTS
    Pkgs = {p}
    Callers = {c1}
    Scheduler = scheduler
    Configs <- ManualOnly
    Times <- InsideOrUnknown
    MaxIds = 2
    MaxHistory = 1
    MaxPackages = 1
    Faults <- PromptFaults
INVARIANTS
    OneAtATime HistoryTruth ErrorIsFinal InstallingShown
PROPERTIES
    RebootAfterResult ImplementsApplyService
