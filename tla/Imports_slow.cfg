SPECIFICATION FairSpec
CONSTANTS
    Procs = {a, b}
    Products = {p}
    Picked = {}
    Modes = {"full"}
    Prompt = FALSE
    MaxAlerts = 1
    MaxJobs = 2
    MaxVersion = 1
    MaxPushes = 0
    MaxHalts = 1
INVARIANTS
    TypeOK
    OneScheduledRun
    NotifiedOncePerChecker
