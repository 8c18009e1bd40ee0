SPECIFICATION FairSpec
CONSTANTS
    Procs = {a, b}
    Products = {p}
    Picked = {}
    Modes = {"full"}
    Prompt = TRUE
    MaxAlerts = 1
    MaxJobs = 2
    MaxVersion = 1
    MaxPushes = 0
    MaxHalts = 2
INVARIANTS
    TypeOK
    OneScheduledRun
    NotifiedOncePerChecker
PROPERTIES
    FailureNotified
