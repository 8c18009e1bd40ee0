SPECIFICATION Spec
CONSTANTS
    Procs = {a}
    Products = {p, q}
    Picked = {p}
    Modes = {}
    Prompt = TRUE
    MaxAlerts = 0
    MaxJobs = 2
    MaxVersion = 2
    MaxPushes = 1
    MaxHalts = 1
INVARIANTS
    StaleIsNoticed
