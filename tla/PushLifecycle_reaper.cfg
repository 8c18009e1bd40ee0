SPECIFICATION Spec
CONSTANTS
    r1 = r1  r2 = r2  r3 = r3
    w1 = w1  w2 = w2
    a1 = a1  a2 = a2
    s1 = s1  k1 = k1
    Rows = {r1, r2}
    Slots = {s1}
    Workers = {w1, w2}
    Servers = {a1}
    Keys = {k1}
    NoKey = NoKey
    NoRow = NoRow
    NoCall = NoCall
    NoSlot = NoSlot
    Calls <- OneLive
    Durable = TRUE
    Timely = FALSE
    SoloRetry = TRUE
    Faults = {}
    MaxTries = 2
    MaxFaults = 0
    MaxRetries = 0
    MaxTasks = 2
INVARIANT
    OneActivePushPerSlot
