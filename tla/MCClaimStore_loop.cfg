SPECIFICATION FairSpec
CONSTANTS
    a = a
    b = b
    p1 = p1
    p2 = p2
    p3 = p3
    Agents = {a, b}
    Ids <- Area
    Interval = 1
    LastRfc3339 = 3
    MaxEpoch = 4
    Procs = {"cli", "loop"}
    Loopers = {"loop"}
    Requests <- AreaRequests
    ScopeOf <- SameScope
    Targets <- SomeTargets
    StaleAfter = 2
    MaxTries = 2
    MaxRecords = 1
    MaxClock = 2
    MaxCommands = 2
    MaxCrashes = 1
    MaxFaults = 0

PROPERTY CommandsReturn
PROPERTY ExpiredIsReconciled
CHECK_DEADLOCK FALSE
