SPECIFICATION Spec
CONSTANTS
    a = a
    b = b
    p1 = p1
    p2 = p2
    p3 = p3
    Agents = {a, b}
    Ids <- AreaAndStory
    Interval = 1
    LastRfc3339 = 3
    MaxEpoch = 4
    Procs = {"cli", "host", "agent"}
    Loopers = {}
    Requests <- Overlapping
    ScopeOf <- SameScope
    Targets <- SomeTargets
    StaleAfter = 2
    MaxTries = 2
    MaxRecords = 3
    MaxClock = 2
    MaxCommands = 3
    MaxCrashes = 1
    MaxFaults = 0
SYMMETRY AgentSymmetry
INVARIANT OneLiveOwner
CHECK_DEADLOCK FALSE
