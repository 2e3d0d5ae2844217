SPECIFICATION Spec
CONSTANTS
    a = a
    b = b
    p1 = p1
    p2 = p2
    p3 = p3
    Agents = {a, b}
    Ids <- AreaAndStory
    Interval = 1
    LastRfc3339 = 3
    MaxEpoch = 4
    Procs = {p1, p2, p3}
    Loopers = {}
    Requests <- AllRequests
    ScopeOf <- SameScope
    Targets <- SomeTargets
    StaleAfter = 2
    MaxTries = 2
    MaxRecords = 1
    MaxClock = 2
    MaxCommands = 3
    MaxCrashes = 1
    MaxFaults = 1
SYMMETRY Symmetry
INVARIANT ClaimIsEffective
INVARIANT ReplayMatchesTable
INVARIANT HandoffIsEvidenced
PROPERTY AuthorityIsNeverStolen
CHECK_DEADLOCK FALSE
