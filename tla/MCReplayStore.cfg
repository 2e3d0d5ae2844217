\* Two hosts, one operator, a WAL that is full after three records.
SPECIFICATION Spec
CONSTANTS
    Hosts = {h1, h2}
    Operators = {op}
    Keys = {x, y}
    AdvanceRetries = 2
    MaxRecords = 3
    MaxCalls = 3
    MaxCommands = 3
    MaxCrashes = 1
    MaxFaults = 1
    MaxRestores = 1
SYMMETRY Symmetries
CHECK_DEADLOCK FALSE
INVARIANT LogReadable
PROPERTY NoReexecution
INVARIANT NoFalseAlarm
