SPECIFICATION DrainSpec
CONSTANTS
    a = a
    b = b
    a1 = a1
    a2 = a2
    b1 = b1
    Procs <- MCProcs
    Threads <- MCThreads
    ProcOf <- MCProcOf
    Calls <- BackupCalls
    Pins = {p1, p2, p3}
    NoPin = NoPin
    NoThread = NoThread
ACTION_CONSTRAINT FirstFreePin
PROPERTY QuiescenceDrains
PROPERTY OperationsReturn
