SPECIFICATION Spec
CONSTANTS
    f1 = f1
    f2 = f2
    host = host
    command = command
    admin = admin
    old = old
    none = none
    e1 = e1
    e2 = e2
    e3 = e3
    Files <- MCFiles
    Values <- MCValues
    Absent = none
    InitialContent <- MCContent
    NoFile = NoFile
    NoProc = NoProc
    NoExec = NoExec
    NoTx = NoTx
    TxIds = {e1, e2, e3}
    Procs = {host, command, admin}
    OpsOf <- AllOps
    Execs <- TwoExecs
    IdOf <- OwnIds
    Writes <- WritesTwo
    MaxCrashes = 2
    MaxFaults = 2
INVARIANT QuietIsCommitted
INVARIANT NoAmbiguousSuccess
INVARIANT RollbackIsExact
PROPERTY RecoveryKeepsCommitted
PROPERTY HonestOutcome
CHECK_DEADLOCK FALSE
