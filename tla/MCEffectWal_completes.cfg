SPECIFICATION FairSpec
CONSTANTS
    f1 = f1
    f2 = f2
    host = host
    command = command
    admin = admin
    old = old
    none = none
    e1 = e1
    e2 = e2
    e3 = e3
    Files <- MCFiles
    Values <- MCValues
    Absent = none
    InitialContent <- MCContent
    NoFile = NoFile
    NoProc = NoProc
    NoExec = NoExec
    NoTx = NoTx
    TxIds = {e1, e2, e3}
    Procs = {host, admin}
    OpsOf <- HostAndCompactOps
    Execs <- TwoExecs
    IdOf <- OwnIds
    Writes <- WritesTwo
    MaxCrashes = 2
    MaxFaults = 0
PROPERTY EveryCommitCompletes
CHECK_DEADLOCK FALSE
