SPECIFICATION FairSpec
CONSTANTS
    h = h
    r1 = r1
    r2 = r2
    NoProc = NoProc
    Procs = {h, r1, r2}
    Calls <- MCCalls
    Members = 2
    MaxWal = 2
    MaxCalls = 4
    MaxCrashes = 2
    MaxFaults = 2
INVARIANT SuccessIsCurrent
INVARIANT AnchoredIsVisible
INVARIANT FailsClosed
INVARIANT InterruptedIsResumable
PROPERTY EveryCallReturns
CHECK_DEADLOCK FALSE
