SPECIFICATION FairSpec
CONSTANTS
    a = a
    b = b
    a1 = a1
    a2 = a2
    b1 = b1
    Procs <- MCProcs
    Threads <- MCThreads
    ProcOf <- MCProcOf
    Calls <- AllCalls
    Ids = {x}
    MaxSequence = 3
    MaxTorn = 1
    NoThread = NoThread
    NoId = NoId
INVARIANT EventsFollowState
INVARIANT NoSilentLoss
INVARIANT CaptureIsRestorable
INVARIANT LocksUncontended
PROPERTY CallsReturn
CONSTRAINT OneScenario
