SPECIFICATION Spec
CONSTANTS
    a = a
    b = b
    a1 = a1
    a2 = a2
    b1 = b1
    Procs <- MCProcs
    Threads <- MCThreads
    ProcOf <- MCProcOf
    Calls <- AllCalls
    Pins = {p1, p2, p3, p4}
    NoPin = NoPin
    NoThread = NoThread
SYMMETRY PinSymmetry
INVARIANT QuiescenceAlone
INVARIANT OneEffectPublisher
INVARIANT RegistryNamesLease
INVARIANT NoLockLeak
PROPERTY NoLateAdmission
PROPERTY RefinesHostQuiescence
