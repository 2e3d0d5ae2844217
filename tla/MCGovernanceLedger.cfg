\* Ten starting points; three requests, one death or two, one I/O error.
SPECIFICATION Spec
CONSTANTS
    Menus <- AllMenus
    Interactions = {x, y}
    Offers = {o}
    Digests = {d, e}
    FocusIds = {f, g}
    MaxRecords = 9
    MaxReplayRecords = 3
    MaxReleases = 1
    MaxGenerations = 2
    MaxOps = 3
    MaxFaults = 1
SYMMETRY Symmetries
CHECK_DEADLOCK FALSE
INVARIANT AcceptedIsRecoverable
PROPERTY LedgerOnlyExtends
INVARIANT NoActionTwice
INVARIANT DecidedOnHead
INVARIANT RepairIsPossible
INVARIANT FailureIsHonest
PROPERTY MixedPairNotAdmitted
