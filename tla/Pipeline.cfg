CONSTANTS
    k1 = k1
    e1 = e1
    Keys = {k1}
    EphemeralKeys = {}
    MaxHash = 2
    CheckpointEvery = 0
    InFlight = 2
    MaxChanges = 3
    MaxFaults = 2
    MaxPasses = 1
    LostAcks = TRUE
SPECIFICATION FairSpec
INVARIANTS
    NoFalseDelete
    ClaimHasOwner
    DeletionOwed
    CloseOutRetryOwed
PROPERTIES
    CloseOutKept
    GoneIsSettled
    CloseOutsReachSink
CHECK_DEADLOCK FALSE
