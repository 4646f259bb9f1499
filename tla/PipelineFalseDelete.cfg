CONSTANTS
    k1 = k1
    e1 = e1
    Keys = {k1}
    EphemeralKeys = {}
    MaxHash = 2
    CheckpointEvery = 0
    InFlight = 4
    MaxChanges = 3
    MaxFaults = 1
    MaxPasses = 2
    LostAcks = FALSE
SPECIFICATION Spec
INVARIANTS
    NoFalseDelete
CHECK_DEADLOCK FALSE
