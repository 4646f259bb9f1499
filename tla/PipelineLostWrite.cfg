CONSTANTS
    k1 = k1
    e1 = e1
    Keys = {k1}
    EphemeralKeys = {}
    MaxHash = 2
    CheckpointEvery = 0
    InFlight = 4
    MaxChanges = 5
    MaxFaults = 2
    MaxPasses = 0
    LostAcks = FALSE
SPECIFICATION Spec
INVARIANTS
    RecordedWhenQuiet
CHECK_DEADLOCK FALSE
