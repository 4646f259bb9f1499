CONSTANTS
    k1 = k1
    e1 = e1
    Keys = {k1, e1}
    EphemeralKeys = {e1}
    MaxHash = 2
    CheckpointEvery = 3
    InFlight = 4
    MaxChanges = 5
    MaxFaults = 1
    MaxPasses = 2
    LostAcks = FALSE
SPECIFICATION Spec
CONSTRAINT
    OneKeyUsed
INVARIANTS
    RecordedUndisturbed
    ReplayChain
    PatchRunBounded
    EventsNeverDeleted
CHECK_DEADLOCK FALSE
