CONSTANTS
    MaxUID = 2
    MaxCrashes = 1
    MaxTimeouts = 1
    Scopes = {s1}
    MaxEpochs = 2
    MaxForgets = 1
    MaxFails = 1
SPECIFICATION WarmUpSpec
INVARIANTS
    ClosedIsDead
    DeathsRecorded
    LiveRunIsCurrent
PROPERTIES
    OrphansClosed
CHECK_DEADLOCK FALSE
