CONSTANTS
    j1 = j1
    j2 = j2
    w1 = w1
    w2 = w2
    u1 = u1
    Jobs = {j1, j2}
    Poison = {j1}
    Workers = {w1, w2}
    Users = {u1}
    QueueSize = 1
    BatchMaxRows = 2
    MaxAttempts = 3
    MaxFaults = 2
SPECIFICATION FairSpec
INVARIANTS
    ClosedLast
    OnlyTheGuiltyFail
PROPERTIES
    KeepsContract
    SettlesAccepted
CHECK_DEADLOCK FALSE
