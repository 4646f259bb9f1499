CONSTANTS
    s1 = s1
    s2 = s2
    k1 = k1
    t1 = t1
    t2 = t2
    Sinks = {s1, s2}
    Scopes = {k1}
    Targets = {t1, t2}
    Serving <- MCServing
    QueueLimit = 2
    MaxTransitions = 3
    Logged = s1
    QueueSize = 1
    BatchMaxRows = 2
    RetryQueueMax = 1
    MaxMishaps = 1
SPECIFICATION PathSpec
INVARIANTS
    EpochsAlternate
    NoEpochForgotten
    LandsInOrder
PROPERTIES
    EdgesLand
CHECK_DEADLOCK FALSE
