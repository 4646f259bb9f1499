CONSTANTS
    c1 = c1
    c2 = c2
    none = none
    j1 = j1
    j2 = j2
    None = none
    Configs = {c1, c2}
    Jobs = {j1}
    MaxEdits = 3
    MaxBuildFailures = 1
    MaxTimeouts = 1
SPECIFICATION FairSpec
INVARIANTS
    RoutedRuns
PROPERTIES
    EvictsAfterOwnDrain
    Converges
CHECK_DEADLOCK FALSE
