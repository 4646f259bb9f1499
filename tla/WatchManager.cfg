CONSTANTS
    a = a
    b = b
    Sinks <- MCSinks
    Versions = {v1}
    Namespaces = {"own", "all"}
    Offered <- MCOffered
    Labels <- MCLabels
    NoLabels = "none"
    Selector <- MCSelector
    MaxTargetEdits = 3
    MaxChanges = 2
    MaxFails = 1
    MayStop = TRUE
SPECIFICATION FairWatch
PROPERTIES
    NoPhantomDeath
    SelectedIsRecorded
CHECK_DEADLOCK FALSE
