CONSTANTS
    none = none
    Nothing = none
    Backends <- MCBackends
    Secrets = {"resolved", "SecretNotFound"}
    ResultBuffer = 1
    MaxResourceEdits = 2
    MaxOutages = 1
    MaxFaults = 1
SPECIFICATION BoundedSpec
INVARIANTS
    ReadyEarned
PROPERTIES
    Truthful
CHECK_DEADLOCK FALSE
