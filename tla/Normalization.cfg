CONSTANTS
    None = None
    Objects <- MCObjects
    Names <- MCNames
    Quoted <- MCQuoted
    Scopes <- BothScopes
    Redactions <- MCRedactions
    MaxArrivals = 2
    MaxEdits = 1
    MaxRows = 2
SPECIFICATION NormalizationSpec
INVARIANTS
    StoredAsAsked
    ParsesExactly
PROPERTIES
    SharedUntouched
CHECK_DEADLOCK FALSE
