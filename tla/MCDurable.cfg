CONSTANTS
    a = a
    b = b
    v1 = v1
    v2 = v2
    Depth = 2
    Names <- MCNames
    Versions <- MCVersions
    Outside = Outside
    Torn = Torn
    Nothing = Nothing
    NoPromise = NoPromise
    MaxKills = 1
    MaxFailures = 1
    MaxLosses = 1
    MaxEdits = 1
SPECIFICATION Spec
INVARIANTS
    DurableInvariant
    AcknowledgedStays
PROPERTY EditsBeforeCheckStay
