\* A withdrawal overtakes a fetch.
CONSTANTS
    Jurisdictions = {j1}
    MaxCard = 0
    MaxRevision = 1
    Callers = {c1}
    MaxCalls = 1
    TTL = 1
    MaxDelay = 1
SPECIFICATION Spec
INVARIANT WithdrawnStaysOut
CHECK_DEADLOCK FALSE
