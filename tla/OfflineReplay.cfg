\* Replay: faults, requests that arrive late, and instances without a database.
CONSTANTS
    Ops = {o1, o2}
    Keys = {k1, k2}
    Payloads = {p1, p2}
    Capacity = 2
    MaxAttempts = 2
    MaxVersion = 2
    MaxFaults = 2
    MaxChurn = 0
    MaxRenewals = 1
    MaxStrays = 1
    MaxStoreless = 1
    CancelDrains = TRUE
SPECIFICATION Spec
INVARIANTS AtMostOncePerSession CommittedIsReal
PROPERTY UncertainKept
SYMMETRY MCSymmetry
CHECK_DEADLOCK FALSE
