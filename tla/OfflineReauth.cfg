\* A session expires and the citizen authenticates again.
CONSTANTS
    Ops = {o1}
    Keys = {k1}
    Payloads = {p1}
    Capacity = 2
    MaxAttempts = 1
    MaxVersion = 1
    MaxFaults = 1
    MaxChurn = 0
    MaxRenewals = 1
    MaxStrays = 0
    MaxStoreless = 0
    CancelDrains = FALSE
SPECIFICATION Spec
INVARIANT AtMostOnce
CHECK_DEADLOCK FALSE
