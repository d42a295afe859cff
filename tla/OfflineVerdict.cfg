\* Verdicts: every request the client gave up on is lost or already served.
CONSTANTS
    Ops = {o1, o2}
    Keys = {k1, k2}
    Payloads = {p1}
    Capacity = 1
    MaxAttempts = 2
    MaxVersion = 2
    MaxFaults = 2
    MaxChurn = 2
    MaxRenewals = 0
    MaxStrays = 0
    MaxStoreless = 0
    CancelDrains = FALSE
SPECIFICATION LiveSpec
INVARIANT FailedMeansNoHold
PROPERTY EveryEntryResolved
\* Every entry may have its verdict and every budget be used.
CHECK_DEADLOCK FALSE
