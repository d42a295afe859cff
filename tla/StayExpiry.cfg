\* Expiry: two workers with batches of one race for three stays and may crash.
CONSTANTS
    Facilities = {1}
    NumDays = 1
    Capacity <- MCCapacity
    StayIds = {1, 2, 3}
    MaxParty = 1
    HoldTTL = 1
    MaxTime = 2
    MaxLag = 1
    Workers = {w1, w2}
    BatchSize = 1
    MaxCrashes = 1
    NoStay = NoStay
SPECIFICATION LiveSpec
INVARIANT NeverExpiredEarly
PROPERTY DueHoldsResolved
\* Every stay may be terminal and the clock at its bound.
CHECK_DEADLOCK FALSE
