\* Accounting: two facilities, two dates, parties of one or two, three stays.
CONSTANTS
    Facilities = {1, 2}
    NumDays = 2
    Capacity <- MCCapacity
    StayIds = {1, 2, 3}
    MaxParty = 2
    HoldTTL = 1
    MaxTime = 1
    MaxLag = 0
    Workers = {w1}
    BatchSize = 1
    MaxCrashes = 0
    NoStay = NoStay
SPECIFICATION Spec
INVARIANTS Conservation NoOverbooking Releasable SingleSuccessor
PROPERTY RowDiscipline
\* Every stay may be terminal and the clock at its bound.
CHECK_DEADLOCK FALSE
