\* A promotion, two operators and calls that set a manifest by hand race over one source.
CONSTANTS
    Sources = {s1}
    MaxRevision = 2
    MaxPackage = 2
    MaxVersion = 3
    MaxByHand = 1
    Promoters = {p1}
    Operators = {op1, op2}
SPECIFICATION Spec
INVARIANTS ServedIsAuthorised
PROPERTIES RestrictionSticks DecidedOnCurrent
SYMMETRY MCSymmetry
\* Every bound may be used up.
CHECK_DEADLOCK FALSE
