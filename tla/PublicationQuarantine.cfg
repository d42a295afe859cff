\* An operator moves a quarantined source.
CONSTANTS
    Sources = {s1}
    MaxRevision = 1
    MaxPackage = 1
    MaxVersion = 4
    MaxByHand = 1
    Promoters = {p1}
    Operators = {op1}
SPECIFICATION Spec
PROPERTY QuarantineTerminal
CHECK_DEADLOCK FALSE
