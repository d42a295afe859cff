\* Two goroutines commit different successors.
CONSTANTS
    Packages = {k1, k2}
    Routes = {r1}
    MaxRevision = 3
    Committers = {p1, p2}
SPECIFICATION TrackerSpec
INVARIANT TombstonesKept
CHECK_DEADLOCK FALSE
