\* One jurisdiction or two versions of a card, two downloads, up to two fetches at a time.
CONSTANTS
    Jurisdictions = {j1}
    MaxCard = 2
    MaxRevision = 1
    Callers = {c1, c2}
    MaxCalls = 2
    TTL = 1
    MaxDelay = 1
SPECIFICATION MCSpec
INVARIANTS BoundedStaleness Coalesced
PROPERTY EveryWaiterAnswered
\* Every call slot may be taken by a download nobody waits for.
CHECK_DEADLOCK FALSE
