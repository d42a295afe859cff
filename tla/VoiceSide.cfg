\* Each part of the voice service on its own small instance.
CONSTANTS
    Requests = {"r1", "r2"}
    Ids = {"i1"}
    Languages = {"l1", "l2"}
    Reviewed = {"l1"}
    MaxVersion = 2
    MaxInflight = 1
    MaxChanges = 1
    Asked <- MCAsked
    Templates <- MCTemplates
    QueueCalls = {c1, c2, c3}
    QueueSlots = 1
    QueueDepth = 1
    Callers = {c1, c2, c3}
    FailureThreshold = 2
    SuccessThreshold = 2
    ResetTimeout = 1
    IpcCalls = {"c1", "c2"}
    IpcIds = {"i1", "i2"}
    IdOf <- MCIdOf
    PoolCalls = {c1, c2}
    PoolWorkers = {w1}
    PoolDepth = 1
SPECIFICATION VoiceSideSpec
INVARIANTS DeliveredIsCurrent DrainedIsAnswered
PROPERTIES EveryRequestAnswered EveryAcquireReturns ImplementsContract ClosesAgain
           EveryCallReturns EveryDispatchReturns
CHECK_DEADLOCK FALSE
