SPECIFICATION FairQueueSpec
CONSTANTS
    Events = {e1, e2}
    Times <- MCTimes
    Runs = {r1}
    WorkerIds <- MCWorkerIds
    WorkerOf <- MCWorkerOf
    Requests = {q1, q2}
    Idle = Idle
    Limit = 2
    Lease = 2
    Window = 1
    Retention = 3
    Patience = 1
    MaxTries = 2
    MaxFaults = 1
    MaxClock = 6
INVARIANTS
    NeverQueuedTwice
    GrantedMeansConsumed
PROPERTIES
    LeaseIsExclusive
    EventuallyConsumed
CHECK_DEADLOCK FALSE
