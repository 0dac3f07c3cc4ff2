SPECIFICATION FairSpec
CONSTANTS
    Workers = {"w1", "w2"}
    Requests = {"r1", "r2", "r3"}
    Keys = {"k"}
    NoKey = "none"
    WorkerOf <- MCWorkerOf
    KeyOf <- MCKeyOf
    Statuses <- MCStatuses
    FailureThreshold = 2
    CoolDown = 2
    MaxAttempts = 2
    MaxDelay = 1
    TotalDeadline = 2
    Timeout = 1
    RetryAfters = {4}
    LastStart = 2
    MaxOutages = 1
INVARIANTS
    BreakerCoherent
    OpenStopsRequests
    SuccessMeansApplied
    NoResendAfterStore
    BoundedCall
PROPERTIES
    RequestsSettle
