SPECIFICATION FairSpec
CONSTANTS
    Jobs = {j1, j2}
    Workers = {w1, w2}
    CancelRequests = {c1}
    Payloads <- SomePayloads
    MaxAttempts = 2
    MaxStalledCount = 0
    Faults = {"redis", "apiCrash"}
INVARIANTS
    OutcomeMatchesPayload
PROPERTIES
    ImplementsLifecycle
    AcceptedJobEnds
