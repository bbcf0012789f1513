SPECIFICATION ReadSpec
CONSTANTS
    Jobs = {j1}
    Workers = {w1}
    CancelRequests = {}
    Payloads <- AllPayloads
    MaxAttempts = 2
    MaxStalledCount = 1
    Faults = {}
INVARIANTS
    QueueLengthIsReported
