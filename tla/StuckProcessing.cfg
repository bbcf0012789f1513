SPECIFICATION Spec
CONSTANTS
    Jobs = {j1}
    Workers = {w1}
    CancelRequests = {}
    Payloads <- AllPayloads
    MaxAttempts = 3
    MaxStalledCount = 1
    Faults = {"crash"}
INVARIANTS
    ProcessingIsInProgress
