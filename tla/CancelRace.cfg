SPECIFICATION Spec
CONSTANTS
    Jobs = {j1}
    Workers = {w1}
    CancelRequests = {c1}
    Payloads <- AllPayloads
    MaxAttempts = 3
    MaxStalledCount = 1
    Faults = {}
PROPERTIES
    EndedIsNotCancelled
