SPECIFICATION FairSpec
CONSTANTS
    Jobs = {j1}
    Workers = {w1, w2}
    CancelRequests = {}
    Payloads <- SomePayloads
    MaxAttempts = 2
    MaxStalledCount = 1
    Faults = {"crash", "lockLoss", "db", "redisLost"}
INVARIANTS
    TypeOK
PROPERTIES
    EntryIsSettled
