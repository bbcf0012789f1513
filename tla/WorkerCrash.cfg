SPECIFICATION ReadSpec
CONSTANTS
    Jobs = {j1}
    Workers = {w1, w2}
    CancelRequests = {c1, c2}
    Payloads <- AllPayloads
    MaxAttempts = 3
    MaxStalledCount = 1
    Faults = {"crash", "apiCrash", "redis"}
SYMMETRY RequestSymmetry
INVARIANTS
    RunOwnsEntry
    AttemptsInOrder
    AnswerShowsAttempts
    MetricsAreBetween
PROPERTIES
    StartedAtIsKept
