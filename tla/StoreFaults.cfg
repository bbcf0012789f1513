SPECIFICATION Spec
CONSTANTS
    Jobs = {j1}
    Workers = {w1, w2}
    CancelRequests = {c1, c2}
    Payloads <- AllPayloads
    MaxAttempts = 2
    MaxStalledCount = 1
    Faults = {"crash", "apiCrash", "redis", "db"}
SYMMETRY RequestSymmetry
INVARIANTS
    CancelledNeverRuns
    AcceptedJobIsKept
    CompletedEntryAgrees
    DeadLetterExact
PROPERTIES
    CancelledIsFinal
