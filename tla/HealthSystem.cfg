SPECIFICATION SystemSpec
CONSTANTS
    Requests = {r1}
    Workers = {w1, w2}
    Interval = 2
    TTL = 4
    Lag = 1
    Skew = 1
INVARIANTS
    VerdictIsDeserved
    OutageIsShort
    SilenceIsNoticed
PROPERTIES
    OkIsCurrent
    AnswerComes
