SPECIFICATION BeatSpec
CONSTANTS
    Workers = {w1, w2}
    Interval = 2
    TTL = 6
    Lag = 0
    Skew = 0
INVARIANT UpIsReported
