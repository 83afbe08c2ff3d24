SPECIFICATION Spec
CONSTANTS
    Attempts = 3
    Backoff = 1
    MaxRetryAfterWait = 8
    ClientTimeout = 60
    ToolCallTimeout = 120
    Second = 4
    HalfRange = 512
    Latencies = {0, 1, 30, 59, 60}
    RetryAfters = {0, 1, 2, 3, 127}
INVARIANTS BodiesAccountedFor DeadlineHonoured DetachedBound
PROPERTIES RetryAfterHonoured NoHopelessRetry
CHECK_DEADLOCK FALSE
