SPECIFICATION Spec
CONSTANTS
    Attempts = 2
    Backoff = 1
    MaxRetryAfterWait = 8
    ClientTimeout = 60
    ToolCallTimeout = 120
    Second = 4
    HalfRange = 512
    Latencies = {0, 1, 30, 59, 60}
    RetryAfters = {0, 1, 2, 3, 127, 128}
PROPERTIES LongRetryAfterReturned
CHECK_DEADLOCK FALSE
