SPECIFICATION Spec
CONSTANTS
    Callers = {c1, c2}
    Url = u1
    Ttl = 2
    ToolCallTimeout = 2
    FetchBound = 3
    MaxTime = 8
INVARIANTS CallBound LateCallsFillTheCache WarningsAreGrounded
PROPERTIES SnapshotBound CallsAreAnswered
CHECK_DEADLOCK FALSE
