SPECIFICATION Spec
INVARIANTS AmbiguousRetryGetsPicker
CHECK_DEADLOCK FALSE
