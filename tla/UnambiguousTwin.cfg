SPECIFICATION Spec
CONSTANTS
    Qualities = {900, 901, 960, 1000}
    QualityMin = 1000
    ExactGap = 100
    UnambiguousDelta = 50
    ResolveCap = 4
    MaxLocations = 3
INVARIANTS UnambiguousAsDocumented
CHECK_DEADLOCK FALSE
