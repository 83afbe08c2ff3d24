SPECIFICATION Spec
CONSTANTS
    Lines = {l1, l2}
    Stops = {s1}
    Ways = {w1}
    None = None
    MaxRows = 2
    Limits = {0, 1}
SYMMETRY Symmetry
INVARIANTS LimitKeepsNotices NarrowerFilterFewerNotices NoticesAreOfThisSite
CHECK_DEADLOCK FALSE
