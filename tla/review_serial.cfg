SPECIFICATION ReviewSpec
CONSTANTS
    Reviewers = {p, q, u}
    Overlap = FALSE
    MayFail = TRUE
    MaxRequests = 2
CHECK_DEADLOCK FALSE
INVARIANTS
    LogAgrees
PROPERTY DecisionsFinal
SYMMETRY Symmetry
