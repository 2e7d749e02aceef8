SPECIFICATION Spec
CONSTANTS
    Requests = {a, b}
    Limits = {1, 2}
    MonthLengths <- MCMonthLengths
    MaxFaults = 1
    Refused = TRUE
SYMMETRY Symmetry
INVARIANTS
    AllowanceKept
    LedgerAgrees
    ResetNextMonth
    BoughtOnce
