SPECIFICATION ScanSpec
CONSTANTS
    Last = 4
    ExpectedOpen <- MCExpectedOpen
    ProductsPerCategory = 3
    PerCategoryLimit = 2
    EmptyLimit = 2
    EarlySuccess = 3
    Budget = 10
CHECK_DEADLOCK FALSE
INVARIANTS
    LimitsHold
    NothingBetter
    StopsRecorded
