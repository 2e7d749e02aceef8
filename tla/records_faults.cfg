SPECIFICATION MCSpec
CONSTANTS
    Runs = {a, b}
    None = None
    Retries = 1
    Failing = {"trigger", "client", "totals", "rows", "status", "draft"}
    Lossy = {"search", "complete", "strategy"}
    MaxResets = 1
    MaxIncidents = 2
CHECK_DEADLOCK FALSE
INVARIANTS
    CleanRecords
PROPERTY StatusSettles
