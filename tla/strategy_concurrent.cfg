SPECIFICATION MCSpec
CONSTANTS
    Requests = {r1, r2}
    Contents = {c1, c2}
    NoContent = NoContent
    Faults = {"abort", "ignored"}
    MaxVersions = 3
INVARIANTS
    VersionHistory
    SerialOneActive
    ActiveSurvives
PROPERTIES
    ImplementsJournal
    SerialDraftsOnly
SYMMETRY Symmetry
