SPECIFICATION Spec
CONSTANTS
    Requests = {r1, r2}
    Contents = {c1}
    NoContent = NoContent
    Faults = {}
    MaxVersions = 3
INVARIANT AtMostOneActive
