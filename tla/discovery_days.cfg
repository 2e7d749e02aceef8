SPECIFICATION QueueSpec
CONSTANTS
    c1 = c1
    c2 = c2
    p1 = p1
    p2 = p2
    k1 = k1
    k2 = k2
    Requests = {r1}
    Contents = {c1, c2}
    NoContent = NoContent
    Faults = {}
    MaxVersions = 2
    Callers = {a, b}
    Products = {p1, p2}
    Categories <- MCCategories
    Offers <- MCOffers
    Suits <- MCSuits
    Shared = {p1}
    Cap = 2
    MaxFaults = 1
    MaxQueue = 2
INVARIANTS
    DailyCap
    FromStrategy
    FreshAccountedFor
SYMMETRY Symmetry
