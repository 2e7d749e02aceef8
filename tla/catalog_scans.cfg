SPECIFICATION Spec
CONSTANTS
    p = p
    q = q
    bad = bad
    NoBrand = NoBrand
    n1 = n1
    n2 = n2
    n3 = n3
    Callers = {cron}
    Asins = {p, q}
    Brands = {bad}
    Blocked = {}
    Restricted = {q}
    Quotes <- MCQuotes
    NoQuote = NoQuote
    BatchSize = 2
    MinMargin = 10
    MinSellers = 2
    MaxFaults = 1
    Nodes = {n1, n2, n3}
    Broken = {n3}
    Listing <- MCListing
    MaxNodes = 2
    RefreshLimit = 1
    Retries = 1
INVARIANTS
    FunnelSound
    FreshIsTold
    RestrictedStopped
PROPERTIES
    RotationReachesAll
