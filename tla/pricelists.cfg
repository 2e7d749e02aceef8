SPECIFICATION Spec
CONSTANTS
    agents = agents
    other = other
    p1 = p1
    p2 = p2
    p3 = p3
    i1 = i1
    i2 = i2
    i3 = i3
    lost = lost
    NoId = NoId
    Callers = {agents, other}
    Asins = {p1, p2, p3}
    Ids <- MCIds
    Listings <- MCListings
    Sheets <- MCSheets
    Paths <- MCPaths
    Probes <- MCProbes
    NewRate <- MCNewRate
    Floor = 500
    ChunkSize = 2
    TokenLife = 4
    TokenMargin = 2
    ListPriced = {p1}
    Unpriced = {p3}
    Refused = {p2}
    Suits = {p1, p2}
    MaxLLM = 1
    Attempts = 2
    MaxFaults = 2
INVARIANTS
    TokenAlive
    RatesRecover
    CostBelongs
    FreshAreSent
    LockedWhileAsking
