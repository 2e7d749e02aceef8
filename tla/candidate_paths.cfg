SPECIFICATION Spec
CONSTANTS
    x = x
    y = y
    NoBrand = NoBrand
    NoValue = NoValue
    Error = Error
    MinMargin = 10
    MinSellers = 2
    MaxRisk = 7
    TierA = 800
    TierB = 650
    TierC = 500
    Brands = {x, y}
    Products <- MCProducts
    Wishes <- MCWishes
    Answers <- MCAnswers
    MaxFaults = 1
INVARIANTS
    GatesHold
    PathsAgree

    FallbackSettles
