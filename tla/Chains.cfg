SPECIFICATION ChainsSpec
CONSTANTS
    Campaign = {c1}
    Target = {x1, x2}
    Safehouse = {h1, h2}
    MaxRounds = 6
    NoRound = NoRound
    NoSource = NoSource
    Transport = "redis"
    Repeats = FALSE
    MaxFaults = 1
    Order = {1, 2, 3}
    Amount = 2
    Hauled = {3}
    MaxLegs = 3
    MaxHauls = 4
    MaxMishaps = 1
CHECK_DEADLOCK FALSE
SYMMETRY Symmetry
INVARIANTS
    ChainsTypeOK CampaignReachable OneRoundToCome CampaignAlive NoSecondSpy
    OrderAlive CompletedBought
PROPERTIES KeptOrdersKept
