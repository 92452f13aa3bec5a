SPECIFICATION MarketSpec
CONSTANTS
    Order = {1}
    Amount = 2
    Hauled = {1}
    MaxLegs = 2
    MaxHauls = 4
    MaxMishaps = 0
CHECK_DEADLOCK FALSE
INVARIANTS RedistributionConfirmed
