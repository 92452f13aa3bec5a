SPECIFICATION CampaignSpec
CONSTANTS
    Campaign = {c1}
    Target = {x1, x2}
    Safehouse = {h1, h2}
    MaxRounds = 6
    NoRound = NoRound
    NoSource = NoSource
    Transport = "redis"
    Repeats = FALSE
    MaxFaults = 0
CHECK_DEADLOCK FALSE
INVARIANT NoticesRead
