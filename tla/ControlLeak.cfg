SPECIFICATION Spec
CONSTANTS
    Job = {1}
    MaxSessions = 1
    Thread = {t1}
    Worker = {w1}
    NoThread = NoThread
    Manual = Manual
    Transport = "redis"
    MaxFaults = 0
    MaxVisits = 1
CHECK_DEADLOCK FALSE
INVARIANTS NoJobWhileOpenHere
