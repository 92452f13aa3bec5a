SPECIFICATION Spec
CONSTANTS
    Job = {1}
    MaxSessions = 2
    Thread = {t1}
    Worker = {w1}
    NoThread = NoThread
    Manual = Manual
    Transport = "redis"
    MaxFaults = 0
    MaxVisits = 0
CHECK_DEADLOCK FALSE
INVARIANTS NobodyForgotten
PROPERTIES KeepsPromise
