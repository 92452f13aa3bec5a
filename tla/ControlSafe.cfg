SPECIFICATION Spec
CONSTANTS
    Job = {1}
    MaxSessions = 1
    Thread = {t1, t2}
    Worker = {w1}
    NoThread = NoThread
    Manual = Manual
    Transport = "redis"
    MaxFaults = 1
    MaxVisits = 1
CHECK_DEADLOCK FALSE
CONSTRAINT FailsOrVisited
SYMMETRY Symmetry
INVARIANTS ControlTypeOK ControlExclusive NobodyForgotten
PROPERTIES KeepsPromise
