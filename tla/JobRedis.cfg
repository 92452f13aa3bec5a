SPECIFICATION Spec
CONSTANTS
    MaxJobs = 3
    Thread = {t1, t2}
    NoThread = NoThread
    Transport = "redis"
    SafeRequeue = TRUE
    SpareRows = 2
    Result = {"finished", "error"}
    MaxCopies = 1
    MaxFaults = 1
    MaxActs = 1
    MaxBeats = 0
CHECK_DEADLOCK FALSE
SYMMETRY Symmetry
INVARIANTS TypeOK OneRunnerPerAccount RunningHasLease OneFollowUp ChainGoesOn
PROPERTIES EndedStaysEnded RunsOnce
