SPECIFICATION Spec
CONSTANTS
    MaxJobs = 3
    Thread = {t1, t2}
    NoThread = NoThread
    Transport = "https"
    SafeRequeue = TRUE
    SpareRows = 1
    Result = {"finished"}
    MaxCopies = 1
    MaxFaults = 1
    MaxActs = 0
    MaxBeats = 1
CHECK_DEADLOCK FALSE
SYMMETRY Symmetry
INVARIANTS OneFollowUp ChainGoesOn
