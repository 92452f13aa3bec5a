SPECIFICATION RecordsSpec
CONSTANTS
    MaxJobs = 3
    MaxEvents = 2
    Building = {b1, b2}
    MaxLevel = 2
    MaxCycles = 3
    MaxPlanEvents = 2
    FixedPayload = TRUE
    MaxUpdates = 3
    MaxRolloutFaults = 3
CHECK_DEADLOCK FALSE
SYMMETRY Symmetry
INVARIANTS
    RecordsTypeOK NothingHidden StatusSettled
    ChangesKept AsideIsRefused ReservedOnce ReservationsEnd
    OneAgentRuns RollbackServes WithdrawnIsGone
PROPERTIES SucceededRuns
