SPECIFICATION LiveSpec
CONSTANTS
    t1 = t1
    t2 = t2
    NoThread = NoThread
CHECK_DEADLOCK FALSE
PROPERTIES EveryJobEnds
