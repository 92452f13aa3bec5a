SPECIFICATION LiveSpec
CONSTANTS
    t1 = t1
    w1 = w1
    x1 = x1
    x2 = x2
    h1 = h1
    NoThread = NoThread
    Manual = Manual
    NoRound = NoRound
    NoSource = NoSource
CHECK_DEADLOCK FALSE
PROPERTIES EveryJobStarts ControlGivenBack EveryTargetRead
