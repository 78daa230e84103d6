CONSTANTS
    Loopers = {main}
    NoThread = NoThread
    Events = {}
    NoEvent = NoEvent
    VerbEvent = TRUE
    Spurious = FALSE
    Writers = {w1, w2}
    MaxBuffer = 2
    MaxPieces = 1
    MaxBraces = 0
    MaxLoopPieces = 0
    MaxPush = 3
    MaxJobs = 0
    MaxTerminates = 0
SPECIFICATION LogSpec
INVARIANT
    NothingLost
CHECK_DEADLOCK FALSE
