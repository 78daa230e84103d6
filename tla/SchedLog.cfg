CONSTANTS
    Loopers = {main}
    NoThread = NoThread
    Events = {}
    NoEvent = NoEvent
    VerbEvent = TRUE
    Spurious = TRUE
    Writers = {w}
    MaxBuffer = 1
    MaxPieces = 2
    MaxBraces = 1
    MaxLoopPieces = 1
    MaxPush = 10
    MaxJobs = 1
    MaxTerminates = 1
SPECIFICATION LogSpec
INVARIANT
    TextInOrder
PROPERTY
    FlushedIsWritten
CHECK_DEADLOCK FALSE
