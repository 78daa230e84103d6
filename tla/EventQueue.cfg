CONSTANTS
    Loopers = {main}
    NoThread = NoThread
    Events <- MCEvents
    NoEvent = NoEvent
    VerbEvent = TRUE
    Spurious = TRUE
    MaxPush = 4
SPECIFICATION Spec
INVARIANTS
    NoSleepWithWork
    TakenInOrder
    OwnBraceClosed
PROPERTY
    EveryEventTaken
CHECK_DEADLOCK FALSE
