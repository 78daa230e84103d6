CONSTANTS
    Tasks = {t1, t2, t3, t4}
    NThreads = 2
    NoTask = NoTask
SPECIFICATION Spec
INVARIANTS
    TypeOK
    CountersExact
    NoLostWakeup
    AtMostOneLateStart
    StopQuiesces
PROPERTIES
    EveryTaskStarts
    StopReturns
    PoolSpec
CHECK_DEADLOCK FALSE
