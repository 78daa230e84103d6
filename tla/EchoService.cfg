CONSTANTS
    Clients = {c1, c2, c3}
    Ports = {p1, p2}
    Backlog = 1
    MaxFd = 3
    MaxFlight = 2
SPECIFICATION Spec
INVARIANTS
    AckedWasHeard
    ErrorMeansNotAccepted
PROPERTIES
    EveryClientEnds
    BacklogDrains
CHECK_DEADLOCK FALSE
