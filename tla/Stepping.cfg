CONSTANTS
    a = a
    b = b
    c = c
    q1 = q1
    q2 = q2
    Stones = {a, b, c}
    NoStone = NoStone
    NoFile = NoFile
    Junk = Junk
    Part = Part
    Requests = {q1, q2}
    Settings <- ManySettings
    Running = {a, b}
    Dir <- OwnDirs
    MaxHops = 3
    MaxFd = 12
SPECIFICATION Spec
INVARIANTS
    RouteIsTheChain
    FileIsTheOneAskedFor
PROPERTIES
    EveryRequestServed
    EveryThreadEnds
    AnsweredOrSpinning
CHECK_DEADLOCK FALSE
