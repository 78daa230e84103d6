CONSTANTS
    Base = 4
    Registered <- Classes
    Messages <- Traffic
    Capacity = 5
SPECIFICATION StreamSpec
INVARIANTS
    ReadIsWritten
PROPERTIES
    EveryMessageGot
    GetEndsOrSpins
CHECK_DEADLOCK FALSE
