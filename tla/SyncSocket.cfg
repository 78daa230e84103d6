CONSTANTS
    Objects = {o1, o2, o3}
    MaxFd = 3
    MaxSockets = 4
SPECIFICATION Spec
INVARIANTS
    RefsExact
    SrcIsOwn
PROPERTY
    SharesDescriptors
CHECK_DEADLOCK FALSE
