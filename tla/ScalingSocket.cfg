CONSTANTS
    Objects = {o1, o2, o3}
    MaxFd = 3
    MaxCounters = 4
SPECIFICATION Spec
INVARIANT
    CountsExact
PROPERTY
    SharesDescriptors
CHECK_DEADLOCK FALSE
