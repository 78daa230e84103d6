CONSTANTS
    r1 = r1
    r2 = r2
    s = s
    Servers = {r1, r2, s}
    hostServers <- Roots
    Replies <- AllReplies
SPECIFICATION Spec
INVARIANTS
    StackIsThePath
    PathIsDelegation
PROPERTY
    Terminates
CHECK_DEADLOCK FALSE
