SPECIFICATION WireSpec
CONSTANTS
    QueryNames <- Names
    Replies <- SomeReplies
    Signers <- SomeSigners
    Unassigned <- UnassignedOfOneBuild
    MaxQueries = 2
    MaxHops = 20
INVARIANTS
    NamesAreRight
    ServersAreGlue
    AnswerIsRight
CHECK_DEADLOCK FALSE
