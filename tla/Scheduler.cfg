CONSTANT
    Children = {c1, c2}
SPECIFICATION Spec
INVARIANTS
    NoZombieForgotten
    EachDeathOnce
PROPERTY
    EndsOrDeadlocks
CHECK_DEADLOCK FALSE
