SPECIFICATION Spec
CONSTANTS
    MaxAttempts = 2
    MaxTasks = 2
    ChildKinds <- NoChildren
    CanCancel = TRUE
INVARIANTS
    CancelledWhenProcessEnds
CHECK_DEADLOCK FALSE
