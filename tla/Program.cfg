SPECIFICATION FairSpec
CONSTANTS
    MaxAttempts = 2
    MaxTasks = 3
    ChildKinds <- AllKinds
    CanCancel = TRUE
INVARIANTS
    TreeGoneOnLeave
    NoStragglers
    DeservedErrors
    IInv
PROPERTIES
    TermBeforeKill
    ImplementsBenchmarkable
    WaitReturns
    DeathIsReported
    CancelledStillDies
CHECK_DEADLOCK FALSE
