SPECIFICATION FairSpec
CONSTANTS
    MaxAttempts = 2
    MaxTasks = 1
    ChildKinds <- AllKinds
    CanCancel = TRUE
    MaxOther = 2
INVARIANTS
    DisplayInv
    SeenByOneOfThem
    EnteredMeansMade
    ServerIsGone
PROPERTIES
    ImplementsBenchmarkable
    CallsEnd
CHECK_DEADLOCK FALSE
