SPECIFICATION TestsSpec
CONSTANTS
    Mode = 6
    Factors = {1, 2}
    Scales = {2, 4}
    Buttons = {"LEFT"}
    StepDistances = {3}
    MaxSteps = 3
    None = None
    Timeouts = {0, 1, 2}
    MaxChanges = 2
INVARIANTS
    TestsInv
    WatcherKnows
PROPERTIES
    WalkIsGradual
CHECK_DEADLOCK FALSE
