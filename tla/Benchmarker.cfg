SPECIFICATION FairSpec
CONSTANTS
    N = 3
    WarningsAreErrors = TRUE
    CanCancel = TRUE
    MaxUses = 3
    MaxDepth = 2
INVARIANTS
    AllUnwound
    ExitsInReverse
    PollOnlyWhileEntered
    NothingSilent
    BenchmarkerInv
PROPERTIES
    ExitEnds
CHECK_DEADLOCK FALSE
