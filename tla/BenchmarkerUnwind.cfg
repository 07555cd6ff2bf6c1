SPECIFICATION Spec
CONSTANTS
    N = 3
    WarningsAreErrors = TRUE
    CanCancel = FALSE
    MaxUses = 1
    MaxDepth = 1
INVARIANTS
    UnwindsOnEnterFailure
CHECK_DEADLOCK FALSE
