SPECIFICATION Spec
CONSTANTS
    N = 2
    WarningsAreErrors = TRUE
    CanCancel = FALSE
    MaxUses = 1
    MaxDepth = 1
PROPERTIES
    ReadFailuresIgnored
CHECK_DEADLOCK FALSE
