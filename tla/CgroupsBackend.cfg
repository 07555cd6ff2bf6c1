SPECIFICATION Spec
CONSTANTS
    Names = {"compositor", "client"}
    MaxMem = 2
    MaxCpu = 1
    MaxPoints = 2
INVARIANTS
    BackendInv
    ReportIsSound
PROPERTIES
    WholeSamples
CHECK_DEADLOCK FALSE
