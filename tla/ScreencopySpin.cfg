SPECIFICATION FairSpec
CONSTANTS
    MaxScreen = 2
    Area = 1
    CanFail = FALSE
    WaitForYields = FALSE
    TimesOut = FALSE
PROPERTIES
    MatchFindsTemplate
CHECK_DEADLOCK FALSE
