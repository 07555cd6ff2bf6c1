SPECIFICATION FairSpec
CONSTANTS
    MaxScreen = 3
    Area = 2
    CanFail = TRUE
    WaitForYields = TRUE
    TimesOut = TRUE
INVARIANTS
    TrackerInv
    AccountsEachFrame
    ScreenshotNotStale
PROPERTIES
    EveryChangeTracked
    MatchFindsTemplate
CHECK_DEADLOCK FALSE
