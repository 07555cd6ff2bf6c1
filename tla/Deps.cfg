SPECIFICATION FairSpec
CONSTANTS
    Tests = 3
    Marks <- TestMarks
    Server <- TestServer
    XdgMarks <- TestXdg
    EnvMarks <- TestEnv
    Debs = {"mir-test-tools", "mir-graphics-drivers-desktop"}
    Snaps = {"mir-test-tools"}
    NoSnap = "no snap"
    Pips = {"rpaframework"}
    Vars = {"XDG_CONFIG_HOME", "GSETTINGS_BACKEND"}
    Values = {"host", "xdg", "near", "far"}
    MaxTrouble = 3
INVARIANTS
    DepsInv
    SkipMeansReady
    EnvironmentKept
PROPERTIES
    SessionEnds
CHECK_DEADLOCK FALSE
