SPECIFICATION EachSpec
CONSTANTS
    Segments = 3
    Window = 2
    Chunks = 2
    RequestRetries = 1
    ImportRetries = 2
    Rotations = 2
    Tabs = {"s1", "s2"}
    CloudTabs = {"s1"}
    Clouds = 1
    MaxObjects = 2
    MaxKept = 2
    Room = 1
    Starts = {"p1"}
    Installs = {"i1", "i2"}
    StopStarts = {"p1", "p2"}
    StopInstalls = {"i1"}
    Uninstalls = {"u1"}
    Nobody = "nobody"
    MaxKills = 2
    Launches = {"l1", "l2"}
    MaxJobs = 2
    PinKills = 2
    Edits = {"e", "h"}
    HostEdits = {"h"}
INVARIANTS
    InstallationSurvives
PROPERTIES
    DownloadsAreWhole
    NothingIsLeftBehind
    OwnersFileIsKept
CHECK_DEADLOCK FALSE
