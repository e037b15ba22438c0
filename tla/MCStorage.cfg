CONSTANTS
    Uploads = {"u1"}
    Locals = {"j1"}
    Imports = {}
    Attempts = 2
    Sizes = {1}
    Budget = 2
    MaxImport = 3
    MaxStorage = 3
    MaxMedia = 2
    Ttl = 1
    TransferTime = 1
    Backoff = 1
    MaxFailures = 1
    Horizon = 3
    Handlers = {"h1", "h2", "h3"}
    CrashHandlers = {"h1", "h2"}
    MaxTasks = 1
    Streams = {"s1", "s2"}
    Files = {"f1"}
    FileRemoves = {"r1", "r2"}
    Copies = {"u1", "u2"}
    Downloads = {"d1", "d2"}
    CopyRemoves = {"r1"}
    Checked = FALSE
    none = none
    Size = 2
    MaxKills = 1
SPECIFICATION EachSpec
INVARIANTS
    ObjectsAccounted
    QuotaHolds
PROPERTIES
    ImportsAreCharged
    DeviceImportsSettle
    ObjectsAreWhole
CHECK_DEADLOCK FALSE
