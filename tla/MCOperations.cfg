SPECIFICATION EachSpec
CONSTANTS
    Processes = {p1, p2}
    None = none
    Collectors = {k1, k2}
    Couriers = {d1}
    Codes = {1, 2}
    Cooldown = 1
    Retention = 2
    MaxTime = 3
    MaxAlerts = 2
    NoticeLease = 2
    Budget = 1
    QuotaTime = 3
    MaxNotices = 3
    Sessions = {"s1", "s2"}
    Requests = {"r1"}
    Clients = {"c1"}
    Lifetime = 2
    MaxActive = 1
    MaxJobs = 1
    Limit = 1
    Window = 1
    MaxClients = 1
    PublicKills = 1
    PublicTime = 4
    Order <- ApiThenWeb
    MaxOutside = 1
    Jobs = {"j1"}
    SignIns = {"l1"}
    Imports = {"m1"}
    Files = {"f1"}
    RestoreKills = 1
    Rows = {1, 2, 3}
    Others = {"other"}
    SweepTime = 3
    MaxBatch = 2
    GlobalConcurrency = 3
    TenantConcurrency = 2
SYMMETRY Symmetry
INVARIANTS
    SweepIsExact
PROPERTIES
    AlertsSentOnce
    NoticesSentOnce
    AWayBack
CHECK_DEADLOCK FALSE
