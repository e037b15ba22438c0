SPECIFICATION EachSpec
CONSTANTS
    Jobs = {"j1", "j2"}
    Until <- UntilThree
    MaxAttempts = 1
    Lease = 2
    Margin = 1
    Reply = 0
    Kill = 0
    Horizon = 3
    SlowJobs = {"j1"}
    SlowUntil <- UntilFive
    SlowAttempts = 2
    SlowLease = 4
    SlowMargin = 3
    SlowReply = 1
    SlowKill = 1
    SlowHorizon = 5
    Attempts = {"a1", "a2"}
    CloudClaims = 1
    CloudFailures = 2
    Ticks = {"t1", "t2"}
    SandboxClaims = 2
    Stuck = {"a1"}
    SandboxFailures = 2
    Items = {"i1"}
    Bucket = 2
    MinDelay = 2
    MaxDelay = 5
    RetryAfter = 4
    MaxDeliveries = 2
    CronAt = 5
    Dues = {0, 3, 7}
    MaxTime = 7
    MaxQueue = 2
    ChainFailures = 1
INVARIANTS
    LeasesAreHonoured
    SlowLeasesAreHonoured
    WakeupsAreKept
PROPERTIES
    CleanedStaysDown
    SharesSlot
    WorkIsServed
CHECK_DEADLOCK FALSE
