SPECIFICATION FairSpec
CONSTANTS
    Tenants = {t1}
    MaxJobs = 2
    Requests <- SingleRequests
    MediaDurations = {1}
    AttemptLimits = {3}
    GlobalConcurrency = 2
    TenantConcurrency = 1
    MaxPendingJobs = 2
    ValidationDuration = 1
    RuntimeAllowance = 1
    RetryDelay = 1
    ReservationGrace = 1
    LeaseSeconds = 2
    LongestOutput = 0
    Tolerance = 0
    PastSlack = 0
    Horizon = 10
INVARIANTS
    LeaseInsideReservation
    SecretOnlyWhileNeeded
    CancelIsFinal
    RuntimeMirrorsJob
    EnvelopeCoversRetries
PROPERTIES
    LostLeaseNeverRetried
    TerminalIsFinal
    EveryJobEnds
VIEW LiveView
CHECK_DEADLOCK FALSE
