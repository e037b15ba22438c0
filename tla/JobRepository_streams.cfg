SPECIFICATION Spec
CONSTANTS
    Tenants = {t1, t2}
    MaxJobs = 3
    Requests <- StreamRequests
    MediaDurations = {1}
    AttemptLimits = {1}
    GlobalConcurrency = 2
    TenantConcurrency = 2
    MaxPendingJobs = 3
    ValidationDuration = 1
    RuntimeAllowance = 0
    RetryDelay = 1
    ReservationGrace = 1
    LeaseSeconds = 2
    LongestOutput = 1
    Tolerance = 0
    PastSlack = 0
    Horizon = 4
INVARIANTS
    CapacityReserved
    AdmittedNeverRefused
    SuspendedTenantDrains
SYMMETRY TenantSymmetry
VIEW LiveView
CHECK_DEADLOCK FALSE
