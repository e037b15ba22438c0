SPECIFICATION EachSpec
CONSTANTS
    j1 = j1
    j2 = j2
    s1 = s1
    s2 = s2
    Jobs <- TwoJobs
    Services <- OneService
    Owner <- OneOwner
    MaxAttempts = 2
    SharedCapacity = FALSE
INVARIANTS
    ClaimsHaveWorkers
    StreamsOneAtATime
PROPERTIES
    StopIsFinal
    ClaimsComeToAnEnd
VIEW Present
