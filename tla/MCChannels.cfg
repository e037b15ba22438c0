CONSTANTS
    None = none
    Coordinators = {c1, c2}
    Videos = {v1}
    OnYouTube = FALSE
    MaxRuns = 2
    MaxLosses = 1
    Flows = {1, 2, 3}
    Callbacks = {"c1", "c2"}
    Readers = {"r1"}
    Instances = {"i1", "i2"}
    Owners = {"o1"}
    Destinations = {"d1", "d2"}
    Requests = {"r1"}
    Jobs = {"j1", "j2"}
    MaxKey = 2
    Slots = 1
    Saveable = {"d1"}
SPECIFICATION EachSpec
INVARIANTS
    BroadcastOnce
    CredentialsAreLive
PROPERTIES
    RunsEndWell
CHECK_DEADLOCK FALSE
