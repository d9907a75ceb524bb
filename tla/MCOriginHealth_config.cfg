CONSTANTS
    o1 = o1
    o2 = o2
    NoRuntime = NoRuntime
    Origin = {o1}
    Static = {}
    Roles = {FALSE, TRUE}
    PoolAlert = {"pool_unhealthy", "pool_recovered"}
    OtherAlert = {"origin"}
    Silence = "silence"
    Subscribed = {}
    Enabled = {TRUE}
    MaxAttempts = 2
    MaxToggles = 0
    FailureThreshold = 1
    RecoveryThreshold = 1
    MaxActive = 1
    MaxFlips = 0
    MaxEdits = 2
    MaxManual = 1
    MaxFaults = 1
SPECIFICATION FairSpec
CHECK_DEADLOCK FALSE
INVARIANTS
    RuntimeFollowsConfig
PROPERTIES
    HealthConverges
