CONSTANTS
    o1 = o1
    o2 = o2
    NoRuntime = NoRuntime
    Origin = {o1, o2}
    Static = {}
    Roles = {FALSE}
    PoolAlert = {"pool_unhealthy", "pool_recovered"}
    OtherAlert = {"origin"}
    Silence = "silence"
    Subscribed = {"pool_unhealthy", "pool_recovered"}
    Enabled = {TRUE, FALSE}
    MaxAttempts = 2
    MaxToggles = 1
    FailureThreshold = 2
    RecoveryThreshold = 1
    MaxActive = 2
    MaxFlips = 1
    MaxEdits = 0
    MaxManual = 0
    MaxFaults = 1
SPECIFICATION FairSpec
CHECK_DEADLOCK FALSE
INVARIANTS
    OperatorKnowsThePool
PROPERTIES
    HealthConverges
    OutboxDrains
