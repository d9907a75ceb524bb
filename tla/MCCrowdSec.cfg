CONSTANTS
    banShort = banShort
    banLong = banLong
    captcha = captcha
    lapi1 = lapi1
    lapi2 = lapi2
    Decision = {banShort, banLong, captcha}
    Ban = {banShort, banLong}
    Expiry <- Deadline
    Never = Never
    NoDecision = NoDecision
    Source = {lapi1, lapi2}
    MaxTime = 1
    MaxIssued = 2
    MaxSaves = 2
    MaxFaults = 1
SPECIFICATION FairSpec
CHECK_DEADLOCK FALSE
INVARIANTS
    HeldDecisionsCurrent
    StrongestWins
    DisabledIsEmpty
PROPERTY
    DriftIsCorrected
