CONSTANTS
    n1 = n1
    n2 = n2
    Gone = Gone
    NoSnapshot = NoSnapshot
    NoRelay = NoRelay
    Node = {n1, n2}
    Sqlite = {n1}
    First = n2
    MaxWrites = 2
    MaxTransit = 1
    MaxAdmin = 1
    MaxFaults = 1
    MaxPromotions = 1
SPECIFICATION FairSpec
CHECK_DEADLOCK FALSE
INVARIANTS
    OwnSessionsVisible
    QuietReplicasAgree
PROPERTIES
    ChannelSpec
    RelaysSettle
