CONSTANTS
    n1 = n1
    n2 = n2
    n3 = n3
    NoNode = NoNode
    NoIntent = NoIntent
    NoJob = NoJob
    Node = {n1, n2, n3}
    First = n1
    MaxRows = 2
    MaxPromotions = 2
    MaxFaults = 3
SPECIFICATION FairSpec
CHECK_DEADLOCK FALSE
INVARIANTS
    OneWriter
    WriterHasAllRows
    ReplicasCanFindAPrimary
    PrimaryNeverOutdated
PROPERTIES
    WritableAgain
