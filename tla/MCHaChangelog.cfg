CONSTANTS
    n1 = n1
    n2 = n2
    n3 = n3
    NoNode = NoNode
    Node = {n1, n2, n3}
    Sqlite = {n1}
    MinMembers = 3
    MaxSeq = 2
    MaxEpoch = 2
    MaxFaults = 2
SPECIFICATION Spec
SYMMETRY Symmetry
CONSTRAINT Clean
VIEW Observed
CHECK_DEADLOCK FALSE
INVARIANTS
    CleanFollowersAgree
    CleanConfirmedSurvives
PROPERTIES
    CleanConfirmedByMajority
