CONSTANTS
    n1 = n1
    n2 = n2
    n3 = n3
    NoNode = NoNode
    Node = {n1, n2, n3}
    MaxCampaigns = 2
    MaxFaults = 1
    MaxCursor = 0
SPECIFICATION Spec
SYMMETRY Symmetry
CHECK_DEADLOCK FALSE
INVARIANTS
    ElectionSafety
    VoteOnce
    WinnersHaveMajority
    PrimariesAreElected
    WinnerIsDisconnected
