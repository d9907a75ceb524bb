CONSTANTS
    n1 = n1
    n2 = n2
    n3 = n3
    NoNode = NoNode
    Node = {n1, n2, n3}
    MaxCampaigns = 1
    MaxFaults = 1
    MaxCursor = 0
SPECIFICATION FairSpec
CHECK_DEADLOCK FALSE
INVARIANT
    TypeOK
PROPERTY
    CampaignEnds
