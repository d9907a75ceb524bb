CONSTANTS
    t1 = t1
    t2 = t2
    t3 = t3
    p1 = p1
    p2 = p2
    Task = {t1, t2, t3}
    Promotion = {p1, p2}
    MaxOps = 2
    MaxCommits = 2
SPECIFICATION Spec
SYMMETRY Symmetry
INVARIANTS
    LeaseAccounting
    PromotionExcludesWrites
    NoLostDrain
PROPERTY
    NoCommitBehindBarrier
