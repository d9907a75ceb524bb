CONSTANTS
    e1 = e1
    a = a
    b = b
    q1 = q1
    q2 = q2
    t1 = t1
    t2 = t2
    Gone = Gone
    Entity = {e1}
    Config = {a, b}
    Request = {q1, q2}
    Round = {t1, t2}
    MaxAttempts = 2
    MaxRows = 2
    MaxRequests = 2
    MaxFaults = 1
SPECIFICATION FairSpec
CHECK_DEADLOCK FALSE
INVARIANTS
    OutcomesAreTrue
    OneChangeUnlessRaced
    StreamsRunTheirRow
PROPERTIES
    AppliedIsFinal
    ChangesSettle
