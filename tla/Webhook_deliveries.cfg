SPECIFICATION FairSpec
CONSTANTS
    PRs = {p1, p2}
    p1 = p1
    p2 = p2
    Shas = {s1, s2}
    s1 = s1
    s2 = s2
    Runner = TRUE
    TTL = 2
    MaxTime = 2
    MaxDeliveries = 2
    Nothing = Nothing
PROPERTIES
    EveryDeliveryAnswered
INVARIANTS
    TypeOK
    SuccessIsItsOwn
    HitsAreFresh
CHECK_DEADLOCK FALSE
