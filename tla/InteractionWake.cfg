SPECIFICATION FairSpec
CONSTANTS
    None = None
    d1 = d1
    d2 = d2
    Delivery = {d1, d2}
    Sending = {1, 2}
    Dispatches <- TwoDispatches
    Reaches <- LastReachesSecond
    Limit = 4
    PerTick = 2
    MaxCrashes = 1
INVARIANTS
    TypedAtMostOnce
    ReceiptIsTruthful
PROPERTIES
    RefusedIsRetried
CHECK_DEADLOCK FALSE
