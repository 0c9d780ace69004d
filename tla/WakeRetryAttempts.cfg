SPECIFICATION FairSpec
CONSTANTS
    None = None
    d1 = d1
    d2 = d2
    Delivery = {d1, d2}
    Sending = {1}
    Dispatches <- TwoDispatches
    Reaches <- LastReachesSecond
    Limit = 4
    PerTick = 1
    MaxCrashes = 0
PROPERTIES
    RefusedIsRetried
CHECK_DEADLOCK FALSE
