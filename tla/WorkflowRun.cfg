SPECIFICATION FairSpec
CONSTANTS
    Executor = {e1, e2}
    N = 3
    Kind <- Mixed
    None = None
    MaxTakeovers = 3
    MaxCrashes = 2
INVARIANTS
    EffectAtMostOnce
    RecordedResultsWereSeen
    LaunchIsBound
PROPERTIES
    ImplementsSequentialRun
    RunSettles
CHECK_DEADLOCK FALSE
