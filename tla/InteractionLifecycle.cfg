SPECIFICATION FairSpec
CONSTANTS
    None = None
    i1 = i1
    i2 = i2
    i3 = i3
    Target <- Targets
    Session = {"s1", "s2"}
    Participant <- People
    InteractionId = {i1, i2, i3}
    CoordinatorOf <- Bosses
    WorkerOf <- Workers
    Wakeable <- OneWakeable
    Instant <- LifecycleTimes
    WakeOutcome <- Reasons
    CreateRequests <- LifecycleCreates
    OpenRequests <- LifecycleOpens
    AnswerRequests <- LifecycleAnswers
    CompleteRequests <- LifecycleCompletes
    DeadlineRequests <- DeadlineSets
    ReadRequests <- Nothing
    WakeRequests <- Nothing
    Moves <- Nothing
INVARIANTS
    TypeOK
    BlockedByItsOpenDecision
    EachRevisionSpentOnce
    EventsAccounted
    OverdueOncePerSetting
    NothingAfterCompletion
PROPERTIES
    HistoryIsPermanent
    OverdueIsReported
CHECK_DEADLOCK FALSE
