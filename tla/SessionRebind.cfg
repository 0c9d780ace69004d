SPECIFICATION Spec
CONSTANTS
    None = None
    i1 = i1
    i2 = i2
    i3 = i3
    Target <- SessionTargets
    Session = {"s1", "s2", "s3"}
    Participant <- People
    InteractionId = {i1, i2, i3}
    CoordinatorOf <- SessionBosses
    WorkerOf <- SessionWorkers
    Wakeable <- OneWakeable
    Instant <- SessionTimes
    WakeOutcome <- Reasons
    CreateRequests <- SessionCreates
    OpenRequests <- SessionOpens
    AnswerRequests <- SessionAnswers
    CompleteRequests <- SessionCompletes
    DeadlineRequests <- Nothing
    ReadRequests <- SessionReads
    WakeRequests <- Nothing
    Moves <- SessionMoves
INVARIANTS
    SessionExclusive
    DeliveriesFenced
    AnswerReachesWorker
CHECK_DEADLOCK FALSE
