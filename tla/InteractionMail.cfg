SPECIFICATION Spec
CONSTANTS
    None = None
    i1 = i1
    i2 = i2
    i3 = i3
    Target <- Targets
    Session = {"s1", "s2", "s3"}
    Participant <- People
    InteractionId = {i1, i2, i3}
    CoordinatorOf <- Bosses
    WorkerOf <- Workers
    Wakeable <- OneWakeable
    Instant <- MailTimes
    WakeOutcome <- Reasons
    CreateRequests <- MailCreates
    OpenRequests <- MailOpens
    AnswerRequests <- Nothing
    CompleteRequests <- Nothing
    DeadlineRequests <- Nothing
    ReadRequests <- MailReads
    WakeRequests <- Wakes
    Moves <- MailMoves
INVARIANTS
    AcknowledgedPrefix
PROPERTIES
    HistoryIsPermanent
    UncertainWakeIsSettled
CHECK_DEADLOCK FALSE
