SPECIFICATION FairSpec
CONSTANTS
    Schedule = {1}
    Backend = {b1}
    Template = {t1, t2}
    Expression <- Always
    ManualKey = {m1}
    MutationKey = {k1, k2}
    None = None
    MaxMinute = 1
    MaxRevision = 2
    Retained = 1
    MaxTakeovers = 0
    MaxCrashes = 0
INVARIANTS
    TemplateOfItsRevision
    RetryIsAnsweredAlike
PROPERTIES
    PendingSettles
CHECK_DEADLOCK FALSE
