SPECIFICATION Spec
CONSTANTS
    Schedule = {1}
    Backend = {b1}
    Template = {t1}
    Expression <- Always
    ManualKey = {}
    MutationKey = {k1}
    None = None
    MaxMinute = 2
    MaxRevision = 1
    Retained = 1
    MaxTakeovers = 0
    MaxCrashes = 0
PROPERTIES
    MissingReportsAreKept
CHECK_DEADLOCK FALSE
