SPECIFICATION Spec
CONSTANTS
    Schedule = {1}
    Backend = {b1, b2}
    Template = {t1}
    Expression <- Always
    ManualKey = {}
    MutationKey = {k1}
    None = None
    MaxMinute = 2
    MaxRevision = 1
    Retained = 1
    MaxTakeovers = 1
    MaxCrashes = 1
INVARIANTS
    TypeOK
    AdmittedOnce
    LaunchNamesItsRow
PROPERTIES
    OutcomeIsFinal
    OnlyOldOutcomesGo
CHECK_DEADLOCK FALSE
