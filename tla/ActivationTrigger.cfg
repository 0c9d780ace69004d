SPECIFICATION Spec
CONSTANTS
    Workflow = {1}
    k1 = k1
    k2 = k2
    k3 = k3
    k4 = k4
    k5 = k5
    Key = {k1, k2, k3, k4, k5}
    Submitted <- Editing
    Caller = {c1}
    Backend = {b1}
    Draft <- Drafts
    Trigger = {"every_minute", "unparsable"}
    None = None
    MaxEdges = 3
    Slots = 1
    MaxActive = 1
    MaxWorkflows = 1
    MaxRevision = 4
    MaxMinute = 2
    MaxFaults = 0
INVARIANTS
    ActiveTriggerParses
CHECK_DEADLOCK FALSE
