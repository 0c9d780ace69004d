SPECIFICATION FairSpec
CONSTANTS
  Operation = {o1, o2}
  Caller = {c1, c2}
  Attempt = {a1, a2}
  Plain = plain
  None = None
  o1 = o1
  o2 = o2
  c1 = c1
  c2 = c2
  a1 = a1
  a2 = a2
  Plan <- MCPlan
  MaxEvents = 10
  MaxSessions = 2
  MaxFaults = 1
INVARIANTS
  CommittedStagesHappened
  StopIsTruthful
PROPERTIES
  PromptNotReplayed
  FrozenByStop
  StopSettles
CHECK_DEADLOCK FALSE
