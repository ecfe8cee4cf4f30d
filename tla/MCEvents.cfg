SPECIFICATION FairSpec
CONSTANTS
  p1 = p1
  p2 = p2
  Publishers = {p1, p2}
  Consumers = {c1}
  Options <- MCOptions
  Cap = 3
  Gap = 1
  MaxEvents = 5
INVARIANTS
  NoOverwrittenRead
  NothingSkipped
  NoLostWakeup
  GapKept
PROPERTIES
  GoroutineEnds
CHECK_DEADLOCK FALSE
