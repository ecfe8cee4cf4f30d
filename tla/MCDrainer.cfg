SPECIFICATION FairDrainerSpec
CONSTANTS
  sink = sink
  kmsg = kmsg
  Sinks = {sink}
  Kmsgs = {kmsg}
  MaxBacklog = 2
  MaxFails = 1
INVARIANTS
  NoLostSignal
  EveryoneTold
PROPERTIES
  BacklogAwaited
  DrainReturns
CHECK_DEADLOCK FALSE
