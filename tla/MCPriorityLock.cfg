SPECIFICATION FairSpec
CONSTANTS
  Procs = {p1, p2, p3}
  Requests <- MCRequests
  MaxCalls = 1
INVARIANTS
  TokensConserved
  OneLiveContext
  PriorityIsCurrent
PROPERTIES
  ImplementsSequenceLock
  TakeoverSucceeds
