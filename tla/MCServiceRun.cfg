SPECIFICATION FairSpec
CONSTANT
  Runners <- MCRunners
INVARIANTS
  StopsCleanly
PROPERTIES
  StopTerminates
  RunReturns
  UpIsNotLost
