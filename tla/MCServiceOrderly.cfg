SPECIFICATION Spec
CONSTANTS
  a = a
  b = b
  c1 = c1
  c2 = c2
  Services = {a, b}
  DependsOn <- MCDependsOn
  Preloaded = {a, b}
  Clients = {c1, c2}
  Ops <- MCOps
  StarterOps = {"start", "restart"}
  StopperOps = {"stop", "stopRev", "shutdown"}
  MayExit = {b}
  CleanupMayFail = TRUE
  MaxCalls = 2
  MaxRuns = 2
  MaxRunners = 2
INVARIANTS
  RunsExact
  DependenciesFirst
PROPERTIES
  ReverseDependenciesFirst
CHECK_DEADLOCK FALSE
