SPECIFICATION FairSpec
CONSTANTS
  a = a
  b = b
  c1 = c1
  c2 = c2
  Services = {a, b}
  DependsOn <- MCDependsOn
  Preloaded = {a}
  Clients = {c1, c2}
  Ops <- MCOps
  StarterOps = {"load", "start", "unload"}
  StopperOps = {"shutdown", "unload"}
  MayExit = {a}
  CleanupMayFail = FALSE
  MaxCalls = 2
  MaxRuns = 2
  MaxRunners = 2
PROPERTIES
  ShutdownStopsAll
  ShutdownReturns
CHECK_DEADLOCK FALSE
