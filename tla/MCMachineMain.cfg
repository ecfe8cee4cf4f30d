SPECIFICATION FairSpec
CONSTANTS
  m = m
  api = api
  sig = sig
  Procs = {m, api, sig}
  Main = m
  Listener = sig
  Asks <- MCAsks
INVARIANTS
  WatchRevertsOnlyFailures
  ControllersEndFirst
PROPERTIES
  EventIsHandled
  ReturnReboots
CHECK_DEADLOCK FALSE
