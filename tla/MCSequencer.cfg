SPECIFICATION FairSpec
CONSTANTS
  m = m
  a = a
  b = b
  Procs = {m, a, b}
  Main = m
  MaxFails = 1
  Machines <- MCMachines
INVARIANTS
  InstallerHasTheDisk
  ResetComplete
  ShutdownPowersOff
CHECK_DEADLOCK FALSE
PROPERTIES
  KexecFresh
  EndsDown
