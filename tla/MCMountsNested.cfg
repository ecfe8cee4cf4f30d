SPECIFICATION FairSpec
CONSTANTS
  ephemeral = ephemeral
  logs = logs
  x = x
  y = y
  z = z
  NoVolume = NoVolume
  Parent <- MCParent
  Wants <- MCWants
  Volumes = {ephemeral, logs}
  Encrypted = {ephemeral}
  Removable = {logs}
  Services = {x}
  MaxRuns = 1
  MaxFails = 0
INVARIANTS
  ParentStaysMounted
PROPERTIES
  Converges
CHECK_DEADLOCK FALSE
