SPECIFICATION Spec
CONSTANTS
  ephemeral = ephemeral
  logs = logs
  x = x
  y = y
  z = z
  NoVolume = NoVolume
  Parent <- MCParent
  Wants <- MCWants
  Volumes = {ephemeral}
  Encrypted = {ephemeral}
  Removable = {}
  Services = {y, z}
  MaxRuns = 3
  MaxFails = 1
SYMMETRY Permute
INVARIANTS
  UsedIsMounted
  MountIsTracked
CHECK_DEADLOCK FALSE
