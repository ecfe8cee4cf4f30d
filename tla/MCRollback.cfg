SPECIFICATION Spec
CONSTANTS
  MaxUpgrades = 2
INVARIANTS
  BootsAWholeVersion
  UnreadyHasFallback
PROPERTIES
  StagedOnce
  ReadyIsKept
CHECK_DEADLOCK FALSE
