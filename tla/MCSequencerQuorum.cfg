SPECIFICATION Spec
CONSTANTS
  m = m
  a = a
  b = b
  Procs = {m, a, b}
  Main = m
  MaxFails = 1
  Machines <- MCQuorum
INVARIANTS
  QuorumCheckBlocks
CHECK_DEADLOCK FALSE
