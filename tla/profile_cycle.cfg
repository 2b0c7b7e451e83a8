\* Every intent, at most one risk flag.
CONSTANTS
  MaxFlags = 1
  Contracts <- MCContracts
  MAX_NODES = 96
SPECIFICATION Spec
CHECK_DEADLOCK FALSE
INVARIANTS
  OverlaysCompose
