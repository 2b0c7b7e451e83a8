\* Every intent, up to three risk flags in every order.
CONSTANTS
  MaxFlags = 3
  Contracts <- MCContracts
  MAX_NODES = 96
SPECIFICATION Spec
CHECK_DEADLOCK FALSE
INVARIANTS
  RiskIsGated
  WritersInLine
  WorkBeforeReview
