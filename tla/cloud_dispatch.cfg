\* Three dispatchers of one call, two requests, two faults.
CONSTANTS
  Dispatchers = {d1, d2, d3}
  Requests = {r1, r2}
  NoOne = NoOne
  MaxFaults = 2
SPECIFICATION Spec
CHECK_DEADLOCK FALSE
SYMMETRY Symmetric
INVARIANTS
  AcceptedOnce
  RowTellsProvider
  UsageCountedOnce
