\* A review with blocking findings and the repair tail of a write profile; no faults.
CONSTANTS
  Order <- RepairOrder
  Analyst = "analyst"
  Deps <- RepairDeps
  When <- RepairWhen
  Always = "ALWAYS"
  Controllers = {"verification"}
  Writers = {"implementer", "repair"}
  Reviewers = {"reviewer", "fresh"}
  Blocking = "BLOCKING"
  Selected = {}
  RetryLimit = 3
  NoHandler = NoHandler
  MaxAttempts = 1
  MaxFaults = 0
SPECIFICATION Spec
INVARIANT
  AcceptedMeansWorked
