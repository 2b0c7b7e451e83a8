\* A critic beside a writer, a controller node behind them and a skipped node;
\* three faults of any kind.
CONSTANTS
  Order <- TeamOrder
  Analyst = "analyst"
  Deps <- TeamDeps
  When <- TeamWhen
  Always = "ALWAYS"
  Controllers = {"verification"}
  Writers = {"implementer"}
  Reviewers = {"critic"}
  Blocking = "BLOCKING"
  Selected = {"HIGH_RISK"}
  RetryLimit = 3
  NoHandler = NoHandler
  MaxAttempts = 4
  MaxFaults = 3
SPECIFICATION FairSpec
INVARIANTS
  TypeOK
  AcceptedMeansWorked
  DependenciesFirst
  NothingStranded
  OneWriter
  RetriesSurvive
PROPERTIES
  AcceptedForGood
  RunSettles
