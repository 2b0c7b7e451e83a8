\* Two calls at a time, one node behind the analyst, a repeated createRun, one fault.
CONSTANTS
  MaxCalls = 3
  MaxActive = 2
  Nodes = {n1}
  MaxSends = 2
  MaxFaults = 1
SPECIFICATION FairSpec
CHECK_DEADLOCK FALSE
INVARIANTS
  OneAuthor
  AnsweredMeansQueued
PROPERTIES
  RunComesToRest
  AcceptanceResumes
  ImplementsLifecycle
