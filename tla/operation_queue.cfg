\* Two operations, leases of two ticks that a revocation may make three, three generations, a crash.
CONSTANTS
  Ops = {1, 2}
  Keys <- MCKeys
  Reclaimable <- MCReclaimable
  Spawn <- MCSpawn
  RunnerKeys <- MCRunnerKeys
  Runners = {r1, r2}
  Workers = {w1}
  NoKey = NoKey
  NoOne = NoOne
  LeaseTime = 2
  MaxAhead = 3
  MaxLeases = 3
  MaxCrashes = 1
SPECIFICATION Spec
INVARIANTS
  TypeOK
  NonReclaimableOnce
PROPERTIES
  LateResultRefused
  UnexpiredLeaseKept
  SuccessIsFinal
