SPECIFICATION LockSpec
CONSTANTS
  p1 = p1
  p2 = p2
  a = a
  b = b
  Process = {p1, p2}
  WorkerId = {a, b}
  RunId <- run_1
  Step <- OneStep
  Ttl = 2
  Skew = 1
  None = None
  MaxTime = 2
  MaxStarts = 2
  MaxCrashes = 1
  Scenarios <- AllScenarios
  Pair <- InOrder
  PairId <- Names
INVARIANTS
  LeaseInv
  ExclusiveStepLease
  RacesSettle
  RaceInv
  PassedTogether
  ClaimHolds
PROPERTIES
  FencedSpec
  CallsAreAtomic
\* The workers are done when the bounds are used up.
CHECK_DEADLOCK FALSE
