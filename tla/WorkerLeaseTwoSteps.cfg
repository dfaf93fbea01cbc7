SPECIFICATION Spec
CONSTANTS
  Process = {p1, p2, p3}
  WorkerId = {a, b}
  RunId <- run_1
  Step <- TwoSteps
  Ttl = 2
  Skew = 0
  None = None
  MaxTime = 2
  MaxStarts = 1
  MaxCrashes = 0
INVARIANTS
  ExclusiveStepLease
\* The workers are done when the bounds are used up.
CHECK_DEADLOCK FALSE
