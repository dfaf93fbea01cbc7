SPECIFICATION FairSpec
CONSTANTS
  Scenarios <- TreatmentOnly
  RunId <- run_1
  Step <- privileged_step
  CrashPoints <- Anywhere
  None = None
  MaxCrashes = 1
  MaxRequests = 1
  MaxDeliveries = 2
  MaxCalls = 2
PROPERTIES
  PauseResolves
\* The worker need not be invoked again once the bounds are used up.
CHECK_DEADLOCK FALSE
