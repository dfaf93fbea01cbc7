SPECIFICATION FairSpec
CONSTANTS
  Scenarios <- AllScenarios
  RunId <- run_1
  Step <- privileged_step
  CrashPoints <- Anywhere
  None = None
  MaxCrashes = 3
  MaxRequests = 3
  MaxDeliveries = 4
  MaxCalls = 3
INVARIANTS
  EffectIsApproved
  PauseInv
  BaselineLosesApprovals
PROPERTIES
  DecisionsAreFinal
  RequestedIsSettled
  SinkSpec
\* The worker need not be invoked again once the bounds are used up.
CHECK_DEADLOCK FALSE
