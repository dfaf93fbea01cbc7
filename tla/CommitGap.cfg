SPECIFICATION FairSpec
CONSTANTS
  Modes <- BothModes
  RunId <- run_1
  Step <- TwoSteps
  None = None
  MaxCrashes = 4
INVARIANTS
  GapInv
  EffectsAccountedFor
  ReconciledBeforeWrite
PROPERTIES
  SinkSpec
  EveryStepCompletes
\* When every step is completed no worker has anything to do.
CHECK_DEADLOCK FALSE
