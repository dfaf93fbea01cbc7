SPECIFICATION FairSpec
CONSTANTS
  Modes <- BothModes
  Task = {a, b}
  TotalSteps = 3
  None = None
  Damaged = Damaged
  MaxCrashes = 3
  MaxDamages = 1
INVARIANTS
  CheckpointInv
  ResumesInOrder
PROPERTIES
  ForeignUntouched
  EveryTaskEnds
\* When every task is done no worker has anything to do.
CHECK_DEADLOCK FALSE
