SPECIFICATION FairSpec
CONSTANTS
  Run = {r1, r2}
  Budgets <- UpToTwo
  FailOnCalls <- SomeFailures
  None = None
INVARIANTS
  LoopInv
  NoHiddenRetry
  TraceTellsRun
PROPERTIES
  EveryRunEnds
\* Finished runs do nothing more.
CHECK_DEADLOCK FALSE
