SPECIFICATION FairSpec
CONSTANTS
  Modes <- AllModes
  Task <- Three
  MaxWorkers = 2
  Graph <- AllGraphs
  FailSet <- AnyFailures
INVARIANTS
  SchedulerInv
  FinalOutcome
PROPERTIES
  GraphSpec
  Terminates
\* The main thread returns.
CHECK_DEADLOCK FALSE
