SPECIFICATION SuiteSpec
CONSTANTS
  Modes = {"bounded"}
  Task <- Three
  MaxWorkers = 2
  Graph <- LabFixture
  FailSet <- LabFailures
INVARIANTS
  SameReport
\* The suite ends after its second execution.
CHECK_DEADLOCK FALSE
