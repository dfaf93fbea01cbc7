SPECIFICATION Spec
CONSTANTS
  Caller = {c1, c2, c3}
  Key = {k1, k2}
  NoKey = NoKey
  MaxAttempts = 3
INVARIANTS
  WriteInv
PROPERTIES
  SinkSpec
\* All calls end.
CHECK_DEADLOCK FALSE
