SPECIFICATION Spec
CONSTANTS
  Caller = {c1, c2}
  Action = {append, delete}
  allowed_actions = {append}
  Key = {k1, k2}
  Bad = Bad
  Unhashable = Unhashable
  MaxCalls = 3
INVARIANTS
  NoEffectBehindTimeout
  CallsAccountedFor
  GatewayInv
PROPERTIES
  SinkSpec
\* All calls end.
CHECK_DEADLOCK FALSE
