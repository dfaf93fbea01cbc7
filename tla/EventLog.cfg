SPECIFICATION Spec
CONSTANTS
  Ids = {a, b, c}
  Event <- Events
  Torn = Torn
  MaxArrivals = 4
SYMMETRY Symmetry
INVARIANTS
  LogInv
  ReplayIsReference
PROPERTIES
  StateNeverRegresses
\* A log that is full and damaged is neither extended nor replayed.
CHECK_DEADLOCK FALSE
