\* A chunk whose file is gone is still a hit, without resets and with a connector
\* that reports failed stores.
CONSTANTS
  j1 = j1
  j2 = j2
  a = a
  b = b
  Keys = {a, b}
  Jobs = {j1, j2}
  ReportsFailure = TRUE
  MaxResets = 0
  None = None
SPECIFICATION Spec
INVARIANT AbsentMisses
