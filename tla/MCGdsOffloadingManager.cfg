\* The manager: two chunks, two jobs in flight, one reset and any number of
\* crashes.  No symmetry: it is not sound for liveness.
CONSTANTS
  j1 = j1
  j2 = j2
  a = a
  b = b
  Keys = {a, b}
  Jobs = {j1, j2}
  ReportsFailure = FALSE
  MaxResets = 1
  None = None
SPECIFICATION FairSpec
INVARIANTS
  TypeOK
  OneTransferPerChunk
  ProtectedExact
  LoadsArePending
  PendingExact
PROPERTIES
  PendingResolves
