\* Liveness of the worker and its abstract specification: two store items and a load
\* item compete for a single ring slot, next to a store without chunks; retries
\* are left to the run for safety.  No symmetry: it is not sound for liveness.
CONSTANTS
  st = st
  ld = ld
  empty = empty
  s1 = s1
  s2 = s2
  StoreJobs = {st, empty}
  LoadJobs = {ld}
  NumItems <- WithEmpty
  Slots = {s1}
  NoSlot = NoSlot
  Junk = Junk
  MaxRetries = 0
SPECIFICATION FairSpec
PROPERTIES
  WaitReturns
  ServiceSpec
