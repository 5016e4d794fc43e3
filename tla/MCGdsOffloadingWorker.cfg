\* Safety of the worker: one store item and two load items on two ring slots.
CONSTANTS
  st = st
  ld = ld
  empty = empty
  s1 = s1
  s2 = s2
  StoreJobs = {st}
  LoadJobs = {ld}
  NumItems <- LoadHeavy
  Slots <- TwoSlots
  NoSlot = NoSlot
  Junk = Junk
  MaxRetries = 1
SPECIFICATION Spec
SYMMETRY SlotSymmetry
INVARIANTS
  TypeOK
  SlotExclusive
  NoSlotLost
  AsyncOwned
  OneResultPerJob
  SuccessIsTrue
  FailureIsTrue
  DataIntact
  RetryDataValid
