\* A refused item fails its store and is passed over in a load.
CONSTANTS
  st = st
  ld = ld
  empty = empty
  s1 = s1
  s2 = s2
  StoreJobs = {st}
  LoadJobs = {ld}
  NumItems <- LoadHeavy
  Slots <- TwoSlots
  NoSlot = NoSlot
  Junk = Junk
  MaxRetries = 1
SPECIFICATION Spec
SYMMETRY SlotSymmetry
INVARIANT RefusedLeavesHole
