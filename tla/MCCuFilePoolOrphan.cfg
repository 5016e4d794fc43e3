\* A write through a cached handle whose file has been unlinked.
CONSTANTS
  t1 = t1
  t2 = t2
  pathA = pathA
  pathB = pathB
  Threads = {t1, t2}
  Paths = {pathA}
  CacheMax = 1
  MaxFaults = 0
  None = None
SPECIFICATION Spec
SYMMETRY ThreadSymmetry
PROPERTY WriteLands
