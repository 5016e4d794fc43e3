\* The handle cache and the files: two IO threads, two chunk files and a cache of one handle.
CONSTANTS
  t1 = t1
  t2 = t2
  pathA = pathA
  pathB = pathB
  Threads = {t1, t2}
  Paths = {pathA, pathB}
  CacheMax = 1
  MaxFaults = 2
  None = None
SPECIFICATION Spec
SYMMETRY PoolSymmetry
VIEW CacheView
INVARIANTS
  TypeOK
  RefsExact
  CachedOpen
  GoodFileSurvives
  NoGhostFile
PROPERTIES
  ClosedByFailureOnly
