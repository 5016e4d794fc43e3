\* A chunk that is touched, or read back, after another was written is still the
\* first to go.
CONSTANTS
  pathA = pathA
  pathB = pathB
  pathC = pathC
  job1 = job1
  Paths = {pathA, pathB, pathC}
  Size <- Uneven
  MaxBytes = 3
  Jobs = {job1}
  MaxJobs = 2
  None = None
SPECIFICATION RecencySpec
PROPERTY LeastRecentlyUsedFirst
