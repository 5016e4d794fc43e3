\* Three chunks of five units in all against a budget of three, which sweeps
\* press back to two; two transfers, of one chunk or of two, and any number of
\* restarts.
CONSTANTS
  pathA = pathA
  pathB = pathB
  pathC = pathC
  job1 = job1
  job2 = job2
  Paths = {pathA, pathB, pathC}
  Size <- Uneven
  MaxBytes = 3
  Jobs = {job1, job2}
  MaxJobs = 2
  None = None
SPECIFICATION FairSpec
INVARIANT TypeOK
PROPERTIES
  JobsSpared
  EnoughFreed
  OldestFirst
  BudgetRestored
