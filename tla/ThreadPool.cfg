\* Two workers, a queue of at most two jobs so that some are refused, one job
\* that may hang.
SPECIFICATION FairSpec
CONSTANTS
  Workers = {w1, w2}
  Jobs = {j1, j2, j3, j4}
  MaxQueued = 2
  Ending = {j1, j2, j3}
  Null = Null
INVARIANTS
  NoStrandedJob
  DrainedAtClose
PROPERTIES
  ImplementsQueue
  EndingJobIsDone
  ShutdownReturns
CHECK_DEADLOCK FALSE
