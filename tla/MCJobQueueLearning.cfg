SPECIFICATION FairSpec
CONSTANTS
  A = A
  B = B
  R = R
  Class = {A, B}
  Shared = {R}
  None = None
  NJobs = 3
  MaxWorkers = 1
  Faults <- LearningFaults
  ThreadedTcl = TRUE
CHECK_DEADLOCK FALSE
INVARIANTS
  ExemplarsAreVerified
  LaterJobsLearn
PROPERTY
  SupervisorEnds
