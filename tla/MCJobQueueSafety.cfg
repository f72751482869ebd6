SPECIFICATION Spec
CONSTANTS
  A = A
  B = B
  R = R
  Class = {A, B}
  Shared = {R}
  None = None
  NJobs = 3
  MaxWorkers = 1
  Faults <- AllFaults
  ThreadedTcl = FALSE
CHECK_DEADLOCK FALSE
SYMMETRY ClassSymmetry
INVARIANTS
  TypeOK
  ActiveAccounting
  ExitIsHonest
  FailedJobsLeaveMainAlone
PROPERTIES
  ImplementsBoard
  NoStaleMerge
