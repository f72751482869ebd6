SPECIFICATION FairSpec
CONSTANTS
  MaxRetries = 5
  RetryStep = 5
CHECK_DEADLOCK FALSE
INVARIANTS
  TypeOK
  AsksAgainOnlyAfterTransient
  WaitBudget
  PatchesOnlyCompletions
  GivesUpOnlyWhenDone
PROPERTY
  CallReturns
