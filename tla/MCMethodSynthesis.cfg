SPECIFICATION FairSpec
CONSTANTS
  init = init
  process = process
  main = main
  Methods <- ThreeMethods
  Header = header
  Text = {t1}
  Stub = stub
  MaxTries = 3
  MaxRuns = 2
  NoFile = NoFile
INVARIANTS TypeOK SuccessIsComplete CallBudget VerifiedSurvives PatchMissesOnlyAfterStray
PROPERTY RunsEnd
CHECK_DEADLOCK FALSE
