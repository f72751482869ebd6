SPECIFICATION Spec
CONSTANTS
  init = init
  process = process
  main = main
  Methods <- TwoMethods
  Header = header
  Text = {t1}
  Stub = stub
  MaxTries = 3
  MaxRuns = 1
  NoFile = NoFile
INVARIANT RetryIsAboutTheFailure
CHECK_DEADLOCK FALSE
