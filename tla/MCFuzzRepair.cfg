SPECIFICATION FairSpec
CONSTANTS
  MaxCompile = 5
  MaxFuzz = 5
INVARIANTS TypeOK RepairBudget SuccessWasExercised
PROPERTIES HarnessFollowsClass LoopEnds
CHECK_DEADLOCK FALSE
