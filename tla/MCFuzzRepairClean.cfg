SPECIFICATION Spec
CONSTANTS
  MaxCompile = 5
  MaxFuzz = 5
INVARIANT SuccessIsZeroError
CHECK_DEADLOCK FALSE
