SPECIFICATION MCSpec
CONSTANTS
  MEMORYMAX = 28
  Numbers = {1}
  Names = {"a"}
  Unsafe = {"primrec"}
  Scripts <- MCScripts
  Longest = 1
  Reach = 4
INVARIANT NoMovedNode
CHECK_DEADLOCK FALSE
