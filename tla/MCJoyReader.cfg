SPECIFICATION MCSpec
CONSTANTS
  Files <- MCFiles
  Sessions <- MCSessions
  Builtins <- MCBuiltins
  INPSTACKMAX = 4
  DISPLAYMAX = 6
  Longest = 3
INVARIANTS TypeOK ResolvesLexically SectionsClosed
PROPERTIES InputEnds
CHECK_DEADLOCK FALSE
