SPECIFICATION MCSpec
CONSTANTS
  MEMORYMAX = 28
  Numbers = {1}
  Names = {"a"}
  Unsafe = {}
  Scripts <- MCScripts
  Longest = 3
  Reach = 4
INVARIANTS TypeOK NoBadNode DefinitionsClosed CollectsExactly
PROPERTIES ImplementsStore
CHECK_DEADLOCK FALSE
