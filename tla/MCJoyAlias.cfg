SPECIFICATION MCSpec
CONSTANTS
  SETSIZE = 5
  Spelling <- MCSpelling
  Longest = 3
  Sessions <- MCAliasing
  Residue <- MCResidue
INVARIANT NullaryKeeps
CHECK_DEADLOCK FALSE
