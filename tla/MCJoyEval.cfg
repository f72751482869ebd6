SPECIFICATION MCSpec
CONSTANTS
  SETSIZE = 5
  Spelling <- MCSpelling
  Longest = 3
  Sessions <- MCSessions
  Residue <- MCResidue
INVARIANTS TypeOK DumpsBalanced Agrees SavedIntact
PROPERTIES ProgramsIntact
CHECK_DEADLOCK FALSE
