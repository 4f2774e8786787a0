CONSTANTS
  Keys = {1, 2, 3, 4, 5, 6}
  Values = {v1}
  NULL = NULL
  Lost = Lost
  MallocMayFail = TRUE
  MaxLost = 1
SPECIFICATION FairSpec
INVARIANTS
  TypeOK
  SearchTree
  ColourRules
PROPERTIES
  ImplementsDict
  FixupEnds
