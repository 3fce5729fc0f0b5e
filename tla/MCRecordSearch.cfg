SPECIFICATION SearchSpec
CONSTANTS
  First = 2
  Last = 13
  Item = 2
  Skip = 2
  MaxDate = 7
  Full = FALSE
\* The search is over.
CHECK_DEADLOCK FALSE
INVARIANTS
  ExactFound NearestFound
PROPERTIES
  Terminates
