SPECIFICATION Spec
CONSTANTS
  Reach = 8
\* a computation ends
CHECK_DEADLOCK FALSE
INVARIANTS
  ShapesAreExact
  SymbolsAreRight
  RemotesUnderstood
  FormsArrive
  ClocksReadBack
