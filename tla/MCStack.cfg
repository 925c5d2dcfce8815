SPECIFICATION Spec
CONSTANTS
  Elems = {1, 2, 3, 4}
  capacity = 4
  marked = TRUE
INVARIANTS
  IndexInverse
PROPERTIES
  EachCallExact
