SPECIFICATION Spec
CONSTANTS
  Requests = {c1, c2, c3}
  MaxCoords = 4
INVARIANTS
  SharedUnlessRemoved
PROPERTY
  UnusedIsRemoved
CHECK_DEADLOCK FALSE
