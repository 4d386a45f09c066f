SPECIFICATION Spec
CONSTANTS
  c1 = c1
  c2 = c2
  Calls = {c1, c2}
  Depth = 3
  Workers = 5
  Nested = 3
INVARIANTS
  WorkerLeft
PROPERTY
  CallsComplete
CHECK_DEADLOCK FALSE
