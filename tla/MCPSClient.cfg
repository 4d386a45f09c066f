SPECIFICATION Spec
CONSTANTS
  c1 = c1
  c2 = c2
  Calls = {c1, c2}
  Timeout = 2
  MaxCloseTasks = 1
  None = None
SYMMETRY CallSymmetry
INVARIANTS
  NoLostWakeup
  NoEarlyDiscard
  ClosedIsShut
PROPERTY
  ImplementsRemoteCall
