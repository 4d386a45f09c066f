CONSTANTS
  i1 = i1
  i2 = i2
  k1 = k1
  k2 = k2
  Slots = {k1, k2}
  Interfaces = {i1, i2}
  Known <- KnownDef
  MaxIds = 3
SYMMETRY Symmetry
SPECIFICATION Spec
INVARIANT ProxyHasStub ClosedForCause ResultsOwned
CHECK_DEADLOCK FALSE
