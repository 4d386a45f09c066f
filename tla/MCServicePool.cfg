SPECIFICATION Spec
CONSTANTS
  c1 = c1
  c2 = c2
  c3 = c3
  Clients = {c1, c2, c3}
  TypedClients = {c3}
  Addresses <- MCAddresses
  Limit = 2
  Checkable = TRUE
  None = None
INVARIANTS
  HoldersExclusive
  WithinLimit
PROPERTY
  ImplementsLeasePool
