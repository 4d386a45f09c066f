CONSTANTS
  r1 = r1
  r2 = r2
  w1 = w1
  w2 = w2
  Calls = {r1, r2}
  Foreign = {f1}
  Requests = {r1, r2, f1}
  Clients = {"a"}
  Ids = {"a"}
  IdOf <- MCIdOf
  Workers = {w1, w2}
  SessionTimeout = 1
  MaxTime = 1
  MaxObjects = 3
  MaxSockets = 2
  MaxFaults = 1
SPECIFICATION Spec
CHECK_DEADLOCK FALSE
INVARIANT RepliesOwned
INVARIANT SharedSession
INVARIANT SocketsInUse
SYMMETRY Symmetry
