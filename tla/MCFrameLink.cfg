SPECIFICATION LinkSpec
CONSTANTS
  m1 = m1
  m2 = m2
  m3 = m3
  Messages = {m1, m2, m3}
  Size <- MCSize
  HeaderBytes = 2
  MaxRead = 8
  MaxWrites = 3
INVARIANTS
  Intact
  StreamKept
PROPERTY
  FirstArrives
CHECK_DEADLOCK FALSE
