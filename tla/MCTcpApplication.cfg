CONSTANTS
  CommandLines <- MCCommandLines
  MaxLevel = 3
  MaxSignals = 2
  MaxUnsigned = 9
  Callers = {t1, t2}
  MaxSessions = 2
  MaxFaults = 2
SPECIFICATION Spec
CHECK_DEADLOCK FALSE
INVARIANT StoppedInOrder
INVARIANT OneOpenSession
INVARIANT OptionsWin
PROPERTY StopsAfterSignal
PROPERTY NobodyForgotten
