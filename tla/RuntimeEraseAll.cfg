SPECIFICATION Spec
CONSTANTS
  Sockets = {w1, w2}
  Timed = {w1}
  Watched = {w2}
  Workers = {k1, k2}
  MaxPayloads = 2
  MaxCleanups = 2
INVARIANT EraseAllReturns
CHECK_DEADLOCK FALSE
