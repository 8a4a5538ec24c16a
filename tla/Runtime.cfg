SPECIFICATION FairSpec
CONSTANTS
  Sockets = {w1, w2}
  Timed = {w1}
  Watched = {w2}
  Workers = {k1, k2}
  MaxPayloads = 2
  MaxCleanups = 2
INVARIANTS TeardownInOrder TokenKeepsInitialized
PROPERTIES TeardownHappens CleanupEnds
\* A process that has cleaned up does nothing.
CHECK_DEADLOCK FALSE
