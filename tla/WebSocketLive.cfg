SPECIFICATION FairSpec
CONSTANTS
  AppThreads = {a1}
  Poll = p
  Workers = {w1}
  Secure = FALSE
  Proxied = TRUE
  MaxOpens = 1
  AppCalls = {"open", "close"}
  CallbackCalls = {"close"}
  ConnectionTimer = FALSE
  PeerErrors = TRUE
INVARIANTS TypeOK NoOrphan SingleOwner DetachedSilent
PROPERTIES CallsReturn SentCloseEnds ImplementsLife
CHECK_DEADLOCK FALSE
