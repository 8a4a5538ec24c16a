SPECIFICATION FairSpec
CONSTANTS
  AppThreads = {a1}
  Poll = p
  Workers = {w1}
  Secure = TRUE
  Proxied = FALSE
  MaxOpens = 1
  AppCalls = {"open"}
  CallbackCalls = {}
  ConnectionTimer = TRUE
  PeerErrors = FALSE
PROPERTIES CallsReturn LostConnectionIsClosed ClosedIsAnnounced
CHECK_DEADLOCK FALSE
