SPECIFICATION Spec
CONSTANTS
  AppThreads = {a1}
  Poll = p
  Workers = {w1}
  Secure = FALSE
  Proxied = FALSE
  MaxOpens = 1
  AppCalls = {"open", "close"}
  CallbackCalls = {}
  ConnectionTimer = FALSE
  PeerErrors = FALSE
PROPERTY ClosedIsFinal
