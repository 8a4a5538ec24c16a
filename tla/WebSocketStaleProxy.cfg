SPECIFICATION Spec
CONSTANTS
  AppThreads = {a1}
  Poll = p
  Workers = {w1}
  Secure = FALSE
  Proxied = TRUE
  MaxOpens = 2
  AppCalls = {"open"}
  CallbackCalls = {}
  ConnectionTimer = FALSE
  PeerErrors = FALSE
INVARIANT ProxyOnCurrentTcp
