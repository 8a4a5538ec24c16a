SPECIFICATION Spec
CONSTANTS
  AppThreads = {a1}
  Poll = p
  Workers = {w1}
  Secure = TRUE
  Proxied = FALSE
  MaxOpens = 1
  AppCalls = {"open"}
  CallbackCalls = {}
  ConnectionTimer = FALSE
  PeerErrors = FALSE
INVARIANT NoMutualWait
