SPECIFICATION Spec
CONSTANTS
  Carriers = {k1, k2}
  Apps = {a1}
  Limit = 1
  MaxMsgs = 2
  Binary = {2}
  Poll = poll
  Stopper = stopper
  Nobody = nobody
  Setups <- MCSetups
  InLimit = 1
INVARIANT MessagesInOrder
\* A connection that has ended stops.
CHECK_DEADLOCK FALSE
