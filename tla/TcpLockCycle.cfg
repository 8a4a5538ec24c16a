SPECIFICATION Spec
CONSTANTS
  Senders = {a1}
  Poll = poll
  Nobody = nobody
  Socks = {s1, s2}
  NoSock = none
  MaxAddrs = 2
  MaxBytes = 3
INVARIANT NoLockCycle
\* A destroyed transport does nothing.
CHECK_DEADLOCK FALSE
