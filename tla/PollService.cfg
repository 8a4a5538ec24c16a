SPECIFICATION FairSpec
CONSTANTS
  Socks = {s1}
  NoSock = none
INVARIANTS NoLostWakeup RemovedIsSilent
PROPERTIES ReadyIsServed TimeoutIsServed JoinEnds
