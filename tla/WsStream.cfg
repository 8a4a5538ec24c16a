SPECIFICATION FairSpec
CONSTANTS
  Closers = {c1}
  Setups <- MCSetups
  HeaderLen <- MCHeaderLen
  MaxMessageSize = 2
  MaxControlLength = 1
  SizeMod = 1000
INVARIANTS Aligned InOrder BytesInOrder OneClose HandshakeDecides
PROPERTIES CloseTimesOut SilentPeerIsDropped
CHECK_DEADLOCK FALSE
