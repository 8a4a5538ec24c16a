SPECIFICATION Spec
CONSTANTS
  Closers = {c1}
  Setups <- MCSetups
  HeaderLen <- MCHeaderLen
  MaxMessageSize = 2
  MaxControlLength = 1
  SizeMod = 1000
INVARIANT ConnectionUpgraded
CHECK_DEADLOCK FALSE
