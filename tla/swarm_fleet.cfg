SPECIFICATION FleetSpec
CONSTANTS
  Node <- Mixed
  Eligible <- Mixed
  Real <- MixedReal
  PEER_LOST = 3
  LINK_GRACE = 6
  CLAIM_GRACE = 5
  CLAIM_TIMEOUT = 10
  MAX_BOUNCE = 3
  MAX_FAULTS = 1
  SETTLE = 15
  TAKEOVER = 3
  TWIN = 2
INVARIANTS OnlyElectedWear OneFace NoTwinFaces SwiftTakeover
PROPERTY NoCascade
