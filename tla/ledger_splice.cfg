SPECIFICATION LedgerSpec
CONSTANTS
  Server = {"plain", "admin"}
  ADMIN = "admin"
  RING = 2
  KIND_MAX = 4
  MAX_SERVED = 1
  MAX_REFUSED = 3
INVARIANT AvailAgrees
