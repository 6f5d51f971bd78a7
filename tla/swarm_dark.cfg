SPECIFICATION Spec
CONSTANTS
  Node = {1, 2}
  Eligible = {1, 2}
  Real = {1, 2}
  PEER_LOST = 3
  LINK_GRACE = 6
  CLAIM_GRACE = 5
  CLAIM_TIMEOUT = 10
  MAX_BOUNCE = 12
  MAX_FAULTS = 0
  SETTLE = 30
  TAKEOVER = 3
  TWIN = 2
INVARIANT NeverDark
