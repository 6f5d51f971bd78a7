SPECIFICATION MaskSpec
CONSTANTS
  LINK_GRACE = 1
  CLAIM_TIMEOUT = 2
  DHCP_RETRY = 1
  SAVE = 1
  RELINK = 2
  MAX_REIGNS = 2
  MAX_EVENTS = 1
INVARIANT LeaseIsOwn
