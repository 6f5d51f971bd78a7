SPECIFICATION BladeSpec
CONSTANTS
  Scene = {"recorder", "mask", "ledger", "clicks", "beat"}
  SECTORS = 3
  RECS_PER_SECTOR = 3
  KEEP = 2
  MAX_RECORDS = 11
  MAX_CRASHES = 3
  Mishaps = {"nvs", "oom", "stuck"}
  LINK_GRACE = 1
  CLAIM_TIMEOUT = 2
  DHCP_RETRY = 1
  SAVE = 1
  RELINK = 2
  MAX_REIGNS = 2
  MAX_EVENTS = 1
  Server = {"plain", "admin"}
  ADMIN = "admin"
  RING = 2
  KIND_MAX = 2
  MAX_SERVED = 1
  MAX_REFUSED = 4
  MINUTE = 2
  CLICK_MAX = 4
  STALLS = 3
  SETTLE = 2
  IDLE_CAP = 6
INVARIANTS
  BladeTypeOK OrderKept AddressFits NeverStranded ReignsKept RefusalsTold WatchdogSound
PROPERTIES CleanWrites ForgetsOldest ClicksForfeit
CHECK_DEADLOCK FALSE
