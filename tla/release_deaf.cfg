SPECIFICATION Spec
CONSTANTS
  PROBE = 4
  BOOT_DELAY = 10
  SICK = 2
  ABORT = 6
  HOLD = 30
  STANDBY_MAX = 150
  Requests = {}
  Pairs = {3}
  POOL = 16
  WRAP = 1000
  HORIZON = 40
  SOAK = 30
  DEADLINE = 100
PROPERTY CertifiedListens
