SPECIFICATION Spec
CONSTANTS
  PROBE = 2
  BOOT_DELAY = 3
  SICK = 2
  ABORT = 6
  HOLD = 4
  STANDBY_MAX = 3
  Requests = {0, 2, 5}
  Pairs = {6, 7}
  POOL = 16
  WRAP = 1000
  HORIZON = 18
  SOAK = 4
  DEADLINE = 16
INVARIANTS Corpse NoBrick Decided
PROPERTY Earned
