SPECIFICATION Spec
CONSTANTS
  v1 = v1
  v2 = v2
  Slot <- Slots1
  Peer <- Peers2
  Self = 9
  INFLIGHT_CAP = 1
  SILENT_KILL = 0
  IDLE_KILL = 0
  FLUSH = 0
  FAIL_STREAK = 2
  SUSPECT = 1
  SUSPECT_MAX = 2
PROPERTY BenchShapesChoice
