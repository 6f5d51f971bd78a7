SPECIFICATION FairSpec
CONSTANTS
  v1 = v1
  v2 = v2
  Slot <- Slots2
  Peer <- Peers1
  Self = 9
  INFLIGHT_CAP = 1
  SILENT_KILL = 0
  IDLE_KILL = 0
  FLUSH = 0
  FAIL_STREAK = 1
  SUSPECT = 1
  SUSPECT_MAX = 1
INVARIANTS InflightCap SoloIsAlone
PROPERTY SlotReleased
