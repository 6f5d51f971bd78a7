SPECIFICATION ObserverSpec
CONSTANTS
  Scene = {"window", "rail", "climate", "clock"}
  Task = {t1, t2, t3}
  JOIN = 2
  SHOW = 2
  WINDOW = 5
  EXTEND = 3
  TRIAL = 3
  DEADLINE = 7
  Member = {0}
  HOST = 1
  LED_N = 2
  View <- Views
  LATCH = 1
  Die = {"d1", "d2"}
  BUCKETS = 2
  BUCKET_S = 2
  REDRAW_S = 2
  SANE_S = 4
  Degree <- Degrees
  MAX_CLOCK = 8
  WORD = 9
  MAX_PASSES = 2
  Blade = {"b1", "b2"}
  Watcher = {"w"}
  SUB = 2
  TOL = 2
  LAG = 1
  MAX_CUTS = 1
  MAX_HOPS = 2
INVARIANTS
  ObserverTypeOK RadioPure DoorIsThere WindowCloses HeldDark ChartTells GlassTells ClockHonest
PROPERTIES ImageNeverCut WholeFrame NoWander
CHECK_DEADLOCK FALSE
