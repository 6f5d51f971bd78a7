SPECIFICATION Spec
CONSTANTS
  b1 = b1
  b2 = b2
  Blade = {b1, b2}
  WIRE = 1
  CEIL = 1
  SECS = 2
  MINS = 2
  Budget <- PlainBudget
INVARIANT NeverTwice
CHECK_DEADLOCK FALSE
