SPECIFICATION GuardsFairSpec

CONSTANTS
  Burst = 2
  Unit = 2
  Refill = 1
  ClockSet <- BackOrAhead
  MaxTime = 4
  MaxLines = 4

INVARIANTS
  WindowBound
  RefusedOnlyWhenExceeded

PROPERTIES
  LinesAreRead

CHECK_DEADLOCK FALSE
