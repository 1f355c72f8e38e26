\* One video: others only make the command stop.
SPECIFICATION SweepSpec
CONSTANTS
  Videos = {v1}
  MaxAge = 2
  MaxWork = 1
  MaxTime = 3
INVARIANTS
  ActiveFramesAreKept
CHECK_DEADLOCK FALSE
