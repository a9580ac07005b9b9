SPECIFICATION BootSpec
CONSTANTS
  Callers = {b, c}
  Booter = b
  FAILURE_THRESHOLD = 5
  MaxFailures = 5
  COOLDOWN = 30
  Polls = 15
  Waits = 5
INVARIANTS
  SeenInTime
PROPERTIES
  BootEnds
