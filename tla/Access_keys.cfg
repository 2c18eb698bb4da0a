\* Two requests, two rotations, and a fetch that may fail.
SPECIFICATION AccessSpec
CONSTANTS
  Requests = {r1, r2}
  Ttl = 3
  Throttle = 2
  Timeout = 1
  MaxKey = 2
  MaxClock = 5
  MaxFailures = 1
PROPERTIES RotationIsLearned RetiredKeysGoOut
CHECK_DEADLOCK FALSE
