\* Two requests to POST /run beside the scheduler: database errors, a death of
\* the service, requests dropped half way, and what a killed child still writes;
\* what an accepted run took is given back.
SPECIFICATION FairSpec
CONSTANTS
  Sched = sched
  Web = {w1, w2}
  Cli = {}
  Unverified = {}
  Roles = {"editor", "curator"}
  Nobody = nobody
  Wall = 1
  Slack = 0
  Overhead = 0
  MaxAttempts = 1
  ManualCap = 3
  Day = 9
  Faults = {"crash", "db", "io", "late", "drop"}
  MaxCalls = 2
  MaxCrashes = 1
  MaxTime = 1
INVARIANTS
  FlagHasOneOwner
  SuccessHasDigest
PROPERTIES
  FlagIsGivenBack
  LockIsFreed
CHECK_DEADLOCK FALSE
