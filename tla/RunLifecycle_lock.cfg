\* A scheduled run against a CLI process: two attempts, deaths, restarts and
\* take-overs of a stale lock.
SPECIFICATION Spec
CONSTANTS
  Sched = sched
  Web = {}
  Cli = {c1}
  Unverified = {c1}
  Roles = {"editor"}
  Nobody = nobody
  Wall = 1
  Slack = 0
  Overhead = 0
  MaxAttempts = 2
  ManualCap = 3
  Day = 2
  Faults = {"crash", "release"}
  MaxCalls = 2
  MaxCrashes = 1
  MaxTime = 3
INVARIANTS
  TypeOK
  AtMostOneLiveRun
  LiveRunHoldsLock
  LiveRowIsOpen
  PagesFollowTheRuns
PROPERTIES
  RunsAreSerial
CHECK_DEADLOCK FALSE
