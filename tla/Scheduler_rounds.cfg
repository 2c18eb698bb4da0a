\* Three jobs over two rounds of the day, and a stop at any moment.
SPECIFICATION FairSpec
CONSTANTS
  NumJobs = 3
  Cron <- ThreeJobs
  MaxTime = 14
INVARIANTS
  TypeOK
  FiresOnce
  OwedJobsRun
PROPERTY StopEndsTheLoop
CHECK_DEADLOCK FALSE
